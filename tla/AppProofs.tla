----------------------------- MODULE AppProofs -----------------------------
(***************************************************************************)
(* Theorems about the message loop of App, for every size of the mrid      *)
(* range and every number of calls application code makes: types and       *)
(* proxies first, and from these, that requests find their Msgers, no id   *)
(* is lost, the two records of a Msger's creator agree, and orphans are    *)
(* marked unused.                                                          *)
(***************************************************************************)
EXTENDS App, TLAPS

\* What the ids the loop works on range over, beyond their types: a Msger that
\* was dispatched to, or whose error is forwarded, has an mrid; ~App starts no
\* higher than the last slot.
CursorOK ==
    /\ op \in {"dispatched", "forward", "handled"} => i \in Mrid
    /\ phase = "exit" => i <= LastMrid + 1

TypeInv == TypeOK /\ CursorOK

-----------------------------------------------------------------------------
(* Lemmas about calls and slots *)

LEMMA CallType ==
    ASSUME NEW fn \in Calls, NEW self \in Mrid, NEW src \in Mrid
    PROVE  Call(fn, self, src) \in Frame
BY DEF Call, Frame

LEMMA PushType ==
    ASSUME stack \in Seq(Frame), NEW f \in Frame, Push(f)
    PROVE  stack' \in Seq(Frame)
BY DEF Push

LEMMA TopType ==
    ASSUME stack \in Seq(Frame), Running
    PROVE  /\ Top \in Frame /\ Self \in Mrid /\ Top.src \in Mrid /\ Top.req \in BOOLEAN
           /\ Tail(stack) \in Seq(Frame)
<1>1. Head(stack) \in Frame /\ Tail(stack) \in Seq(Frame)
  BY DEF Running
<1> QED BY <1>1 DEF Top, Self, Frame

LEMMA SlotType ==
    ASSUME msgers \in [Mrid -> Msger], NEW id \in Mrid
    PROVE  /\ NoMsger \in Msger
           /\ NewMsger(id) \in Msger
           /\ msgers[id].src \in Mrid
           /\ [msgers[id] EXCEPT !.unused = TRUE] \in Msger
<1>1. 0 \in Mrid
  BY LastMridAssumption DEF Mrid
<1>2. NoMsger \in Msger
  BY <1>1 DEF NoMsger, Msger
<1>3. NewMsger(id) \in Msger
  BY DEF NewMsger, Msger
<1>4. msgers[id] \in Msger
  OBVIOUS
<1>5. msgers[id].src \in Mrid /\ [msgers[id] EXCEPT !.unused = TRUE] \in Msger
  BY <1>4 DEF Msger
<1> QED BY <1>2, <1>3, <1>5

\* OnMsgerDestroyed and FreeMrid keep the types of the variables they change.
LEMMA OnMsgerDestroyedType ==
    ASSUME msgers \in [Mrid -> Msger], stack \in Seq(Frame),
           NEW id \in Mrid, NEW dead \in Mrid, OnMsgerDestroyed(id, dead)
    PROVE  msgers' \in [Mrid -> Msger] /\ stack' \in Seq(Frame)
<1>1. msgers[id].src \in Mrid
  BY SlotType
<1>2. Call("OnMsgerDestroyed", id, msgers[id].src) \in Frame
  BY <1>1, CallType DEF Calls
<1>3. stack' \in Seq(Frame)
  BY <1>2, PushType DEF OnMsgerDestroyed
<1>4. msgers' \in [Mrid -> Msger]
  BY DEF OnMsgerDestroyed, Msger
<1> QED BY <1>3, <1>4

LEMMA FreeMridType ==
    ASSUME TypeOK, NEW id \in Mrid, FreeMrid(id)
    PROVE  /\ size' \in 0..(LastMrid + 1)
           /\ msgers' \in [Mrid -> Msger] /\ creators' \in [Mrid -> Mrid]
           /\ stack' \in Seq(Frame)
<1>1. CASE ~Live(id) /\ id + 1 = size /\ size' = id /\ UNCHANGED <<msgers, creators, stack>>
  BY <1>1, LastMridAssumption DEF TypeOK, Mrid
<1>2. CASE /\ creators' = [creators EXCEPT ![id] = id] /\ UNCHANGED size
           /\ IF Live(id) THEN OnMsgerDestroyed(id, creators[id])
                          ELSE UNCHANGED <<msgers, stack>>
  <2>1. creators[id] \in Mrid
    BY DEF TypeOK
  <2>2. msgers' \in [Mrid -> Msger] /\ stack' \in Seq(Frame)
    BY <1>2, <2>1, OnMsgerDestroyedType DEF TypeOK
  <2> QED BY <1>2, <2>2 DEF TypeOK
<1>3. CASE UNCHANGED <<table, stack>>
  BY <1>3 DEF TypeOK, table
<1> QED BY <1>1, <1>2, <1>3 DEF FreeMrid

LEMMA BeginDeleteType ==
    ASSUME TypeOK, NEW id \in Mrid, BeginDelete(id)
    PROVE  /\ mid' \in Mrid /\ crid' \in Mrid /\ op' = "notify"
           /\ msgers' \in [Mrid -> Msger] /\ stack' \in Seq(Frame)
           /\ proxies' \in [Mrid -> SUBSET Mrid]
<1>1. msgers[id].src \in Mrid /\ NoMsger \in Msger
  BY SlotType DEF TypeOK
<1>2. Call("dtor", id, msgers[id].src) \in Frame
  BY <1>1, CallType DEF Calls
<1>3. stack' \in Seq(Frame)
  BY <1>2, PushType DEF BeginDelete, TypeOK
<1>4. msgers' \in [Mrid -> Msger]
  BY <1>1 DEF BeginDelete, TypeOK
<1>5. mid' \in Mrid /\ crid' \in Mrid /\ op' = "notify"
  BY DEF BeginDelete, TypeOK
<1>6. proxies' \in [Mrid -> SUBSET Mrid]
  BY DEF BeginDelete, TypeOK
<1> QED BY <1>3, <1>4, <1>5, <1>6

-----------------------------------------------------------------------------
(* Type correctness *)

LEMMA TypeInvInit == Init => TypeInv
<1> SUFFICES ASSUME Init PROVE TypeInv
  OBVIOUS
<1>1. 0 \in Mrid /\ mrid_App = 0
  BY LastMridAssumption DEF Mrid, mrid_App
<1>2. msgers \in [Mrid -> Msger]
  BY <1>1 DEF Init, Msger, NoMsger
<1>3. stack \in Seq(Frame)
  BY <1>1, CallType DEF Init, Calls
<1>4. creators \in [Mrid -> Mrid] /\ proxies \in [Mrid -> SUBSET Mrid]
  BY <1>1 DEF Init
<1>5. size \in 0..(LastMrid + 1) /\ calls \in 0..MaxCalls
  <2>1. size = 1 /\ calls = 0
    BY DEF Init
  <2> QED BY <2>1, LastMridAssumption, MaxCallsAssumption
<1>6. i \in 0..(LastMrid + 2) /\ n \in 0..(LastMrid + 2) /\ ci \in 0..(LastMrid + 1)
  BY LastMridAssumption DEF Init
<1>7. /\ outq \in Seq(Message) /\ inq \in Seq(Message)
      /\ errors \in BOOLEAN /\ quit \in {"no", "ok", "failed"}
  <2>1. outq = <<>> /\ inq = <<>> /\ errors = FALSE /\ quit = "no"
    BY DEF Init
  <2>2. <<>> \in Seq(Message)
    OBVIOUS
  <2>3. outq \in Seq(Message) /\ inq \in Seq(Message)
    BY <2>1, <2>2
  <2> QED BY <2>1, <2>3
<1>8. phase = "start" /\ op = "none" /\ oid \in Mrid /\ mid \in Mrid /\ crid \in Mrid
  BY <1>1 DEF Init
<1> QED BY <1>2, <1>3, <1>4, <1>5, <1>6, <1>7, <1>8 DEF TypeInv, TypeOK, CursorOK

\* Application code leaves the framework's own variables alone.
LEMMA ApplicationTypes == TypeInv /\ Application => TypeInv'
<1> SUFFICES ASSUME TypeInv, Application PROVE TypeInv'
  OBVIOUS
<1>0. TypeOK
  BY DEF TypeInv
<1>1. Running
  BY DEF Application, SendNew, SendTo, Reply, Broadcast, FreeId, Error, Quit,
         SetUnused, ReturnCtor, ReturnDtor, Return, AppCode
<1>2. /\ Self \in Mrid /\ Top.src \in Mrid /\ Top.req \in BOOLEAN
      /\ Tail(stack) \in Seq(Frame)
  BY <1>0, <1>1, TopType DEF TypeOK
<1>3. ASSUME AppCode PROVE calls' \in 0..MaxCalls
  BY <1>0, <1>3, MaxCallsAssumption DEF AppCode, TypeOK
<1>4. ASSUME NEW id \in Mrid, NEW msg \in Message, CreateMsger(id, msg)
      PROVE  stack' \in Seq(Frame)
  <2>1. [Call("ctor", id, Self) EXCEPT !.req = msg.req] \in Frame
    BY <1>2, CallType DEF Call, Frame, Message, Calls
  <2> QED BY <1>0, <1>4, <2>1, PushType DEF CreateMsger, TypeOK
<1>5. ASSUME NEW id \in Mrid \cup {mrid_New} PROVE Request(id) \in Message
  BY DEF Request, Message
<1>6. CASE SendNew
  <2>1. PICK id \in 0..size :
          /\ NextMrid(id)
          /\ IF Exhausted(id)
             THEN /\ errors' = TRUE
                  /\ outq' = Append(outq, Request(mrid_New))
                  /\ UNCHANGED <<table, proxies, stack>>
             ELSE /\ size' = IF id = size THEN size + 1 ELSE size
                  /\ creators' = [creators EXCEPT ![id] = Self]
                  /\ proxies' = [proxies EXCEPT ![Self] = @ \cup {id}]
                  /\ CreateMsger(id, Request(id))
                  /\ UNCHANGED <<msgers, outq, errors>>
    BY <1>6 DEF SendNew
  <2>2. UNCHANGED <<inq, quit, control>> /\ calls' \in 0..MaxCalls
    BY <1>3, <1>6 DEF SendNew
  <2>3. CASE Exhausted(id)
    <3>1. outq \in Seq(Message) /\ outq' = Append(outq, Request(mrid_New))
      BY <1>0, <2>1, <2>3 DEF TypeOK
    <3>2. outq' \in Seq(Message)
      BY <1>5, <3>1
    <3> QED BY <1>0, <2>1, <2>2, <2>3, <3>2
            DEF TypeInv, TypeOK, CursorOK, table, control, range, deletion
  <2>4. CASE ~Exhausted(id)
    <3>1. id \in Mrid /\ id <= size
      BY <1>0, <2>4, LastMridAssumption DEF Exhausted, Mrid, TypeOK
    <3>2. stack' \in Seq(Frame)
      BY <1>4, <1>5, <2>1, <2>4, <3>1
    <3>3. size' \in 0..(LastMrid + 1)
      <4>1. size \in 0..(LastMrid + 1) /\ size' = IF id = size THEN size + 1 ELSE size
        BY <1>0, <2>1, <2>4 DEF TypeOK
      <4> QED BY <3>1, <4>1, LastMridAssumption DEF Mrid
    <3>4. creators' \in [Mrid -> Mrid] /\ proxies' \in [Mrid -> SUBSET Mrid]
      BY <1>0, <1>2, <2>1, <2>4, <3>1, SMTT(30) DEF TypeOK
    <3> QED BY <1>0, <2>1, <2>2, <2>4, <3>2, <3>3, <3>4
            DEF TypeInv, TypeOK, CursorOK, control, range, deletion
  <2> QED BY <2>3, <2>4
<1>7. ASSUME NEW id \in Mrid, SendTo(id) PROVE TypeInv'
  <2>1. Request(id) \in Message
    BY <1>5
  <2>2. outq' \in Seq(Message) /\ stack' \in Seq(Frame)
    <3>1. outq \in Seq(Message) /\ stack \in Seq(Frame)
      BY <1>0 DEF TypeOK
    <3>2. \/ CreateMsger(id, Request(id)) /\ UNCHANGED outq
          \/ outq' = Append(outq, Request(id)) /\ UNCHANGED stack
      BY <1>7 DEF SendTo
    <3> QED BY <1>4, <2>1, <3>1, <3>2, SMTT(30)
  <2>3. calls' \in 0..MaxCalls
    BY <1>3, <1>7 DEF SendTo
  <2> QED BY <1>0, <1>7, <2>2, <2>3
          DEF SendTo, TypeInv, TypeOK, CursorOK, table, status, control, range, deletion
<1>8. CASE Reply
  <2> DEFINE msg == [dest |-> Top.src, req |-> FALSE]
  <2>1. msg \in Message
    BY <1>2 DEF Message
  <2>2. outq' \in Seq(Message) /\ stack' \in Seq(Frame)
    <3>1. outq \in Seq(Message) /\ stack \in Seq(Frame)
      BY <1>0 DEF TypeOK
    <3>2. \/ CreateMsger(Top.src, msg) /\ UNCHANGED outq
          \/ outq' = Append(outq, msg) /\ UNCHANGED stack
      BY <1>8 DEF Reply
    <3>3. CASE CreateMsger(Top.src, msg) /\ UNCHANGED outq
      <4>1. stack' \in Seq(Frame)
        <5> HIDE DEF msg
        <5> QED BY <1>2, <1>4, <2>1, <3>3
      <4> QED BY <3>1, <3>3, <4>1
    <3>4. CASE outq' = Append(outq, msg) /\ UNCHANGED stack
      <4> HIDE DEF msg
      <4> QED BY <2>1, <3>1, <3>4
    <3> QED BY <3>2, <3>3, <3>4
  <2>3. calls' \in 0..MaxCalls
    BY <1>3, <1>8 DEF Reply
  <2> QED BY <1>0, <1>8, <2>2, <2>3
          DEF Reply, TypeInv, TypeOK, CursorOK, table, status, control, range, deletion
<1>9. CASE Broadcast
  <2>1. [dest |-> mrid_Broadcast, req |-> FALSE] \in Message
    BY DEF Message
  <2>2. outq' \in Seq(Message)
    BY <1>0, <1>9, <2>1 DEF Broadcast, TypeOK
  <2>3. calls' \in 0..MaxCalls
    BY <1>3, <1>9 DEF Broadcast
  <2> QED BY <1>0, <1>9, <2>2, <2>3
          DEF Broadcast, TypeInv, TypeOK, CursorOK, table, status, control, range, deletion
<1>10. ASSUME NEW id \in Mrid, FreeId(id) PROVE TypeInv'
  <2>1. /\ size' \in 0..(LastMrid + 1)
        /\ msgers' \in [Mrid -> Msger] /\ creators' \in [Mrid -> Mrid]
        /\ stack' \in Seq(Frame)
    BY <1>0, <1>10, FreeMridType DEF FreeId, TypeOK, table
  <2>2. proxies' \in [Mrid -> SUBSET Mrid]
    BY <1>0, <1>10 DEF FreeId, TypeOK
  <2>3. calls' \in 0..MaxCalls
    BY <1>3, <1>10 DEF FreeId
  <2> QED BY <1>0, <1>10, <2>1, <2>2, <2>3
          DEF FreeId, TypeInv, TypeOK, CursorOK, queues, status, control, range, deletion
<1>11. CASE Error
  BY <1>0, <1>3, <1>11
  DEF Error, TypeInv, TypeOK, CursorOK, table, queues, control, range, deletion
<1>12. CASE Quit
  BY <1>0, <1>3, <1>12
  DEF Quit, TypeInv, TypeOK, CursorOK, table, queues, control, range, deletion
<1>13. CASE SetUnused
  <2>1. msgers' \in [Mrid -> Msger]
    BY <1>0, <1>2, <1>13, SlotType DEF SetUnused, TypeOK
  <2> QED BY <1>0, <1>3, <1>13, <2>1
          DEF SetUnused, TypeInv, TypeOK, CursorOK, queues, status, control, range, deletion
<1>14. CASE ReturnCtor
  <2>1. NewMsger(Top.src) \in Msger
    BY <1>0, <1>2, SlotType DEF TypeOK
  <2>2. [dest |-> Self, req |-> Top.req] \in Message
    BY <1>2 DEF Message
  <2>3. msgers' \in [Mrid -> Msger] /\ outq' \in Seq(Message) /\ stack' \in Seq(Frame)
    BY <1>0, <1>2, <1>14, <2>1, <2>2 DEF ReturnCtor, TypeOK
  <2> QED BY <1>0, <1>14, <2>3
          DEF ReturnCtor, TypeInv, TypeOK, CursorOK, status, control, range, deletion
<1>15. CASE ReturnDtor
  <2>1. proxies' \in [Mrid -> SUBSET Mrid] /\ stack' \in Seq(Frame)
    BY <1>0, <1>2, <1>15 DEF ReturnDtor, TypeOK
  <2> QED BY <1>0, <1>15, <2>1
          DEF ReturnDtor, TypeInv, TypeOK, CursorOK, table, queues, status, control, range, deletion
<1>16. CASE Return
  BY <1>0, <1>2, <1>16
  DEF Return, TypeInv, TypeOK, CursorOK, table, queues, status, control, range, deletion
<1> QED
  <2>1. \/ SendNew \/ Reply \/ Broadcast \/ Error \/ Quit \/ SetUnused
        \/ \E id \in Mrid : SendTo(id) \/ FreeId(id)
        \/ ReturnCtor \/ ReturnDtor \/ Return
    BY DEF Application
  <2> QED BY <1>6, <1>7, <1>8, <1>9, <1>10, <1>11, <1>12, <1>13, <1>14, <1>15, <1>16, <2>1

\* The steps of the loop up to the deletion of unused Msgers.
LEMMA InputTypes ==
    TypeInv /\ (Run \/ LoopQuits \/ SwapQueues \/ ProcessInputQueue) => TypeInv'
<1> SUFFICES ASSUME TypeInv, Run \/ LoopQuits \/ SwapQueues \/ ProcessInputQueue
             PROVE  TypeInv'
  OBVIOUS
<1>0. TypeOK
  BY DEF TypeInv
<1>1. /\ size \in Nat /\ size <= LastMrid + 1 /\ LastMrid \in Nat
      /\ 0 \in 0..(LastMrid + 2) /\ size \in 0..(LastMrid + 2) /\ 0 \in Mrid
  BY <1>0, LastMridAssumption DEF TypeOK, Mrid
<1>2. ASSUME NEW id \in Mrid PROVE msgers[id].src \in Mrid
  BY <1>0, <1>2, SlotType DEF TypeOK
<1>3. ASSUME EnterDelete
      PROVE  /\ phase' = "delete" /\ op' = "none" /\ oid' \in Mrid /\ UNCHANGED deletion
             /\ i' \in 0..(LastMrid + 2) /\ n' \in 0..(LastMrid + 2)
  BY <1>1, <1>3 DEF EnterDelete
<1>4. CASE Run
  BY <1>0, <1>1, <1>4
  DEF Run, EnterExit, TypeInv, TypeOK, CursorOK, table, queues, range, deletion, At
<1>5. CASE LoopQuits
  BY <1>0, <1>1, <1>5
  DEF LoopQuits, EnterExit, TypeInv, TypeOK, CursorOK, table, queues, status, deletion, At
<1>6. CASE SwapQueues
  <2>1. calls' \in 0..MaxCalls
    BY <1>6, MaxCallsAssumption DEF SwapQueues
  <2>2. inq' \in Seq(Message) /\ outq' \in Seq(Message)
    <3>1. outq \in Seq(Message) /\ inq' = outq /\ outq' = <<>>
      BY <1>0, <1>6 DEF SwapQueues, TypeOK
    <3> QED BY <3>1
  <2> QED BY <1>0, <1>6, <2>1, <2>2
          DEF SwapQueues, TypeInv, TypeOK, CursorOK, table, status, range, deletion, At
<1>7. CASE NextMsg
  <2>1. inq' \in Seq(Message)
    <3>1. inq \in Seq(Message) /\ inq # <<>> /\ inq' = Tail(inq)
      BY <1>0, <1>7 DEF NextMsg, TypeOK
    <3> QED BY <3>1
  <2>2. Head(inq).dest \in Nat
    <3>1. inq \in Seq(Message) /\ inq # <<>>
      BY <1>0, <1>7 DEF NextMsg, TypeOK
    <3>2. Head(inq) \in Message
      BY <3>1
    <3> QED BY <3>2, <1>1 DEF Message, Mrid, mrid_New, mrid_Broadcast
  <2>3. i' \in 0..(LastMrid + 2) /\ n' \in 0..(LastMrid + 2) /\ op' \in {"none", "range"}
    BY <1>0, <1>1, <1>7, <2>2, SMTT(30) DEF NextMsg, ValidMsgerId, range, At, TypeOK
  <2> QED BY <1>0, <1>7, <2>1, <2>3
          DEF NextMsg, TypeInv, TypeOK, CursorOK, table, status, deletion, At
<1>8. CASE Dispatch
  <2>1. PICK k \in i..(n - 1) : Live(k) /\ i' = k /\ Push(Call("Dispatch", k, msgers[k].src))
    BY <1>8 DEF Dispatch
  <2>2. k \in Mrid
    BY <2>1 DEF Live
  <2>3. Call("Dispatch", k, msgers[k].src) \in Frame
    BY <1>2, <2>2, CallType DEF Calls
  <2>4. stack' \in Seq(Frame)
    BY <1>0, <2>1, <2>3, PushType DEF TypeOK
  <2>5. i' \in 0..(LastMrid + 2)
    BY <1>1, <2>1, <2>2 DEF Mrid
  <2> QED BY <1>0, <1>8, <2>1, <2>2, <2>4, <2>5
          DEF Dispatch, TypeInv, TypeOK, CursorOK, table, queues, status, deletion, At
<1>9. CASE RangeDone
  BY <1>0, <1>1, <1>9
  DEF RangeDone, TypeInv, TypeOK, CursorOK, table, queues, status, deletion, At
<1>10. CASE DispatchPastEnd
  BY <1>0, <1>10
  DEF DispatchPastEnd, TypeInv, TypeOK, CursorOK, table, queues, status, range, deletion, At
<1>11. CASE CheckErrors
  <2>1. i \in Mrid
    BY <1>11 DEF CheckErrors, TypeInv, CursorOK, At
  <2>2. i' \in 0..(LastMrid + 2) /\ (i' = i \/ op' = "range")
    <3>1. (i' = i /\ op' = "forward") \/ (i' = i + 1 /\ op' = "range")
      BY <1>11 DEF CheckErrors
    <3>2. i \in Nat /\ i <= LastMrid
      BY <1>1, <2>1 DEF Mrid
    <3> QED BY <1>1, <3>1, <3>2
  <2> QED BY <1>0, <1>11, <2>1, <2>2
          DEF CheckErrors, TypeInv, TypeOK, CursorOK, table, queues, status, deletion, At
<1>12. CASE InputDone
  BY <1>0, <1>3, <1>12
  DEF InputDone, TypeInv, TypeOK, CursorOK, table, queues, status, deletion
<1>13. ASSUME FailOnError
       PROVE  /\ quit' = "failed" /\ inq' \in Seq(Message) /\ phase' = "delete"
              /\ op' = "none" /\ oid' \in Mrid /\ UNCHANGED deletion
              /\ i' \in 0..(LastMrid + 2) /\ n' \in 0..(LastMrid + 2)
  <2>1. quit' = "failed" /\ inq' = <<>> /\ EnterDelete
    BY <1>13 DEF FailOnError
  <2> QED BY <1>3, <2>1
<1>14. CASE ForwardErrorNobody
  BY <1>0, <1>13, <1>14
  DEF ForwardErrorNobody, TypeInv, TypeOK, CursorOK, table, deletion
<1>15. CASE ForwardErrorHandled
  <2>1. Call("OnError", oid, msgers[oid].src) \in Frame
    BY <1>0, <1>2, CallType DEF Calls, TypeOK
  <2>2. stack' \in Seq(Frame)
    BY <1>0, <1>15, <2>1, PushType DEF ForwardErrorHandled, TypeOK
  <2> QED BY <1>0, <1>15, <2>2
          DEF ForwardErrorHandled, TypeInv, TypeOK, CursorOK, table, queues, status, range,
              deletion, At
<1>16. CASE ClearErrors
  <2>1. i \in Mrid
    BY <1>16 DEF ClearErrors, TypeInv, CursorOK, At
  <2>2. i' \in 0..(LastMrid + 2)
    BY <1>1, <1>16, <2>1 DEF ClearErrors, Mrid
  <2> QED BY <1>0, <1>1, <1>16, <2>2
          DEF ClearErrors, TypeInv, TypeOK, CursorOK, table, queues, deletion, At
<1>17. CASE ForwardErrorDeclined
  <2>1. msgers' \in [Mrid -> Msger]
    BY <1>0, <1>17, SlotType DEF ForwardErrorDeclined, TypeOK
  <2>2. CASE FailOnError
    BY <1>0, <1>13, <1>17, <2>1, <2>2
    DEF ForwardErrorDeclined, TypeInv, TypeOK, CursorOK, deletion
  <2>3. CASE oid' = msgers[oid].src /\ UNCHANGED <<quit, inq, phase, op, range, deletion>>
    <3>1. oid' \in Mrid
      BY <1>0, <1>2, <2>3 DEF TypeOK
    <3> QED BY <1>0, <1>17, <2>1, <2>3, <3>1
            DEF ForwardErrorDeclined, TypeInv, TypeOK, CursorOK, range, deletion, At
  <2> QED BY <1>17, <2>2, <2>3 DEF ForwardErrorDeclined
<1> QED
  BY <1>4, <1>5, <1>6, <1>7, <1>8, <1>9, <1>10, <1>11, <1>12, <1>14, <1>15, <1>16, <1>17
  DEF ProcessInputQueue, ForwardError

\* The steps of DeleteUnusedMsgers, DeleteMsger, RunTimers and ~App.
LEMMA DeletionTypes ==
    TypeInv /\ (DeleteMsgers \/ RunTimers \/ ExitDone) => TypeInv'
<1> SUFFICES ASSUME TypeInv, DeleteMsgers \/ RunTimers \/ ExitDone
             PROVE  TypeInv'
  OBVIOUS
<1>0. TypeOK
  BY DEF TypeInv
<1>1. /\ LastMrid \in Nat /\ 0 \in 0..(LastMrid + 2) /\ 0 \in 0..(LastMrid + 1)
      /\ 0 \in Mrid /\ size \in Nat /\ size <= LastMrid + 1
  BY <1>0, LastMridAssumption DEF TypeOK, Mrid
<1>2. CASE DeleteUnused
  <2>1. PICK k \in i..(n - 1) : Deletable(k) /\ i' = k + 1 /\ BeginDelete(k)
    BY <1>2 DEF DeleteUnused
  <2>2. k \in Mrid
    BY <2>1 DEF Deletable, Live
  <2>3. i' \in 0..(LastMrid + 2)
    BY <1>1, <2>1, <2>2 DEF Mrid
  <2>4. /\ mid' \in Mrid /\ crid' \in Mrid /\ op' = "notify"
        /\ msgers' \in [Mrid -> Msger] /\ stack' \in Seq(Frame)
        /\ proxies' \in [Mrid -> SUBSET Mrid]
    BY <1>0, <2>1, <2>2, BeginDeleteType
  <2> QED BY <1>0, <1>2, <2>3, <2>4
          DEF DeleteUnused, TypeInv, TypeOK, CursorOK, queues, status, At
<1>3. CASE DeleteAtExit
  <2>1. i > 0 /\ i' = i - 1 /\ BeginDelete(i - 1) /\ i <= LastMrid + 1
    BY <1>3 DEF DeleteAtExit, At, TypeInv, CursorOK
  <2>2. i \in Nat
    BY <1>0 DEF TypeOK
  <2>3. i - 1 \in Mrid /\ i' \in 0..(LastMrid + 2) /\ i' <= LastMrid + 1
    BY <1>1, <2>1, <2>2 DEF Mrid
  <2>4. /\ mid' \in Mrid /\ crid' \in Mrid /\ op' = "notify"
        /\ msgers' \in [Mrid -> Msger] /\ stack' \in Seq(Frame)
        /\ proxies' \in [Mrid -> SUBSET Mrid]
    BY <1>0, <2>1, <2>3, BeginDeleteType
  <2> QED BY <1>0, <1>3, <2>3, <2>4
          DEF DeleteAtExit, TypeInv, TypeOK, CursorOK, queues, status, At
<1>4. CASE NotifyCreator
  <2>1. /\ size' \in 0..(LastMrid + 1)
        /\ msgers' \in [Mrid -> Msger] /\ creators' \in [Mrid -> Mrid]
        /\ stack' \in Seq(Frame)
    <3>0. /\ msgers \in [Mrid -> Msger] /\ stack \in Seq(Frame)
          /\ crid \in Mrid /\ mid \in Mrid
      BY <1>0 DEF TypeOK
    <3>1. CASE UNCHANGED <<table, stack>>
      BY <1>0, <3>1 DEF TypeOK, table
    <3>2. CASE OnMsgerDestroyed(crid, mid) /\ UNCHANGED <<size, creators>>
      <4>1. msgers' \in [Mrid -> Msger] /\ stack' \in Seq(Frame)
        BY <3>0, <3>2, OnMsgerDestroyedType
      <4> QED BY <1>0, <3>2, <4>1 DEF TypeOK
    <3>3. CASE FreeMrid(mid)
      BY <1>0, <3>0, <3>3, FreeMridType
    <3> QED BY <1>4, <3>1, <3>2, <3>3 DEF NotifyCreator
  <2> QED BY <1>0, <1>4, <2>1
          DEF NotifyCreator, TypeInv, TypeOK, CursorOK, queues, status, range, deletion
<1>5. CASE NotifyOrphan
  <2>1. PICK k \in ci..(size - 1) : FreeMrid(k) /\ ci' = k + 1
    BY <1>5 DEF NotifyOrphan
  <2>2. k \in Mrid /\ ci' \in 0..(LastMrid + 1)
    <3>1. ci \in Nat
      BY <1>0 DEF TypeOK
    <3> QED BY <1>1, <2>1, <3>1 DEF Mrid
  <2>3. /\ size' \in 0..(LastMrid + 1)
        /\ msgers' \in [Mrid -> Msger] /\ creators' \in [Mrid -> Mrid]
        /\ stack' \in Seq(Frame)
    BY <1>0, <2>1, <2>2, FreeMridType
  <2> QED BY <1>0, <1>5, <2>2, <2>3
          DEF NotifyOrphan, TypeInv, TypeOK, CursorOK, queues, status, range
<1>6. CASE DeleteDone
  BY <1>0, <1>1, <1>6
  DEF DeleteDone, TypeInv, TypeOK, CursorOK, table, queues, status, range
<1>7. CASE RunTimers
  BY <1>0, <1>1, <1>7
  DEF RunTimers, TypeInv, TypeOK, CursorOK, table, queues, deletion, At
<1>8. CASE ExitDone
  BY <1>0, <1>8
  DEF ExitDone, TypeInv, TypeOK, CursorOK, table, queues, status, range, deletion, At
<1> QED BY <1>2, <1>3, <1>4, <1>5, <1>6, <1>7, <1>8 DEF DeleteMsgers

LEMMA TypeInvNext == TypeInv /\ [Next]_vars => TypeInv'
<1>1. TypeInv /\ Framework => TypeInv'
  BY InputTypes, DeletionTypes DEF Framework
<1>2. TypeInv /\ UNCHANGED vars => TypeInv'
  BY DEF TypeInv, TypeOK, CursorOK, vars, table, queues, status, control, range, deletion
<1> QED BY <1>1, <1>2, ApplicationTypes DEF Next, Terminated

\* Type correctness of the message loop: the table never outgrows the mrid
\* range, and every cursor of the framework's loops over it stays within it.
THEOREM TypeCorrect == Spec => []TypeOK
<1>1. TypeInv => TypeOK
  BY DEF TypeInv
<1> QED BY <1>1, TypeInvInit, TypeInvNext, PTL DEF Spec

-----------------------------------------------------------------------------
(***************************************************************************)
(* The ids held by proxies.  ProxyOwnsId is not inductive: it survives the *)
(* reuse of an id because a Msger that holds ids is alive, is under        *)
(* construction or is running its destructor (HolderLive), and it survives *)
(* the release of ids in DeleteMsger because by then the deleted Msger     *)
(* holds none (DeletedHoldsNothing) and the creator whose place is empty   *)
(* is the one on record (CridSaved).  The rest says which calls can be on  *)
(* the stack: while a Msger is deleted, and while constructors construct   *)
(* further Msgers, each on top of the one it was called by (NestedCalls).  *)
(***************************************************************************)

UserCalls == {"ProcessArgs", "Dispatch", "OnError"}

Constructing(m) == \E k \in DOMAIN stack : stack[k].fn = "ctor" /\ stack[k].self = m

HolderLive ==
    \A m \in Mrid :
        proxies[m] # {} =>
            Live(m) \/ Constructing(m) \/ (op = "notify" /\ mid = m /\ Running)

CallerLive == \A k \in DOMAIN stack : stack[k].fn \in UserCalls => Live(stack[k].self)

DtorCalls ==
    \A k \in DOMAIN stack :
        stack[k].fn = "dtor" => op = "notify" /\ stack[k].self = mid /\ k = Len(stack)

CtorCalls ==
    \A k \in DOMAIN stack : stack[k].fn = "ctor" =>
        /\ stack[k].self < size /\ ~Live(stack[k].self)
        /\ k = 1 \/ "ctor" \in Senders
        /\ "ctor" \in Senders => op # "notify"

\* Constructors that send are called by constructors or by the loop's call at the
\* bottom, and each constructs the Msger of an id its caller owns.
NestedCalls ==
    "ctor" \in Senders =>
        \A k \in DOMAIN stack :
            /\ stack[k].fn = "OnMsgerDestroyed" => k = 1
            /\ stack[k].fn \in UserCalls => k = Len(stack)
            /\ stack[k].fn = "ctor" =>
                 /\ k + 1 \in DOMAIN stack /\ creators[stack[k].self] = stack[k + 1].self
                 /\ \A l \in DOMAIN stack : l > k => stack[l].self # stack[k].self

LiveInTable == \A m \in Mrid : Live(m) => m < size

NotifyCalls ==
    op = "notify" =>
        /\ \A k \in DOMAIN stack : stack[k].fn \notin UserCalls
        /\ Running => stack[Len(stack)].fn = "dtor" /\ (mid < size \/ crid = mid)

OrphanCalls == op = "orphans" => \A k \in DOMAIN stack : stack[k].fn = "OnMsgerDestroyed"

DeletedHoldsNothing == (op = "notify" /\ ~Running) \/ op = "orphans" => proxies[mid] = {}

CridSaved == op = "notify" => creators[mid] = crid

ProxyInv ==
    /\ ProxyOwnsId /\ HolderLive /\ LiveInTable
    /\ CallerLive /\ DtorCalls /\ CtorCalls /\ NestedCalls /\ NotifyCalls /\ OrphanCalls
    /\ DeletedHoldsNothing /\ CridSaved

\* OnMsgerDestroyed of an application Msger neither sends messages nor frees
\* ids.  Constructors may, if destructors do not and no reply constructs a Msger.
SendersNestSafely ==
    /\ "OnMsgerDestroyed" \notin Senders
    /\ "ctor" \in Senders => "dtor" \notin Senders /\ ~ReplyHasFactory

LEMMA CallsType ==
    ASSUME stack \in Seq(Frame)
    PROVE  \A k \in DOMAIN stack : stack[k].self \in Mrid
<1>1. \A k \in DOMAIN stack : stack[k] \in Frame
  OBVIOUS
<1> QED BY <1>1 DEF Frame

\* The calls on the stack after one is made and after one returns.
LEMMA PushCalls ==
    ASSUME stack \in Seq(Frame), NEW f \in Frame, Push(f)
    PROVE  /\ stack' # <<>> /\ Len(stack') = Len(stack) + 1
           /\ \A k \in DOMAIN stack' :
                \/ k = 1 /\ stack'[k] = f
                \/ k - 1 \in DOMAIN stack /\ stack'[k] = stack[k - 1]
           /\ stack = <<>> => stack'[Len(stack')] = f
           /\ stack # <<>> => stack'[Len(stack')] = stack[Len(stack)]
BY DEF Push

LEMMA ReturnCalls ==
    ASSUME stack \in Seq(Frame), Running, stack' = Tail(stack)
    PROVE  /\ Top = stack[1] /\ 1 \in DOMAIN stack
           /\ Len(stack') = Len(stack) - 1
           /\ \A k \in DOMAIN stack' : k + 1 \in DOMAIN stack /\ stack'[k] = stack[k + 1]
           /\ stack' = <<>> => Len(stack) = 1
           /\ stack' # <<>> => stack'[Len(stack')] = stack[Len(stack)]
<1>1. stack \in Seq(Frame) /\ stack # <<>> /\ stack' = Tail(stack)
  BY DEF Running
<1>2. Top = stack[1] /\ 1 \in DOMAIN stack /\ Len(stack) \in Nat /\ Len(stack) >= 1
  BY <1>1 DEF Top
<1>3. stack' \in Seq(Frame) /\ Len(stack') = Len(stack) - 1
  BY <1>1
<1>4. \A k \in DOMAIN stack' : k + 1 \in DOMAIN stack /\ stack'[k] = stack[k + 1]
  BY <1>1
<1>5. stack' = <<>> => Len(stack) = 1
  BY <1>1, <1>2, <1>3
<1>6. ASSUME stack' # <<>> PROVE stack'[Len(stack')] = stack[Len(stack)]
  <2>1. Len(stack') \in DOMAIN stack'
    BY <1>3, <1>6
  <2> QED BY <1>2, <1>3, <1>4, <2>1
<1> QED BY <1>2, <1>3, <1>4, <1>5, <1>6

\* A step that leaves ids and calls alone, and takes no slot away, keeps the
\* invariant; so does the end of a deletion.
LEMMA ProxyInvQuiet ==
    ASSUME TypeOK, ProxyInv, UNCHANGED <<size, creators, proxies, stack>>,
           \A m \in Mrid : Live(m)' = Live(m),
           \/ UNCHANGED <<op, mid, crid>>
           \/ ~Running /\ op' \notin {"notify", "orphans"}
    PROVE  ProxyInv'
<1>1. Running' = Running
  BY DEF Running
<1>2. \A k \in DOMAIN stack : stack[k].self \in Mrid
  BY CallsType DEF TypeOK
<1>3. ProxyOwnsId' /\ LiveInTable' /\ NestedCalls' /\ \A m : Constructing(m)' = Constructing(m)
  BY DEF ProxyInv, ProxyOwnsId, LiveInTable, NestedCalls, Constructing
<1>4. CallerLive'
  BY <1>2 DEF ProxyInv, CallerLive
<1>5. CASE UNCHANGED <<op, mid, crid>>
  <2>1. HolderLive' /\ DeletedHoldsNothing' /\ CridSaved'
    BY <1>1, <1>3, <1>5 DEF ProxyInv, HolderLive, DeletedHoldsNothing, CridSaved
  <2>2. DtorCalls' /\ NotifyCalls' /\ OrphanCalls'
    BY <1>1, <1>5 DEF ProxyInv, DtorCalls, NotifyCalls, OrphanCalls
  <2>3. CtorCalls'
    BY <1>2, <1>5 DEF ProxyInv, CtorCalls
  <2> QED BY <1>3, <1>4, <2>1, <2>2, <2>3 DEF ProxyInv
<1>6. CASE ~Running /\ op' \notin {"notify", "orphans"}
  <2>1. DOMAIN stack = {}
    BY <1>6 DEF Running, TypeOK
  <2>2. HolderLive'
    BY <1>6, <2>1 DEF ProxyInv, HolderLive, Constructing
  <2>3. DeletedHoldsNothing' /\ CridSaved' /\ NotifyCalls' /\ OrphanCalls'
    BY <1>6 DEF DeletedHoldsNothing, CridSaved, NotifyCalls, OrphanCalls
  <2>4. DtorCalls' /\ CtorCalls'
    BY <2>1 DEF DtorCalls, CtorCalls
  <2> QED BY <1>3, <1>4, <2>2, <2>3, <2>4 DEF ProxyInv
<1> QED BY <1>5, <1>6

\* The loop calls a live Msger outside of a deletion.
LEMMA ProxyInvLoopCall ==
    ASSUME TypeOK, ProxyInv, UNCHANGED table, UNCHANGED proxies, ~Running,
           NEW f \in Frame, Push(f), f.fn \in UserCalls, Live(f.self),
           op' \notin {"notify", "orphans"}
    PROVE  ProxyInv'
<1>0. stack \in Seq(Frame)
  BY DEF TypeOK
<1>1. Len(stack') = 1 /\ DOMAIN stack = {} /\ \A k \in DOMAIN stack' : k = 1 /\ stack'[k] = f
  <2>1. /\ Len(stack') = Len(stack) + 1
        /\ \A k \in DOMAIN stack' :
            \/ k = 1 /\ stack'[k] = f
            \/ k - 1 \in DOMAIN stack /\ stack'[k] = stack[k - 1]
    BY <1>0, PushCalls
  <2>2. DOMAIN stack = {} /\ Len(stack) = 0
    BY <1>0 DEF Running
  <2> QED BY <2>1, <2>2
<1>2. \A m : Live(m)' = Live(m)
  BY DEF Live, table
<1>3. ProxyOwnsId' /\ LiveInTable'
  BY <1>2 DEF ProxyInv, ProxyOwnsId, LiveInTable, table
<1>4. CallerLive' /\ DtorCalls' /\ CtorCalls' /\ NestedCalls'
  BY <1>1, <1>2 DEF CallerLive, DtorCalls, CtorCalls, NestedCalls, UserCalls
<1>5. HolderLive'
  BY <1>1, <1>2 DEF ProxyInv, HolderLive, Running, Constructing
<1>6. DeletedHoldsNothing' /\ CridSaved' /\ NotifyCalls' /\ OrphanCalls'
  BY DEF DeletedHoldsNothing, CridSaved, NotifyCalls, OrphanCalls
<1> QED BY <1>3, <1>4, <1>5, <1>6 DEF ProxyInv

\* Who runs when application code uses the framework.
LEMMA AppCodeCalls ==
    ASSUME TypeOK, ProxyInv, SendersNestSafely, AppCode
    PROVE  /\ Running /\ Self \in Mrid
           /\ Top = stack[1] /\ 1 \in DOMAIN stack /\ Top.fn # "OnMsgerDestroyed"
           /\ "ctor" \notin Senders => \A k \in DOMAIN stack : stack[k].fn # "ctor"
           /\ "ctor" \in Senders => op # "notify" /\ ~ReplyHasFactory
           /\ op # "orphans"
           /\ op = "notify" => Self = mid
           /\ Live(Self) \/ Constructing(Self) \/ (op = "notify" /\ Self = mid)
<1>1. Running /\ Top.fn \in Senders /\ Top.fn # "OnMsgerDestroyed"
      /\ ("ctor" \in Senders => "dtor" \notin Senders /\ ~ReplyHasFactory)
  BY DEF AppCode, SendersNestSafely
<1>2. stack \in Seq(Frame) /\ stack # <<>>
  BY <1>1 DEF TypeOK, Running
<1>3. Top = stack[1] /\ 1 \in DOMAIN stack
  BY <1>2 DEF Top
<1>4. Top.fn \in UserCalls \cup {"dtor", "ctor"} /\ Self \in Mrid
  <2>1. Top \in Frame
    BY <1>1, <1>2, TopType
  <2> QED BY <1>1, <2>1 DEF Frame, Calls, UserCalls, Self
<1>5. "ctor" \notin Senders => \A k \in DOMAIN stack : stack[k].fn # "ctor"
  BY <1>1, <1>3 DEF ProxyInv, CtorCalls
<1>6. op # "orphans"
  BY <1>1, <1>3 DEF ProxyInv, OrphanCalls
<1>7. Top.fn = "dtor" => op = "notify" /\ Self = mid
  BY <1>3 DEF ProxyInv, DtorCalls, Self
<1>8. Top.fn \in UserCalls => op # "notify" /\ Live(Self)
  BY <1>3 DEF ProxyInv, NotifyCalls, CallerLive, Self
<1>9. Top.fn = "ctor" => op # "notify" /\ Constructing(Self)
  BY <1>1, <1>3 DEF ProxyInv, CtorCalls, Constructing, Self
<1>10. "ctor" \in Senders => op # "notify"
  BY <1>1, <1>4, <1>8, <1>9
<1> QED BY <1>1, <1>3, <1>4, <1>5, <1>6, <1>7, <1>8, <1>9, <1>10

\* An id that is nobody's, or that the running call owns, is not under
\* construction: what is was created by the call below.
LEMMA NotConstructing ==
    ASSUME TypeOK, ProxyInv, SendersNestSafely, AppCode, NEW id \in Mrid,
           id < size => creators[id] \in {id, Self}
    PROVE  ~Constructing(id)
<1>1. /\ Top = stack[1] /\ 1 \in DOMAIN stack /\ Top.fn # "OnMsgerDestroyed"
      /\ "ctor" \notin Senders => \A k \in DOMAIN stack : stack[k].fn # "ctor"
      /\ "ctor" \in Senders => op # "notify"
  BY AppCodeCalls
<1> SUFFICES ASSUME NEW k \in DOMAIN stack, stack[k].fn = "ctor", stack[k].self = id
             PROVE  FALSE
  BY DEF Constructing
<1>2. "ctor" \in Senders /\ id < size /\ op # "notify"
  BY <1>1 DEF ProxyInv, CtorCalls
<1>3. /\ k + 1 \in DOMAIN stack /\ creators[id] = stack[k + 1].self
      /\ \A l \in DOMAIN stack : l > k => stack[l].self # id
  BY <1>2 DEF ProxyInv, NestedCalls
<1>4. k \in Nat /\ k >= 1 /\ Len(stack) \in Nat /\ DOMAIN stack = 1..Len(stack)
  BY DEF TypeOK
<1>5. stack[k + 1].self = Self /\ stack[1].self = Self
  <2>1. stack[k + 1].self # id
    BY <1>3, <1>4
  <2>2. creators[id] = Self
    BY <1>2, <1>3, <2>1
  <2>3. Self = stack[1].self
    BY <1>1 DEF Self
  <2> QED BY <1>3, <2>2, <2>3
<1>6. CASE stack[1].fn = "ctor"
  <2>1. stack[k + 1].self # stack[1].self
    BY <1>2, <1>3, <1>4, <1>6 DEF ProxyInv, NestedCalls
  <2> QED BY <1>5, <2>1
<1>7. CASE stack[1].fn \in UserCalls
  <2>1. 1 = Len(stack)
    BY <1>1, <1>2, <1>7 DEF ProxyInv, NestedCalls
  <2>2. k + 1 \in 1..1
    BY <1>3, <1>4, <2>1
  <2> QED BY <1>4, <2>2
<1>8. CASE stack[1].fn = "dtor"
  BY <1>1, <1>2, <1>8 DEF ProxyInv, DtorCalls
<1>9. stack[1] \in Frame
  BY <1>1 DEF TypeOK
<1> QED BY <1>1, <1>6, <1>7, <1>8, <1>9 DEF Frame, Calls, UserCalls

\* Nor does any call run whose Msger is not there yet.
LEMMA NotCalling ==
    ASSUME TypeOK, ProxyInv, SendersNestSafely, AppCode, NEW id \in Mrid,
           id < size => creators[id] \in {id, Self}, ~Live(id), "ctor" \in Senders
    PROVE  \A k \in DOMAIN stack : stack[k].self # id
<1> SUFFICES ASSUME NEW k \in DOMAIN stack, stack[k].self = id PROVE FALSE
  OBVIOUS
<1>1. ~Constructing(id)
  BY NotConstructing
<1>2. /\ Top = stack[1] /\ Top.fn # "OnMsgerDestroyed" /\ op # "notify"
  BY AppCodeCalls
<1>3. stack[k].fn # "ctor"
  BY <1>1 DEF Constructing
<1>4. stack[k].fn \notin UserCalls
  BY DEF ProxyInv, CallerLive
<1>5. stack[k].fn # "dtor"
  BY <1>2 DEF ProxyInv, DtorCalls
<1>6. stack[k].fn # "OnMsgerDestroyed"
  BY <1>2 DEF ProxyInv, NestedCalls
<1>7. stack[k] \in Frame
  BY DEF TypeOK
<1> QED BY <1>3, <1>4, <1>5, <1>6, <1>7 DEF Frame, Calls, UserCalls

\* What application code may do to the ids, and the calls that follow from it.
LEMMA ProxyInvAppCode ==
    ASSUME TypeOK, ProxyInv, SendersNestSafely, AppCode,
           UNCHANGED <<op, mid, crid>>, \A m \in Mrid : Live(m)' = Live(m),
           ProxyOwnsId', LiveInTable',
           \A m \in Mrid : m # Self /\ proxies'[m] # {} => proxies[m] # {},
           \A m \in Mrid : Constructing(m) => m < size' /\ creators'[m] = creators[m],
           op = "notify" => creators'[mid] = crid /\ (mid < size' \/ crid = mid),
           \/ UNCHANGED stack
           \/ \E f \in Frame :
                /\ Push(f)
                /\ \/ f.fn = "OnMsgerDestroyed"
                   \/ /\ f.fn = "ctor" /\ f.self < size' /\ ~Live(f.self)
                      /\ "ctor" \in Senders =>
                            creators'[f.self] = Self /\ \A k \in DOMAIN stack : stack[k].self # f.self
    PROVE  ProxyInv'
<1>0. stack \in Seq(Frame)
  BY DEF TypeOK
<1>1. /\ Running /\ Self \in Mrid
      /\ Top = stack[1] /\ 1 \in DOMAIN stack /\ Top.fn # "OnMsgerDestroyed"
      /\ "ctor" \notin Senders => \A k \in DOMAIN stack : stack[k].fn # "ctor"
      /\ "ctor" \in Senders => op # "notify"
      /\ op # "orphans"
      /\ op = "notify" => Self = mid
      /\ Live(Self) \/ Constructing(Self) \/ (op = "notify" /\ Self = mid)
  BY AppCodeCalls
<1>2. \A k \in DOMAIN stack : stack[k].self \in Mrid
  BY <1>0, CallsType
<1>3. Running' /\ \A m : Constructing(m) => Constructing(m)'
  <2>1. CASE UNCHANGED stack
    BY <1>1, <2>1 DEF Running, Constructing
  <2>2. ASSUME NEW f \in Frame, Push(f)
        PROVE  Running' /\ \A m : Constructing(m) => Constructing(m)'
    <3>1. stack' # <<>> /\ stack' = <<f>> \o stack
      BY <1>0, <2>2, PushCalls DEF Push
    <3>2. \A k \in DOMAIN stack : k + 1 \in DOMAIN stack' /\ stack'[k + 1] = stack[k]
      BY <1>0, <3>1
    <3> QED BY <3>1, <3>2 DEF Running, Constructing
  <2> QED BY <2>1, <2>2
<1>4. HolderLive' /\ DeletedHoldsNothing' /\ CridSaved' /\ OrphanCalls'
  BY <1>1, <1>3 DEF ProxyInv, HolderLive, DeletedHoldsNothing, CridSaved, OrphanCalls
<1>5. CASE UNCHANGED stack
  <2>1. CallerLive' /\ DtorCalls'
    BY <1>1, <1>2, <1>5 DEF ProxyInv, CallerLive, DtorCalls
  <2>2. NotifyCalls'
    BY <1>1, <1>5 DEF ProxyInv, NotifyCalls
  <2>3. CtorCalls' /\ NestedCalls'
    BY <1>2, <1>5 DEF ProxyInv, CtorCalls, NestedCalls, Constructing
  <2> QED BY <1>4, <2>1, <2>2, <2>3 DEF ProxyInv
<1>6. ASSUME NEW f \in Frame, Push(f),
             \/ f.fn = "OnMsgerDestroyed"
             \/ /\ f.fn = "ctor" /\ f.self < size' /\ ~Live(f.self)
                /\ "ctor" \in Senders =>
                      creators'[f.self] = Self /\ \A k \in DOMAIN stack : stack[k].self # f.self
      PROVE  ProxyInv'
  <2>1. /\ stack' # <<>> /\ Len(stack') = Len(stack) + 1
        /\ \A k \in DOMAIN stack' :
              \/ k = 1 /\ stack'[k] = f
              \/ k - 1 \in DOMAIN stack /\ stack'[k] = stack[k - 1]
        /\ stack # <<>> => stack'[Len(stack')] = stack[Len(stack)]
    BY <1>0, <1>6, PushCalls
  <2>2. CallerLive'
    BY <1>2, <1>6, <2>1 DEF ProxyInv, CallerLive, UserCalls
  <2>3. CtorCalls'
    <3> SUFFICES ASSUME NEW k \in DOMAIN stack', stack'[k].fn = "ctor"
                 PROVE  /\ stack'[k].self < size' /\ ~Live(stack[k].self)'
                        /\ k = 1 \/ "ctor" \in Senders
                        /\ "ctor" \in Senders => op' # "notify"
      BY DEF CtorCalls
    <3>1. CASE k = 1 /\ stack'[k] = f
      <4>1. f.self \in Mrid
        BY DEF Frame
      <4>2. ~Live(f.self)'
        BY <1>6, <3>1, <4>1
      <4>3. ~Live(stack[k].self)'
        BY <3>1, <4>2 DEF Live
      <4> QED BY <1>1, <1>6, <3>1, <4>3
    <3>2. CASE k - 1 \in DOMAIN stack /\ stack'[k] = stack[k - 1]
      <4>1. /\ Constructing(stack[k - 1].self) /\ ~Live(stack[k - 1].self)
            /\ "ctor" \in Senders
        BY <1>1, <3>2 DEF ProxyInv, CtorCalls, Constructing
      <4>2. stack[k - 1].self \in Mrid
        BY <1>2, <3>2
      <4>3. \A m \in Mrid : stack'[k].self = m => Live(stack[k].self)' = Live(m)'
        BY DEF Live
      <4> QED BY <1>1, <3>2, <4>1, <4>2, <4>3
    <3> QED BY <2>1, <3>1, <3>2
  <2>4. NotifyCalls'
    BY <1>1, <1>6, <2>1 DEF ProxyInv, NotifyCalls, Running, UserCalls
  <2>5. DtorCalls'
    <3> SUFFICES ASSUME NEW k \in DOMAIN stack', stack'[k].fn = "dtor"
                 PROVE  op' = "notify" /\ stack'[k].self = mid' /\ k = Len(stack')
      BY DEF DtorCalls
    <3>1. k - 1 \in DOMAIN stack /\ stack'[k] = stack[k - 1]
      BY <1>6, <2>1
    <3>2. op = "notify" /\ stack[k - 1].self = mid /\ k - 1 = Len(stack)
      BY <3>1 DEF ProxyInv, DtorCalls
    <3>3. k \in Nat /\ Len(stack) \in Nat
      BY <1>0, <1>6, PushType
    <3> QED BY <2>1, <3>1, <3>2, <3>3
  <2>6. NestedCalls'
    <3> SUFFICES ASSUME "ctor" \in Senders, NEW k \in DOMAIN stack'
                 PROVE  /\ stack'[k].fn = "OnMsgerDestroyed" => k = 1
                        /\ stack'[k].fn \in UserCalls => k = Len(stack')
                        /\ stack'[k].fn = "ctor" =>
                             /\ k + 1 \in DOMAIN stack'
                             /\ creators'[stack'[k].self] = stack'[k + 1].self
                             /\ \A l \in DOMAIN stack' : l > k => stack'[l].self # stack'[k].self
      BY DEF NestedCalls
    <3>1. /\ Len(stack) \in Nat /\ DOMAIN stack = 1..Len(stack)
          /\ DOMAIN stack' = 1..Len(stack') /\ Len(stack') = Len(stack) + 1 /\ k \in Nat
          /\ \A l \in DOMAIN stack : l + 1 \in DOMAIN stack' /\ stack'[l + 1] = stack[l]
      <4>1. stack' = <<f>> \o stack
        BY <1>6 DEF Push
      <4> QED BY <1>0, <4>1
    <3>2. CASE k = 1 /\ stack'[k] = f
      <4>1. k + 1 \in DOMAIN stack' /\ stack'[k + 1] = Top
        BY <1>1, <3>1, <3>2
      <4>2. \A l \in DOMAIN stack' : l > k => l - 1 \in DOMAIN stack /\ stack'[l] = stack[l - 1]
        BY <2>1, <3>1, <3>2
      <4>3. f.fn \notin UserCalls
        BY <1>6 DEF UserCalls
      <4> QED BY <1>6, <3>2, <4>1, <4>2, <4>3 DEF Self
    <3>3. CASE k - 1 \in DOMAIN stack /\ stack'[k] = stack[k - 1]
      <4> DEFINE j == k - 1
      <4>1. /\ stack[j].fn = "OnMsgerDestroyed" => j = 1
            /\ stack[j].fn \in UserCalls => j = Len(stack)
            /\ stack[j].fn = "ctor" =>
                 /\ j + 1 \in DOMAIN stack /\ creators[stack[j].self] = stack[j + 1].self
                 /\ \A l \in DOMAIN stack : l > j => stack[l].self # stack[j].self
        BY <3>3 DEF ProxyInv, NestedCalls
      <4>2. stack[j].fn # "OnMsgerDestroyed"
        BY <1>1, <3>3, <4>1
      <4>3. stack[j].fn \in UserCalls => k = Len(stack')
        BY <3>1, <4>1
      <4>4. ASSUME stack[j].fn = "ctor"
            PROVE  /\ k + 1 \in DOMAIN stack' /\ creators'[stack'[k].self] = stack'[k + 1].self
                   /\ \A l \in DOMAIN stack' : l > k => stack'[l].self # stack'[k].self
        <5>1. k \in DOMAIN stack /\ k + 1 \in DOMAIN stack' /\ stack'[k + 1] = stack[k]
          BY <3>1, <4>1, <4>4
        <5>2. Constructing(stack[j].self)
          BY <3>3, <4>4 DEF Constructing
        <5>3. creators'[stack[j].self] = creators[stack[j].self]
          BY <1>2, <3>3, <5>2
        <5>4. \A l \in DOMAIN stack' : l > k => l - 1 \in DOMAIN stack /\ l - 1 > j /\ stack'[l] = stack[l - 1]
          BY <2>1, <3>1
        <5> QED BY <3>1, <3>3, <4>1, <4>4, <5>1, <5>3, <5>4
      <4> QED BY <3>3, <4>2, <4>3, <4>4
    <3> QED BY <2>1, <3>2, <3>3
  <2> QED BY <1>4, <2>2, <2>3, <2>4, <2>5, <2>6 DEF ProxyInv
<1> QED BY <1>5, <1>6

\* A call other than a destructor returns.
LEMMA ProxyInvReturn ==
    ASSUME TypeOK, ProxyInv, UNCHANGED <<size, creators, proxies, op, mid, crid>>,
           \A m \in Mrid : Live(m) => Live(m)', LiveInTable',
           \A m \in Mrid : Live(m)' => Live(m) \/ (Top.fn = "ctor" /\ m = Self),
           \A m \in Mrid : Top.fn = "ctor" /\ m = Self => Live(m)',
           Running, stack' = Tail(stack), Top.fn # "dtor"
    PROVE  ProxyInv'
<1>0. stack \in Seq(Frame)
  BY DEF TypeOK
<1>1. /\ Top = stack[1] /\ 1 \in DOMAIN stack
      /\ Len(stack') = Len(stack) - 1
      /\ \A k \in DOMAIN stack' : k + 1 \in DOMAIN stack /\ stack'[k] = stack[k + 1]
      /\ stack' = <<>> => Len(stack) = 1
      /\ stack' # <<>> => stack'[Len(stack')] = stack[Len(stack)]
  BY <1>0, ReturnCalls
<1>2. \A k \in DOMAIN stack : stack[k].self \in Mrid
  BY <1>0, CallsType
<1>3. op = "notify" => stack' # <<>>
  BY <1>1 DEF ProxyInv, NotifyCalls
<1>4. ProxyOwnsId' /\ CridSaved'
  BY DEF ProxyInv, ProxyOwnsId, CridSaved
<1>10. /\ Len(stack) \in Nat /\ DOMAIN stack = 1..Len(stack) /\ DOMAIN stack' = 1..Len(stack')
       /\ \A k \in DOMAIN stack : k # 1 => k - 1 \in DOMAIN stack' /\ stack'[k - 1] = stack[k]
  BY <1>0, <1>1 DEF Running
<1>5. HolderLive' /\ DeletedHoldsNothing'
  <2>1. ASSUME NEW m \in Mrid, Constructing(m) PROVE Constructing(m)' \/ Live(m)'
    <3>1. PICK k \in DOMAIN stack : stack[k].fn = "ctor" /\ stack[k].self = m
      BY <2>1 DEF Constructing
    <3>2. CASE k = 1
      BY <1>1, <3>1, <3>2 DEF Self
    <3>3. CASE k # 1
      BY <1>10, <3>1, <3>3 DEF Constructing
    <3> QED BY <3>2, <3>3
  <2> QED BY <1>3, <2>1 DEF ProxyInv, HolderLive, DeletedHoldsNothing, Running
<1>6. CallerLive'
  BY <1>1, <1>2 DEF ProxyInv, CallerLive
<1>7. DtorCalls'
  <2> SUFFICES ASSUME NEW k \in DOMAIN stack', stack'[k].fn = "dtor"
               PROVE  op' = "notify" /\ stack'[k].self = mid' /\ k = Len(stack')
    BY DEF DtorCalls
  <2>1. op = "notify" /\ stack[k + 1].self = mid /\ k + 1 = Len(stack)
    BY <1>1 DEF ProxyInv, DtorCalls
  <2>2. k \in Nat /\ Len(stack) \in Nat
    BY <1>0, ReturnCalls
  <2> QED BY <1>1, <2>1, <2>2
<1>8. CtorCalls'
  <2> SUFFICES ASSUME NEW k \in DOMAIN stack', stack'[k].fn = "ctor"
               PROVE  /\ stack'[k].self < size' /\ ~Live(stack[k].self)'
                      /\ k = 1 \/ "ctor" \in Senders
                      /\ "ctor" \in Senders => op' # "notify"
    BY DEF CtorCalls
  <2>1. k + 1 \in DOMAIN stack /\ stack'[k] = stack[k + 1] /\ k \in Nat /\ k >= 1
    BY <1>1, <1>10
  <2>2. /\ stack[k + 1].self < size /\ ~Live(stack[k + 1].self)
        /\ "ctor" \in Senders /\ op # "notify"
    BY <2>1 DEF ProxyInv, CtorCalls
  <2>3. Top.fn = "ctor" => stack[k + 1].self # Self
    <3>1. 1 \in DOMAIN stack /\ Top = stack[1] /\ Self = stack[1].self
      BY <1>1, <1>10, <2>1 DEF Self
    <3>2. ASSUME stack[1].fn = "ctor"
          PROVE  \A l \in DOMAIN stack : l > 1 => stack[l].self # stack[1].self
      BY <2>2, <3>1, <3>2 DEF ProxyInv, NestedCalls
    <3>3. k + 1 > 1
      BY <2>1
    <3> QED BY <2>1, <3>1, <3>2, <3>3
  <2>4. ~Live(stack[k].self)'
    <3>1. \A m \in Mrid : stack'[k].self = m => Live(stack[k].self)' = Live(m)'
      BY DEF Live
    <3> QED BY <1>2, <2>1, <2>2, <2>3, <3>1
  <2> QED BY <2>1, <2>2, <2>4
<1>11. NestedCalls'
  <2> SUFFICES ASSUME "ctor" \in Senders, NEW k \in DOMAIN stack'
               PROVE  /\ stack'[k].fn # "OnMsgerDestroyed"
                      /\ stack'[k].fn \in UserCalls => k = Len(stack')
                      /\ stack'[k].fn = "ctor" =>
                           /\ k + 1 \in DOMAIN stack'
                           /\ creators'[stack'[k].self] = stack'[k + 1].self
                           /\ \A l \in DOMAIN stack' : l > k => stack'[l].self # stack'[k].self
    BY DEF NestedCalls
  <2>1. k + 1 \in DOMAIN stack /\ stack'[k] = stack[k + 1] /\ k \in Nat /\ k >= 1
    BY <1>1, <1>10
  <2>2. /\ stack[k + 1].fn = "OnMsgerDestroyed" => k + 1 = 1
        /\ stack[k + 1].fn \in UserCalls => k + 1 = Len(stack)
        /\ stack[k + 1].fn = "ctor" =>
             /\ k + 2 \in DOMAIN stack /\ creators[stack[k + 1].self] = stack[k + 2].self
             /\ \A l \in DOMAIN stack : l > k + 1 => stack[l].self # stack[k + 1].self
    <3>1. (k + 1) + 1 = k + 2
      BY <2>1
    <3> QED BY <2>1, <3>1 DEF ProxyInv, NestedCalls
  <2>3. stack[k + 1].fn = "ctor" => k + 1 \in DOMAIN stack' /\ stack'[k + 1] = stack[k + 2]
    BY <1>10, <2>1, <2>2
  <2>4. \A l \in DOMAIN stack' : l > k => l + 1 \in DOMAIN stack /\ l + 1 > k + 1 /\ stack'[l] = stack[l + 1]
    BY <1>1, <1>10, <2>1
  <2> QED BY <1>1, <1>10, <2>1, <2>2, <2>3, <2>4
<1>9. NotifyCalls' /\ OrphanCalls'
  BY <1>1 DEF ProxyInv, NotifyCalls, OrphanCalls, Running
<1> QED BY <1>4, <1>5, <1>6, <1>7, <1>8, <1>9, <1>11 DEF ProxyInv

\* OnMsgerDestroyed and FreeMrid leave every slot null or not null.
LEMMA OnMsgerDestroyedEffect ==
    ASSUME TypeOK, NEW id \in Mrid, NEW dead \in Mrid, OnMsgerDestroyed(id, dead)
    PROVE  /\ \A m \in Mrid : Live(m)' = Live(m)
           /\ \/ UNCHANGED stack
              \/ \E f \in Frame : Push(f) /\ f.fn = "OnMsgerDestroyed"
<1>1. msgers \in [Mrid -> Msger] /\ msgers[id].src \in Mrid
  BY SlotType DEF TypeOK
<1>2. msgers' = [msgers EXCEPT ![id].unused = @ \/ dead = msgers[id].src]
  BY DEF OnMsgerDestroyed
<1>3. \A m \in Mrid : msgers'[m].kind = msgers[m].kind
  BY <1>1, <1>2 DEF Msger
<1>4. \A m \in Mrid : Live(m)' = Live(m)
  BY <1>3 DEF Live
<1> DEFINE f == Call("OnMsgerDestroyed", id, msgers[id].src)
<1>5. f \in Frame /\ f.fn = "OnMsgerDestroyed"
  BY <1>1, CallType DEF Calls, Call
<1>6. UNCHANGED stack \/ Push(f)
  BY DEF OnMsgerDestroyed
<1> HIDE DEF f
<1> QED BY <1>4, <1>5, <1>6

LEMMA FreeMridEffect ==
    ASSUME TypeOK, NEW id \in Mrid, FreeMrid(id)
    PROVE  /\ \A m \in Mrid : Live(m)' = Live(m)
           /\ \A k \in Mrid : k # id => creators'[k] = creators[k]
           /\ creators'[id] \in {id, creators[id]}
           /\ \/ UNCHANGED size
              \/ size' = id /\ id + 1 = size /\ ~Live(id)
           /\ \/ UNCHANGED stack
              \/ \E f \in Frame : Push(f) /\ f.fn = "OnMsgerDestroyed"
<1>0. creators \in [Mrid -> Mrid]
  BY DEF TypeOK
<1>1. CASE ~Live(id) /\ id + 1 = size /\ size' = id /\ UNCHANGED <<msgers, creators, stack>>
  BY <1>0, <1>1 DEF Live
<1>2. CASE /\ creators' = [creators EXCEPT ![id] = id] /\ UNCHANGED size
           /\ IF Live(id) THEN OnMsgerDestroyed(id, creators[id])
                          ELSE UNCHANGED <<msgers, stack>>
  <2>1. CASE OnMsgerDestroyed(id, creators[id])
    <3>1. creators[id] \in Mrid
      BY <1>0
    <3>2. /\ \A m \in Mrid : Live(m)' = Live(m)
          /\ \/ UNCHANGED stack
             \/ \E f \in Frame : Push(f) /\ f.fn = "OnMsgerDestroyed"
      BY <2>1, <3>1, OnMsgerDestroyedEffect
    <3> QED BY <1>0, <1>2, <3>2
  <2>2. CASE UNCHANGED <<msgers, stack>>
    BY <1>0, <1>2, <2>2 DEF Live
  <2> QED BY <1>2, <2>1, <2>2
<1>3. CASE UNCHANGED <<table, stack>>
  BY <1>0, <1>3 DEF table, Live
<1> QED BY <1>1, <1>2, <1>3 DEF FreeMrid

\* An id that no proxy holds any more can be released.
LEMMA FreeMridUnheld ==
    ASSUME TypeOK, ProxyInv, NEW id \in Mrid, FreeMrid(id),
           \A m \in Mrid : proxies'[m] \subseteq proxies[m] /\ id \notin proxies'[m]
    PROVE  ProxyOwnsId' /\ LiveInTable'
<1>1. /\ \A m \in Mrid : Live(m)' = Live(m)
      /\ \A k \in Mrid : k # id => creators'[k] = creators[k]
      /\ \/ UNCHANGED size
         \/ size' = id /\ id + 1 = size /\ ~Live(id)
  BY FreeMridEffect
<1>2. \A k \in Mrid : k # id /\ k < size => k < size'
  <2>1. CASE UNCHANGED size
    BY <2>1
  <2>2. CASE size' = id /\ id + 1 = size
    BY <2>2, LastMridAssumption DEF Mrid
  <2> QED BY <1>1, <2>1, <2>2
<1>3. LiveInTable'
  BY <1>1, <1>2 DEF ProxyInv, LiveInTable
<1>4. ProxyOwnsId'
  <2> SUFFICES ASSUME NEW m \in Mrid, NEW k \in proxies'[m]
               PROVE  k < size' /\ creators'[k] = m
    BY DEF ProxyOwnsId
  <2>1. k \in proxies[m] /\ k # id /\ k \in Mrid
    BY DEF TypeOK
  <2>2. k < size /\ creators[k] = m
    BY <2>1 DEF ProxyInv, ProxyOwnsId
  <2> QED BY <1>1, <1>2, <2>1, <2>2
<1> QED BY <1>3, <1>4

LEMMA ProxyInvInit == Init => ProxyInv
<1> SUFFICES ASSUME Init PROVE ProxyInv
  OBVIOUS
<1>1. /\ size = 1 /\ op = "none" /\ \A m \in Mrid : proxies[m] = {}
      /\ \A m \in Mrid : Live(m) <=> m = 0
      /\ 0 \in Mrid
  BY LastMridAssumption DEF Init, Live, NoMsger, mrid_App, Mrid
<1>2. \A k \in DOMAIN stack : stack[k].fn = "ProcessArgs" /\ stack[k].self = 0
  BY DEF Init, Call, mrid_App
<1>3. ProxyOwnsId /\ HolderLive /\ LiveInTable
  BY <1>1 DEF ProxyOwnsId, HolderLive, LiveInTable, Mrid
<1>4. CallerLive /\ DtorCalls /\ CtorCalls
  BY <1>1, <1>2 DEF CallerLive, DtorCalls, CtorCalls
<1>6. NestedCalls
  <2>1. Len(stack) = 1 /\ DOMAIN stack = 1..1
    BY DEF Init
  <2> QED BY <1>2, <2>1 DEF NestedCalls
<1>5. NotifyCalls /\ OrphanCalls /\ DeletedHoldsNothing /\ CridSaved
  BY <1>1 DEF NotifyCalls, OrphanCalls, DeletedHoldsNothing, CridSaved
<1> QED BY <1>3, <1>4, <1>5, <1>6 DEF ProxyInv

\* A new id is held by nobody, except by a Msger that is being destroyed, held
\* its own id and is allocated it again.
LEMMA ProxyInvSendNew ==
    ASSUME TypeInv, ProxyInv, SendersNestSafely, SendNew
    PROVE  ProxyInv'
<1>0. TypeOK /\ AppCode /\ UNCHANGED <<op, mid, crid>>
  BY DEF TypeInv, SendNew, control, deletion
<1>1. /\ Running /\ Self \in Mrid
      /\ op = "notify" => Self = mid
  BY <1>0, AppCodeCalls
<1>2. PICK id \in 0..size :
        /\ NextMrid(id)
        /\ IF Exhausted(id)
           THEN UNCHANGED <<table, proxies, stack>>
           ELSE /\ size' = IF id = size THEN size + 1 ELSE size
                /\ creators' = [creators EXCEPT ![id] = Self]
                /\ proxies' = [proxies EXCEPT ![Self] = @ \cup {id}]
                /\ CreateMsger(id, Request(id))
                /\ UNCHANGED msgers
  BY DEF SendNew
<1>3. CASE Exhausted(id)
  <2>1. UNCHANGED <<size, creators, proxies, stack>> /\ \A m \in Mrid : Live(m)' = Live(m)
    BY <1>2, <1>3 DEF table, Live
  <2> QED BY <1>0, <2>1, ProxyInvQuiet
<1>4. CASE ~Exhausted(id)
  <2>1. size \in Nat /\ size <= LastMrid + 1 /\ creators \in [Mrid -> Mrid]
        /\ proxies \in [Mrid -> SUBSET Mrid] /\ mid \in Mrid
    BY <1>0, LastMridAssumption DEF TypeOK
  <2>2. id \in Mrid /\ id <= size /\ size' \in Nat /\ size <= size' /\ id < size'
    BY <1>2, <1>4, <2>1, LastMridAssumption DEF Exhausted, Mrid
  <2>3. id = size \/ (id < size /\ creators[id] = id /\ ~Live(id))
    BY <1>2 DEF NextMrid, Vacant
  <2>4. \A m \in Mrid : Live(m)' = Live(m)
    BY <1>2, <1>4 DEF Live
  <2>5. /\ \A k \in Mrid : creators'[k] = IF k = id THEN Self ELSE creators[k]
        /\ \A m \in Mrid : proxies'[m] = IF m = Self THEN proxies[m] \cup {id} ELSE proxies[m]
    BY <1>1, <1>2, <1>4, <2>1, <2>2
  <2>11. ~Live(id) /\ ~Constructing(id)
    <3>1. ~Live(id)
      BY <2>1, <2>3 DEF ProxyInv, LiveInTable, Live
    <3> QED BY <1>0, <2>2, <2>3, <3>1, NotConstructing
  <2>6. ProxyOwnsId'
    <3> SUFFICES ASSUME NEW m \in Mrid, NEW k \in proxies'[m]
                 PROVE  k < size' /\ creators'[k] = m
      BY DEF ProxyOwnsId
    <3>1. CASE m = Self /\ k = id
      BY <1>1, <2>2, <2>5, <3>1
    <3>2. CASE ~(m = Self /\ k = id)
      <4>1. k \in proxies[m] /\ k \in Mrid
        BY <1>1, <2>1, <2>5, <3>2, ZenonT(30)
      <4>2. k < size /\ creators[k] = m /\ k < size'
        BY <2>1, <2>2, <4>1 DEF ProxyInv, ProxyOwnsId, Mrid
      <4>3. ASSUME k = id PROVE FALSE
        <5>1. m = id /\ ~Live(m)
          BY <2>3, <4>2, <4>3, <2>1
        <5>2. op = "notify" /\ mid = m
          BY <4>1, <5>1, <2>11 DEF ProxyInv, HolderLive
        <5> QED BY <1>1, <3>2, <4>3, <5>2
      <4> QED BY <2>5, <4>1, <4>2, <4>3
    <3> QED BY <3>1, <3>2
  <2>7. LiveInTable'
    BY <2>1, <2>2, <2>4 DEF ProxyInv, LiveInTable, Mrid
  <2>8. \A m \in Mrid : m # Self /\ proxies'[m] # {} => proxies[m] # {}
    BY <2>5
  <2>9. ASSUME op = "notify"
        PROVE  creators'[mid] = crid /\ (mid < size' \/ crid = mid)
    <3>1. (mid < size \/ crid = mid) /\ creators[mid] = crid /\ Self = mid
      BY <1>1, <2>9 DEF ProxyInv, NotifyCalls, CridSaved
    <3>2. mid < size' \/ crid = mid
      BY <2>1, <2>2, <3>1 DEF Mrid
    <3>3. id = mid => crid = mid
      BY <2>1, <2>3, <3>1 DEF Mrid
    <3> QED BY <2>1, <2>5, <3>1, <3>2, <3>3
  <2>10. \E f \in Frame :
            /\ Push(f) /\ f.fn = "ctor" /\ f.self < size' /\ ~Live(f.self)
            /\ "ctor" \in Senders =>
                  creators'[f.self] = Self /\ \A k \in DOMAIN stack : stack[k].self # f.self
    <3> DEFINE f == [Call("ctor", id, Self) EXCEPT !.req = TRUE]
    <3>1. f \in Frame /\ f.fn = "ctor" /\ f.self = id
      BY <1>1, <2>2 DEF Call, Frame, Calls
    <3>2. Push(f)
      BY <1>2, <1>4 DEF CreateMsger, Request
    <3> HIDE DEF f
    <3>3. "ctor" \in Senders => \A k \in DOMAIN stack : stack[k].self # id
      BY <1>0, <2>2, <2>3, <2>11, NotCalling
    <3> QED BY <2>2, <2>5, <2>11, <3>1, <3>2, <3>3
  <2>12. \A m \in Mrid : Constructing(m) => m < size' /\ creators'[m] = creators[m]
    <3>1. \A m \in Mrid : Constructing(m) => m < size
      BY DEF ProxyInv, CtorCalls, Constructing
    <3> QED BY <2>1, <2>2, <2>5, <2>11, <3>1, LastMridAssumption, SMTT(30) DEF Mrid
  <2> QED BY <1>0, <2>4, <2>6, <2>7, <2>8, <2>9, <2>10, <2>12, ProxyInvAppCode
<1> QED BY <1>3, <1>4

\* Messages to an id in the table construct the Msger there, or are queued.
LEMMA ProxyInvSend ==
    ASSUME TypeInv, ProxyInv, SendersNestSafely, AppCode, UNCHANGED <<table, proxies, control>>,
           NEW id \in Mrid, NEW msg \in Message,
           \/ UNCHANGED stack
           \/ /\ id < size /\ ~Live(id) /\ CreateMsger(id, msg)
              /\ "ctor" \in Senders => creators[id] = Self
    PROVE  ProxyInv'
<1>0. TypeOK /\ UNCHANGED <<op, mid, crid, size, creators, msgers>>
  BY DEF TypeInv, table, control, deletion
<1>1. Running /\ Self \in Mrid
  BY <1>0, AppCodeCalls
<1>2. \A m \in Mrid : Live(m)' = Live(m)
  BY <1>0 DEF Live
<1>3. ProxyOwnsId' /\ LiveInTable'
  BY <1>0, <1>2 DEF ProxyInv, ProxyOwnsId, LiveInTable
<1>4. op = "notify" => creators'[mid] = crid /\ (mid < size' \/ crid = mid)
  BY <1>0, <1>1 DEF ProxyInv, NotifyCalls, CridSaved
<1>5. \/ UNCHANGED stack
      \/ \E f \in Frame :
            /\ Push(f) /\ f.fn = "ctor" /\ f.self < size' /\ ~Live(f.self)
            /\ "ctor" \in Senders =>
                  creators'[f.self] = Self /\ \A k \in DOMAIN stack : stack[k].self # f.self
  <2> SUFFICES ASSUME ~UNCHANGED stack
               PROVE  \E f \in Frame :
                        /\ Push(f) /\ f.fn = "ctor" /\ f.self < size' /\ ~Live(f.self)
                        /\ "ctor" \in Senders =>
                              creators'[f.self] = Self /\ \A k \in DOMAIN stack : stack[k].self # f.self
    OBVIOUS
  <2> DEFINE f == [Call("ctor", id, Self) EXCEPT !.req = msg.req]
  <2>1. f \in Frame /\ f.fn = "ctor" /\ f.self = id
    BY <1>1 DEF Call, Frame, Calls, Message
  <2>2. Push(f)
    BY DEF CreateMsger
  <2> HIDE DEF f
  <2>3. "ctor" \in Senders => \A k \in DOMAIN stack : stack[k].self # id
    BY <1>0, NotCalling
  <2> QED BY <1>0, <2>1, <2>2, <2>3
<1>6. \A m \in Mrid : Constructing(m) => m < size' /\ creators'[m] = creators[m]
  BY <1>0 DEF ProxyInv, CtorCalls, Constructing
<1> QED BY <1>0, <1>2, <1>3, <1>4, <1>5, <1>6, ProxyInvAppCode

LEMMA ProxyInvFreeId ==
    ASSUME TypeInv, ProxyInv, SendersNestSafely, NEW id \in Mrid, FreeId(id)
    PROVE  ProxyInv'
<1>0. /\ TypeOK /\ AppCode /\ UNCHANGED <<op, mid, crid>>
      /\ id \in proxies[Self] /\ proxies' = [proxies EXCEPT ![Self] = @ \ {id}]
  BY DEF TypeInv, FreeId, control, deletion
<1>1. /\ Running /\ Self \in Mrid
      /\ op = "notify" => Self = mid
  BY <1>0, AppCodeCalls
<1>2. id < size /\ creators[id] = Self
  BY <1>0, <1>1 DEF ProxyInv, ProxyOwnsId
<1>3. size \in Nat /\ mid \in Mrid /\ id \in Nat /\ mid \in Nat
  BY <1>0, LastMridAssumption DEF TypeOK, Mrid
<1>4. FreeMrid(id)
  BY <1>2, <1>3 DEF FreeId, ValidMsgerId
<1>5. \A m \in Mrid : proxies'[m] = IF m = Self THEN proxies[m] \ {id} ELSE proxies[m]
  BY <1>0, <1>1 DEF TypeOK
<1>6. \A m \in Mrid : proxies'[m] \subseteq proxies[m] /\ id \notin proxies'[m]
  <2> SUFFICES ASSUME NEW m \in Mrid, m # Self, id \in proxies[m] PROVE FALSE
    BY <1>5
  <2> QED BY <1>2 DEF ProxyInv, ProxyOwnsId
<1>7. ProxyOwnsId' /\ LiveInTable'
  BY <1>0, <1>4, <1>6, FreeMridUnheld
<1>8. /\ \A m \in Mrid : Live(m)' = Live(m)
      /\ \A k \in Mrid : k # id => creators'[k] = creators[k]
      /\ creators'[id] \in {id, creators[id]}
      /\ size' = size \/ (size' = id /\ id + 1 = size)
      /\ \/ UNCHANGED stack
         \/ \E f \in Frame : Push(f) /\ f.fn = "OnMsgerDestroyed"
  BY <1>0, <1>4, FreeMridEffect
<1>9. ASSUME op = "notify"
      PROVE  creators'[mid] = crid /\ (mid < size' \/ crid = mid)
  <2>1. (mid < size \/ crid = mid) /\ creators[mid] = crid /\ Self = mid
    BY <1>1, <1>9 DEF ProxyInv, NotifyCalls, CridSaved
  <2>2. CASE id = mid
    BY <1>2, <1>8, <2>1, <2>2
  <2>3. CASE id # mid
    <3>1. mid < size => mid < size'
      BY <1>3, <1>8, <2>3
    <3> QED BY <1>3, <1>8, <2>1, <2>3, <3>1
  <2> QED BY <2>2, <2>3
<1>10. \A m \in Mrid : m # Self /\ proxies'[m] # {} => proxies[m] # {}
  BY <1>5
<1>11. \A m \in Mrid : Constructing(m) => m < size' /\ creators'[m] = creators[m]
  <2>1. ~Constructing(id)
    BY <1>0, <1>2, NotConstructing
  <2>2. \A m \in Mrid : Constructing(m) => m < size
    BY DEF ProxyInv, CtorCalls, Constructing
  <2> QED BY <1>3, <1>8, <2>1, <2>2, LastMridAssumption DEF Mrid
<1> QED BY <1>0, <1>7, <1>8, <1>9, <1>10, <1>11, ProxyInvAppCode

\* A destructor is called by DeleteMsger, alone: when it returns nothing runs.
LEMMA ProxyInvReturnDtor ==
    ASSUME TypeInv, ProxyInv, ReturnDtor
    PROVE  ProxyInv'
<1>0. TypeOK /\ stack \in Seq(Frame) /\ Running /\ Top.fn = "dtor"
      /\ UNCHANGED <<size, msgers, creators, op, mid, crid>>
      /\ stack' = Tail(stack) /\ proxies' = [proxies EXCEPT ![Self] = {}]
  BY DEF TypeInv, TypeOK, ReturnDtor, table, control, deletion
<1>1. Top = stack[1] /\ 1 \in DOMAIN stack
  BY <1>0, ReturnCalls
<1>2. op = "notify" /\ Self = mid /\ 1 = Len(stack)
  BY <1>0, <1>1 DEF ProxyInv, DtorCalls, Self
<1>3. stack' = <<>> /\ DOMAIN stack' = {}
  BY <1>0, <1>2
<1>4. /\ mid \in Mrid
      /\ \A m \in Mrid : proxies'[m] = IF m = mid THEN {} ELSE proxies[m]
  BY <1>0, <1>2 DEF TypeOK
<1>5. \A m \in Mrid : Live(m)' = Live(m)
  BY <1>0 DEF Live
<1>6. ProxyOwnsId' /\ LiveInTable' /\ HolderLive'
  <2>1. ProxyOwnsId'
    BY <1>0, <1>4 DEF ProxyInv, ProxyOwnsId
  <2>2. LiveInTable'
    BY <1>0, <1>5 DEF ProxyInv, LiveInTable
  <2>3. HolderLive'
    <3>1. \A m \in Mrid : ~Constructing(m)
      <4>1. DOMAIN stack = {1}
        BY <1>0, <1>2
      <4> QED BY <1>0, <1>1, <4>1 DEF Constructing
    <3> QED BY <1>4, <1>5, <3>1 DEF ProxyInv, HolderLive
  <2> QED BY <2>1, <2>2, <2>3
<1>7. CallerLive' /\ DtorCalls' /\ CtorCalls' /\ NestedCalls' /\ OrphanCalls'
  BY <1>3 DEF CallerLive, DtorCalls, CtorCalls, NestedCalls, OrphanCalls
<1>8. NotifyCalls' /\ DeletedHoldsNothing' /\ CridSaved'
  BY <1>0, <1>3, <1>4
  DEF ProxyInv, NotifyCalls, DeletedHoldsNothing, CridSaved, Running
<1> QED BY <1>6, <1>7, <1>8 DEF ProxyInv

LEMMA ProxyInvReturnCtor ==
    ASSUME TypeInv, ProxyInv, ReturnCtor
    PROVE  ProxyInv'
<1>0. TypeOK /\ stack \in Seq(Frame) /\ Running /\ Top.fn = "ctor"
      /\ UNCHANGED <<size, creators, proxies, op, mid, crid>>
      /\ stack' = Tail(stack) /\ msgers' = [msgers EXCEPT ![Self] = NewMsger(Top.src)]
  BY DEF TypeInv, TypeOK, ReturnCtor, control, deletion
<1>1. Top = stack[1] /\ 1 \in DOMAIN stack /\ Self \in Mrid
  BY <1>0, ReturnCalls, TopType
<1>2. Self < size
  BY <1>0, <1>1 DEF ProxyInv, CtorCalls, Self
<1>3. \A m \in Mrid : msgers'[m] = IF m = Self THEN NewMsger(Top.src) ELSE msgers[m]
  BY <1>0, <1>1 DEF TypeOK
<1>4. \A m \in Mrid : Live(m)' <=> (m = Self \/ Live(m))
  BY <1>3 DEF Live, NewMsger
<1>5. LiveInTable'
  BY <1>0, <1>2, <1>4 DEF ProxyInv, LiveInTable
<1>6. /\ Top.fn # "dtor" /\ \A m \in Mrid : Live(m) => Live(m)'
      /\ \A m \in Mrid : Live(m)' => Live(m) \/ (Top.fn = "ctor" /\ m = Self)
  BY <1>0, <1>4
<1>7. \A m \in Mrid : Top.fn = "ctor" /\ m = Self => Live(m)'
  BY <1>4
<1> QED BY <1>0, <1>5, <1>6, <1>7, ProxyInvReturn

LEMMA ProxyInvApplication ==
    ASSUME TypeInv, ProxyInv, SendersNestSafely, Application
    PROVE  ProxyInv'
<1>0. TypeOK
  BY DEF TypeInv
<1>1. ASSUME UNCHANGED <<table, proxies, control, stack>> PROVE ProxyInv'
  <2>1. UNCHANGED <<size, creators, proxies, stack, op, mid, crid>>
        /\ \A m \in Mrid : Live(m)' = Live(m)
    BY <1>1 DEF table, control, deletion, Live
  <2> QED BY <1>0, <2>1, ProxyInvQuiet
<1>2. CASE SendNew
  BY <1>2, ProxyInvSendNew
<1>3. ASSUME NEW id \in Mrid, SendTo(id) PROVE ProxyInv'
  <2>1. Request(id) \in Message
    BY DEF Request, Message
  <2>2. /\ AppCode /\ UNCHANGED <<table, proxies, control>> /\ id \in proxies[Self]
        /\ (id < size /\ ~Live(id) /\ CreateMsger(id, Request(id))) \/ UNCHANGED stack
    BY <1>3 DEF SendTo
  <2>3. creators[id] = Self
    BY <1>0, <2>2, AppCodeCalls DEF ProxyInv, ProxyOwnsId
  <2> QED BY <2>1, <2>2, <2>3, ProxyInvSend
<1>4. CASE Reply
  <2> DEFINE msg == [dest |-> Top.src, req |-> FALSE]
  <2>1. AppCode /\ UNCHANGED <<table, proxies, control>>
    BY <1>4 DEF Reply
  <2>2. Top.src \in Mrid
    <3>1. Running /\ stack \in Seq(Frame)
      BY <1>0, <2>1 DEF AppCode, TypeOK
    <3> QED BY <3>1, TopType
  <2>3. msg \in Message
    BY <2>2 DEF Message
  <2>4. \/ UNCHANGED stack
        \/ Top.src < size /\ ~Live(Top.src) /\ CreateMsger(Top.src, msg) /\ ReplyHasFactory
    BY <1>4 DEF Reply
  <2>5. ReplyHasFactory => "ctor" \notin Senders
    BY DEF SendersNestSafely
  <2> HIDE DEF msg
  <2> QED BY <2>1, <2>2, <2>3, <2>4, <2>5, ProxyInvSend
<1>5. ASSUME NEW id \in Mrid, FreeId(id) PROVE ProxyInv'
  BY <1>5, ProxyInvFreeId
<1>6. CASE Broadcast \/ Error \/ Quit
  BY <1>1, <1>6 DEF Broadcast, Error, Quit
<1>7. CASE SetUnused
  <2>1. UNCHANGED <<size, creators, proxies, stack, op, mid, crid>>
    BY <1>7 DEF SetUnused, control, deletion
  <2>2. msgers \in [Mrid -> Msger] /\ msgers' = [msgers EXCEPT ![Self].unused = TRUE]
    BY <1>0, <1>7 DEF SetUnused, TypeOK
  <2>3. \A m \in Mrid : msgers'[m].kind = msgers[m].kind
    BY <2>2 DEF Msger
  <2>4. \A m \in Mrid : Live(m)' = Live(m)
    BY <2>3 DEF Live
  <2> QED BY <1>0, <2>1, <2>4, ProxyInvQuiet
<1>8. CASE ReturnCtor
  BY <1>8, ProxyInvReturnCtor
<1>9. CASE ReturnDtor
  BY <1>9, ProxyInvReturnDtor
<1>10. CASE Return
  <2>1. /\ UNCHANGED <<size, creators, proxies, op, mid, crid>>
        /\ Running /\ stack' = Tail(stack) /\ Top.fn # "dtor"
        /\ Top.fn # "ctor" /\ \A m \in Mrid : Live(m)' = Live(m)
    BY <1>10 DEF Return, table, control, deletion, Live
  <2>2. LiveInTable'
    BY <2>1 DEF ProxyInv, LiveInTable
  <2>3. \A m \in Mrid : Live(m) => Live(m)'
    BY <2>1
  <2> QED BY <1>0, <2>1, <2>2, <2>3, ProxyInvReturn
<1> QED
  BY <1>2, <1>3, <1>4, <1>5, <1>6, <1>7, <1>8, <1>9, <1>10 DEF Application

-----------------------------------------------------------------------------
(* Deletion keeps ProxyInv *)

\* The destructor is about to run, if the slot held a Msger of the application.
LEMMA ProxyInvBeginDelete ==
    ASSUME TypeInv, ProxyInv, ~Running, op = "none", UNCHANGED <<size, creators>>,
           NEW id \in Mrid, BeginDelete(id)
    PROVE  ProxyInv'
<1>0. /\ TypeOK /\ stack \in Seq(Frame) /\ DOMAIN stack = {} /\ stack = <<>>
      /\ msgers \in [Mrid -> Msger] /\ proxies \in [Mrid -> SUBSET Mrid]
  BY DEF TypeInv, TypeOK, Running
<1>1. mid' = id /\ crid' = creators[id] /\ op' = "notify"
  BY DEF BeginDelete
<1>2. \A m \in Mrid : Live(m)' <=> (Live(m) /\ m # id)
  <2>1. msgers' = [msgers EXCEPT ![id] = NoMsger]
    BY DEF BeginDelete
  <2> QED BY <1>0, <2>1 DEF Live, NoMsger
<1>3. \A m \in Mrid : /\ proxies'[m] \subseteq proxies[m]
                      /\ msgers[id].kind = "App" /\ m = id => proxies'[m] = {}
  BY <1>0 DEF BeginDelete
<1>4. ProxyOwnsId' /\ LiveInTable'
  <2>1. ProxyOwnsId'
    BY <1>3 DEF ProxyInv, ProxyOwnsId
  <2>2. LiveInTable'
    BY <1>2 DEF ProxyInv, LiveInTable
  <2> QED BY <2>1, <2>2
<1>5. CASE msgers[id].kind = "Msger"
  <2>1. Live(id) /\ id < size
    BY <1>5 DEF Live, ProxyInv, LiveInTable
  <2> DEFINE f == Call("dtor", id, msgers[id].src)
  <2>2. f \in Frame /\ f.fn = "dtor" /\ f.self = id
    <3>1. msgers[id].src \in Mrid
      BY <1>0, SlotType
    <3>2. f \in Frame
      BY <3>1, CallType DEF Calls
    <3> QED BY <3>2 DEF Call
  <2>3. Push(f)
    BY <1>5 DEF BeginDelete
  <2> HIDE DEF f
  <2>4. /\ stack' # <<>> /\ Len(stack') = 1 /\ stack'[Len(stack')] = f
        /\ \A k \in DOMAIN stack' : k = 1 /\ stack'[k] = f
    BY <1>0, <2>2, <2>3, PushCalls
  <2>5. CallerLive' /\ CtorCalls' /\ NestedCalls' /\ OrphanCalls'
    BY <1>1, <2>2, <2>4 DEF CallerLive, CtorCalls, NestedCalls, OrphanCalls, UserCalls
  <2>6. DtorCalls' /\ NotifyCalls'
    BY <1>1, <2>1, <2>2, <2>4 DEF DtorCalls, NotifyCalls, UserCalls
  <2>7. HolderLive'
    <3> SUFFICES ASSUME NEW m \in Mrid, proxies'[m] # {}
                 PROVE  Live(m)' \/ (op' = "notify" /\ mid' = m /\ Running')
      BY DEF HolderLive
    <3>1. Live(m)
      BY <1>0, <1>3 DEF ProxyInv, HolderLive, Constructing
    <3> QED BY <1>1, <1>2, <2>4, <3>1 DEF Running
  <2>8. DeletedHoldsNothing' /\ CridSaved'
    BY <1>1, <2>4 DEF DeletedHoldsNothing, CridSaved, Running
  <2> QED BY <1>4, <2>5, <2>6, <2>7, <2>8 DEF ProxyInv
<1>6. CASE msgers[id].kind # "Msger"
  <2>1. UNCHANGED stack
    BY <1>6 DEF BeginDelete
  <2>2. proxies'[id] = {}
    <3>1. CASE msgers[id].kind = "App"
      BY <1>3, <3>1
    <3>2. CASE msgers[id].kind # "App"
      <4>1. ~Live(id)
        BY <1>0, <1>6, <3>2 DEF Live, Msger
      <4>2. proxies[id] = {}
        BY <1>0, <4>1 DEF ProxyInv, HolderLive, Constructing
      <4> QED BY <1>3, <4>2
    <3> QED BY <3>1, <3>2
  <2>3. CallerLive' /\ CtorCalls' /\ NestedCalls' /\ OrphanCalls' /\ DtorCalls'
    BY <1>0, <2>1 DEF CallerLive, CtorCalls, NestedCalls, OrphanCalls, DtorCalls
  <2>4. NotifyCalls' /\ DeletedHoldsNothing' /\ CridSaved'
    BY <1>0, <1>1, <2>1, <2>2
    DEF NotifyCalls, DeletedHoldsNothing, CridSaved, Running
  <2>5. HolderLive'
    <3> SUFFICES ASSUME NEW m \in Mrid, proxies'[m] # {} PROVE Live(m)'
      BY DEF HolderLive
    <3>1. m # id /\ Live(m)
      BY <1>0, <1>3, <2>2 DEF ProxyInv, HolderLive, Constructing
    <3> QED BY <1>2, <3>1
  <2> QED BY <1>4, <2>3, <2>4, <2>5 DEF ProxyInv
<1> QED BY <1>5, <1>6

\* The notifications, and the release of ids whose holder is gone.
LEMMA ProxyInvNotify ==
    ASSUME TypeInv, ProxyInv, ~Running, op \in {"notify", "orphans"}, op' = "orphans",
           UNCHANGED <<proxies, mid>>, \A m \in Mrid : Live(m)' = Live(m),
           ProxyOwnsId', LiveInTable',
           \/ UNCHANGED stack
           \/ \E f \in Frame : Push(f) /\ f.fn = "OnMsgerDestroyed"
    PROVE  ProxyInv'
<1>0. stack \in Seq(Frame) /\ stack = <<>> /\ DOMAIN stack = {}
  BY DEF TypeInv, TypeOK, Running
<1>1. \A k \in DOMAIN stack' : k = 1 /\ stack'[k].fn = "OnMsgerDestroyed"
  <2>1. CASE UNCHANGED stack
    BY <1>0, <2>1
  <2>2. ASSUME NEW f \in Frame, Push(f), f.fn = "OnMsgerDestroyed"
        PROVE  \A k \in DOMAIN stack' : k = 1 /\ stack'[k].fn = "OnMsgerDestroyed"
    BY <1>0, <2>2, PushCalls
  <2> QED BY <2>1, <2>2
<1>2. CallerLive' /\ DtorCalls' /\ CtorCalls' /\ NestedCalls' /\ OrphanCalls'
  BY <1>1 DEF CallerLive, DtorCalls, CtorCalls, NestedCalls, OrphanCalls, UserCalls
<1>3. HolderLive'
  BY <1>0 DEF ProxyInv, HolderLive, Constructing
<1>4. NotifyCalls' /\ CridSaved' /\ DeletedHoldsNothing'
  BY DEF ProxyInv, NotifyCalls, CridSaved, DeletedHoldsNothing
<1> QED BY <1>2, <1>3, <1>4 DEF ProxyInv

LEMMA ProxyInvNotifyCreator ==
    ASSUME TypeInv, ProxyInv, NotifyCreator
    PROVE  ProxyInv'
<1>0. /\ TypeOK /\ ~Running /\ op = "notify" /\ op' = "orphans"
      /\ UNCHANGED <<proxies, mid>> /\ mid \in Mrid /\ crid \in Mrid
  BY DEF TypeInv, TypeOK, NotifyCreator, deletion
<1>1. /\ ProxyOwnsId' /\ LiveInTable' /\ \A m \in Mrid : Live(m)' = Live(m)
      /\ \/ UNCHANGED stack
         \/ \E f \in Frame : Push(f) /\ f.fn = "OnMsgerDestroyed"
  <2>1. CASE UNCHANGED <<table, stack>>
    <3>1. \A m \in Mrid : Live(m)' = Live(m)
      BY <2>1 DEF table, Live
    <3> QED BY <1>0, <2>1, <3>1 DEF ProxyInv, ProxyOwnsId, LiveInTable, table
  <2>2. CASE OnMsgerDestroyed(crid, mid) /\ UNCHANGED <<size, creators>>
    <3>1. /\ \A m \in Mrid : Live(m)' = Live(m)
          /\ \/ UNCHANGED stack
             \/ \E f \in Frame : Push(f) /\ f.fn = "OnMsgerDestroyed"
      BY <1>0, <2>2, OnMsgerDestroyedEffect
    <3> QED BY <1>0, <2>2, <3>1 DEF ProxyInv, ProxyOwnsId, LiveInTable
  <2>3. CASE ~Live(crid) /\ FreeMrid(mid)
    <3>1. \A m \in Mrid : proxies'[m] \subseteq proxies[m] /\ mid \notin proxies'[m]
      <4> SUFFICES ASSUME NEW m \in Mrid, mid \in proxies[m] PROVE FALSE
        BY <1>0
      <4>1. m = crid
        BY <1>0 DEF ProxyInv, ProxyOwnsId, CridSaved
      <4>2. ~Constructing(crid)
        BY <1>0 DEF Constructing, Running
      <4> QED BY <1>0, <2>3, <4>1, <4>2 DEF ProxyInv, HolderLive
    <3>2. ProxyOwnsId' /\ LiveInTable'
      BY <1>0, <2>3, <3>1, FreeMridUnheld
    <3> QED BY <1>0, <2>3, <3>2, FreeMridEffect
  <2> QED BY <2>1, <2>2, <2>3 DEF NotifyCreator
<1> QED BY <1>0, <1>1, ProxyInvNotify

LEMMA ProxyInvNotifyOrphan ==
    ASSUME TypeInv, ProxyInv, NotifyOrphan
    PROVE  ProxyInv'
<1>0. /\ TypeOK /\ ~Running /\ op = "orphans" /\ op' = "orphans"
      /\ UNCHANGED <<proxies, mid>> /\ mid \in Mrid
      /\ size \in Nat /\ size <= LastMrid + 1 /\ ci \in Nat /\ LastMrid \in Nat
  BY LastMridAssumption DEF TypeInv, TypeOK, NotifyOrphan
<1>1. PICK k \in ci..(size - 1) : creators[k] = mid /\ FreeMrid(k)
  BY DEF NotifyOrphan, Owned
<1>2. k \in Mrid
  BY <1>0 DEF Mrid
<1>3. \A m \in Mrid : proxies'[m] \subseteq proxies[m] /\ k \notin proxies'[m]
  <2> SUFFICES ASSUME NEW m \in Mrid, k \in proxies[m] PROVE FALSE
    BY <1>0
  <2>1. m = mid
    BY <1>1 DEF ProxyInv, ProxyOwnsId
  <2> QED BY <1>0, <2>1 DEF ProxyInv, DeletedHoldsNothing
<1>4. ProxyOwnsId' /\ LiveInTable'
  BY <1>0, <1>1, <1>2, <1>3, FreeMridUnheld
<1>5. /\ \A m \in Mrid : Live(m)' = Live(m)
      /\ \/ UNCHANGED stack
         \/ \E f \in Frame : Push(f) /\ f.fn = "OnMsgerDestroyed"
  BY <1>0, <1>1, <1>2, FreeMridEffect
<1> QED BY <1>0, <1>4, <1>5, ProxyInvNotify

-----------------------------------------------------------------------------
(* A Msger's proxies own their ids *)

LEMMA ProxyInvFramework ==
    ASSUME TypeInv, ProxyInv, Framework
    PROVE  ProxyInv'
<1>0. TypeOK
  BY DEF TypeInv
<1>1. ASSUME UNCHANGED <<table, proxies, stack, mid, crid>>, ~Running,
             UNCHANGED op \/ op' \notin {"notify", "orphans"}
      PROVE  ProxyInv'
  <2>1. /\ UNCHANGED <<size, creators, proxies, stack>>
        /\ \A m \in Mrid : Live(m)' = Live(m)
        /\ UNCHANGED <<op, mid, crid>> \/ (~Running /\ op' \notin {"notify", "orphans"})
    BY <1>1 DEF table, Live
  <2> QED BY <1>0, <2>1, ProxyInvQuiet
<1>2. CASE Run \/ LoopQuits \/ SwapQueues
  BY <1>1, <1>2 DEF Run, LoopQuits, SwapQueues, EnterExit, At, deletion
<1>3. CASE NextMsg \/ RangeDone \/ DispatchPastEnd \/ CheckErrors \/ InputDone
  BY <1>1, <1>3
  DEF NextMsg, RangeDone, DispatchPastEnd, CheckErrors, InputDone, EnterDelete, At, deletion
<1>4. CASE Dispatch \/ ForwardErrorHandled
  <2>1. PICK fn \in {"Dispatch", "OnError"}, id \in Mrid :
          /\ Live(id) /\ Push(Call(fn, id, msgers[id].src))
          /\ UNCHANGED <<table, proxies>> /\ ~Running
          /\ op' \notin {"notify", "orphans"}
    <3>1. CASE Dispatch
      BY <3>1 DEF Dispatch, Live, At
    <3>2. CASE ForwardErrorHandled
      BY <3>2 DEF ForwardErrorHandled, Live, At
    <3> QED BY <1>4, <3>1, <3>2
  <2> DEFINE f == Call(fn, id, msgers[id].src)
  <2>2. f \in Frame
    <3>1. msgers[id].src \in Mrid /\ fn \in Calls
      BY <1>0, SlotType DEF TypeOK, Calls
    <3> QED BY <3>1, CallType
  <2>3. f.fn \in UserCalls /\ f.self = id
    BY DEF Call, UserCalls
  <2> HIDE DEF f
  <2> QED BY <1>0, <2>1, <2>2, <2>3, ProxyInvLoopCall DEF f
<1>5. CASE ForwardErrorNobody \/ ClearErrors
  BY <1>1, <1>5 DEF ForwardErrorNobody, ClearErrors, FailOnError, EnterDelete, At, deletion
<1>6. CASE ForwardErrorDeclined
  <2>1. /\ ~Running /\ UNCHANGED <<size, creators, proxies, stack, mid, crid>>
        /\ UNCHANGED op \/ op' \notin {"notify", "orphans"}
    BY <1>6 DEF ForwardErrorDeclined, FailOnError, EnterDelete, At, deletion
  <2>2. msgers \in [Mrid -> Msger] /\ msgers' = [msgers EXCEPT ![oid].unused = TRUE]
    BY <1>0, <1>6 DEF ForwardErrorDeclined, TypeOK
  <2>3. \A m \in Mrid : msgers'[m].kind = msgers[m].kind
    BY <2>2 DEF Msger
  <2>4. \A m \in Mrid : Live(m)' = Live(m)
    BY <2>3 DEF Live
  <2>5. UNCHANGED <<op, mid, crid>> \/ (~Running /\ op' \notin {"notify", "orphans"})
    BY <2>1
  <2> QED BY <1>0, <2>1, <2>4, <2>5, ProxyInvQuiet
<1>7. CASE DeleteUnused
  <2>1. PICK k \in i..(n - 1) : Live(k) /\ BeginDelete(k)
    BY <1>7 DEF DeleteUnused, Deletable
  <2>2. k \in Mrid
    BY <2>1 DEF Live
  <2>3. ~Running /\ op = "none" /\ UNCHANGED <<size, creators>>
    BY <1>7 DEF DeleteUnused, At
  <2> QED BY <2>1, <2>2, <2>3, ProxyInvBeginDelete
<1>8. CASE DeleteAtExit
  <2>1. /\ ~Running /\ op = "none" /\ phase = "exit" /\ UNCHANGED <<size, creators>>
        /\ BeginDelete(i - 1) /\ i > 0
    BY <1>8 DEF DeleteAtExit, At
  <2>2. i - 1 \in Mrid
    BY <2>1, LastMridAssumption DEF TypeInv, TypeOK, CursorOK, Mrid
  <2> QED BY <2>1, <2>2, ProxyInvBeginDelete
<1>9. CASE NotifyCreator
  BY <1>9, ProxyInvNotifyCreator
<1>10. CASE NotifyOrphan
  BY <1>10, ProxyInvNotifyOrphan
<1>11. CASE DeleteDone
  <2>1. /\ UNCHANGED <<size, creators, proxies, stack>> /\ ~Running
        /\ op' \notin {"notify", "orphans"} /\ \A m \in Mrid : Live(m)' = Live(m)
    BY <1>11 DEF DeleteDone, table, Live
  <2> QED BY <1>0, <2>1, ProxyInvQuiet
<1>12. CASE RunTimers \/ ExitDone
  BY <1>1, <1>12 DEF RunTimers, ExitDone, At, deletion
<1> QED
  BY <1>2, <1>3, <1>4, <1>5, <1>6, <1>7, <1>8, <1>9, <1>10, <1>11, <1>12
  DEF Framework, ProcessInputQueue, ForwardError, DeleteMsgers

LEMMA ProxyInvNext ==
    ASSUME TypeInv, ProxyInv, SendersNestSafely, [Next]_vars
    PROVE  ProxyInv'
<1>1. CASE Application
  BY <1>1, ProxyInvApplication
<1>2. CASE Framework
  BY <1>2, ProxyInvFramework
<1>3. CASE UNCHANGED vars
  <2>1. /\ UNCHANGED <<size, creators, proxies, stack, op, mid, crid>>
        /\ \A m \in Mrid : Live(m)' = Live(m)
    BY <1>3 DEF vars, table, control, deletion, Live
  <2> QED BY <2>1, ProxyInvQuiet DEF TypeInv
<1> QED BY <1>1, <1>2, <1>3 DEF Next, Terminated

LEMMA ProxyInvariant ==
    ASSUME SendersNestSafely
    PROVE  Spec => [](TypeInv /\ ProxyInv)
<1>1. Init => TypeInv /\ ProxyInv
  BY TypeInvInit, ProxyInvInit
<1>2. (TypeInv /\ ProxyInv) /\ [Next]_vars => (TypeInv /\ ProxyInv)'
  BY TypeInvNext, ProxyInvNext
<1> QED BY <1>1, <1>2, PTL DEF Spec

\* A proxy's id stays in the table and stays its holder's, whatever is created,
\* freed, deleted and reused (AllocateMrid, FreeMrid, DeleteMsger in app.cc), in
\* every program whose OnMsgerDestroyed handlers keep quiet and whose constructors
\* and destructors do not both send.
THEOREM ProxyIdsOwned ==
    ASSUME SendersNestSafely
    PROVE  Spec => []ProxyOwnsId
<1>1. ProxyInv => ProxyOwnsId
  BY DEF ProxyInv
<1> QED BY <1>1, ProxyInvariant, PTL

\* The messages a constructor sends, and the constructors they call in turn, do
\* not construct another Msger in a slot that is still empty because its Msger
\* is under construction (CreateMsger called by CreateLink, app.cc).
THEOREM SlotsConstructedOnce ==
    ASSUME SendersNestSafely
    PROVE  Spec => []ConstructedOnce
<1>1. TypeInv /\ ProxyInv => ConstructedOnce
  <2> SUFFICES ASSUME TypeInv, ProxyInv,
                      NEW k \in DOMAIN stack, NEW l \in DOMAIN stack,
                      stack[k].fn = "ctor", stack[l].fn = "ctor",
                      stack[l].self = stack[k].self
               PROVE  stack[k].self < size /\ ~Live(stack[k].self) /\ l = k
    <3>1. TypeInv /\ ProxyInv =>
            \A k \in DOMAIN stack : stack[k].fn = "ctor" =>
                stack[k].self < size /\ ~Live(stack[k].self)
      BY DEF ProxyInv, CtorCalls
    <3> QED BY <3>1 DEF ConstructedOnce
  <2>1. stack[k].self < size /\ ~Live(stack[k].self)
    BY DEF ProxyInv, CtorCalls
  <2>2. CASE "ctor" \notin Senders
    BY <2>1, <2>2 DEF ProxyInv, CtorCalls
  <2>3. CASE "ctor" \in Senders
    <3>1. ~(l > k) /\ ~(k > l)
      BY <2>3 DEF ProxyInv, NestedCalls
    <3>2. k \in Nat /\ l \in Nat
      BY DEF TypeInv, TypeOK
    <3> QED BY <2>1, <3>1, <3>2
  <2> QED BY <2>2, <2>3
<1> QED BY <1>1, ProxyInvariant, PTL

-----------------------------------------------------------------------------
(* What a step does to a slot *)

\* The Msger stays, and an unused one stays unused.
Kept(id) ==
    /\ msgers'[id].kind = msgers[id].kind /\ msgers'[id].src = msgers[id].src
    /\ msgers[id].unused => msgers'[id].unused

\* A constructor returns.
Built(id) ==
    /\ ReturnCtor /\ id = Self
    /\ msgers'[id] = NewMsger(Top.src)

Deleted(id) == (DeleteUnused \/ DeleteAtExit) /\ BeginDelete(id)

LEMMA MarkedKept ==
    ASSUME msgers \in [Mrid -> Msger], NEW id \in Mrid, NEW dead, NEW m \in Mrid,
           OnMsgerDestroyed(id, dead)
    PROVE  Kept(m)
<1>1. msgers' = [msgers EXCEPT ![id].unused = @ \/ dead = msgers[id].src]
  BY DEF OnMsgerDestroyed
<1>2. msgers[m] \in Msger /\ msgers[id] \in Msger
  OBVIOUS
<1>3. CASE m = id
  <2>1. msgers'[m] = [msgers[m] EXCEPT !.unused = @ \/ dead = msgers[id].src]
    BY <1>1, <1>3
  <2>2. msgers'[m].unused = (msgers[m].unused \/ dead = msgers[id].src)
    BY <1>2, <2>1 DEF Msger
  <2>3. msgers'[m].kind = msgers[m].kind /\ msgers'[m].src = msgers[m].src
    BY <1>2, <2>1 DEF Msger
  <2> QED BY <2>2, <2>3, Zenon DEF Kept
<1>4. CASE m # id
  BY <1>1, <1>4 DEF Kept
<1> QED BY <1>3, <1>4

LEMMA UnusedKept ==
    ASSUME msgers \in [Mrid -> Msger], NEW id \in Mrid, NEW m \in Mrid,
           msgers' = [msgers EXCEPT ![id].unused = TRUE]
    PROVE  Kept(m)
<1>1. msgers[m] \in Msger
  OBVIOUS
<1> QED BY <1>1 DEF Kept, Msger

LEMMA FreedKept ==
    ASSUME TypeOK, NEW id \in Mrid, NEW m \in Mrid, FreeMrid(id)
    PROVE  Kept(m)
<1>1. CASE UNCHANGED msgers
  BY <1>1 DEF Kept
<1>2. CASE OnMsgerDestroyed(id, creators[id])
  BY <1>2, MarkedKept DEF TypeOK
<1> QED BY <1>1, <1>2 DEF FreeMrid, table

LEMMA SlotOfApplication ==
    ASSUME TypeInv, ProxyInv, SendersNestSafely, Application, NEW m \in Mrid
    PROVE  Kept(m) \/ Built(m)
<1>0. TypeOK
  BY DEF TypeInv
<1>1. CASE UNCHANGED msgers
  BY <1>1 DEF Kept
<1>2. ASSUME NEW id \in Mrid, FreeId(id) PROVE Kept(m)
  <2>1. FreeMrid(id) \/ UNCHANGED msgers
    BY <1>2 DEF FreeId, table
  <2> QED BY <1>0, <1>1, <2>1, FreedKept DEF Kept
<1>3. CASE SetUnused
  <2>1. AppCode /\ msgers' = [msgers EXCEPT ![Self].unused = TRUE]
    BY <1>3 DEF SetUnused
  <2>2. Self \in Mrid
    BY <1>0, <2>1, AppCodeCalls
  <2> QED BY <1>0, <2>1, <2>2, UnusedKept DEF TypeOK
<1>4. CASE ReturnCtor
  BY <1>0, <1>4 DEF ReturnCtor, Built, Kept, TypeOK
<1>5. ASSUME NEW id \in Mrid, SendTo(id) PROVE UNCHANGED msgers
  BY <1>5 DEF SendTo, table
<1>6. CASE SendNew \/ Reply \/ Broadcast \/ Error \/ Quit \/ ReturnDtor \/ Return
  <2>1. UNCHANGED msgers
    BY <1>6 DEF SendNew, Reply, Broadcast, Error, Quit, ReturnDtor, Return, table
  <2> QED BY <1>1, <2>1
<1> QED BY <1>1, <1>2, <1>3, <1>4, <1>5, <1>6 DEF Application

LEMMA SlotOfFramework ==
    ASSUME TypeInv, Framework, NEW m \in Mrid
    PROVE  Kept(m) \/ Deleted(m)
<1>0. TypeOK /\ msgers \in [Mrid -> Msger]
  BY DEF TypeInv, TypeOK
<1>1. CASE UNCHANGED msgers
  BY <1>1 DEF Kept
<1>2. CASE Run \/ LoopQuits \/ SwapQueues \/ RunTimers \/ ExitDone \/ DeleteDone
  <2>1. UNCHANGED msgers
    BY <1>2 DEF Run, LoopQuits, SwapQueues, RunTimers, ExitDone, DeleteDone, table
  <2> QED BY <1>1, <2>1
<1>3. CASE NextMsg \/ Dispatch \/ RangeDone \/ DispatchPastEnd \/ CheckErrors \/ InputDone
  <2>1. UNCHANGED msgers
    BY <1>3 DEF NextMsg, Dispatch, RangeDone, DispatchPastEnd, CheckErrors, InputDone, table
  <2> QED BY <1>1, <2>1
<1>4. CASE ForwardErrorNobody \/ ForwardErrorHandled \/ ClearErrors
  <2>1. UNCHANGED msgers
    BY <1>4 DEF ForwardErrorNobody, ForwardErrorHandled, ClearErrors, table
  <2> QED BY <1>1, <2>1
<1>5. CASE ForwardErrorDeclined
  <2>1. oid \in Mrid /\ msgers' = [msgers EXCEPT ![oid].unused = TRUE]
    BY <1>0, <1>5 DEF ForwardErrorDeclined, TypeOK
  <2> QED BY <1>0, <2>1, UnusedKept
<1>6. CASE DeleteUnused \/ DeleteAtExit
  <2>1. PICK id : BeginDelete(id)
    BY <1>6 DEF DeleteUnused, DeleteAtExit
  <2>2. m # id => Kept(m)
    BY <1>0, <2>1 DEF BeginDelete, Kept
  <2> QED BY <1>6, <2>1, <2>2 DEF Deleted
<1>7. CASE NotifyCreator
  <2>1. crid \in Mrid /\ mid \in Mrid
    BY <1>0 DEF TypeOK
  <2>2. UNCHANGED msgers \/ OnMsgerDestroyed(crid, mid) \/ FreeMrid(mid)
    BY <1>7 DEF NotifyCreator, table
  <2> QED BY <1>0, <1>1, <2>1, <2>2, MarkedKept, FreedKept
<1>8. CASE NotifyOrphan
  <2>1. PICK k \in ci..(size - 1) : FreeMrid(k)
    BY <1>8 DEF NotifyOrphan
  <2>2. k \in Mrid
    BY <1>0, LastMridAssumption DEF TypeOK, Mrid
  <2> QED BY <1>0, <2>1, <2>2, FreedKept
<1> QED
  BY <1>2, <1>3, <1>4, <1>5, <1>6, <1>7, <1>8
  DEF Framework, ProcessInputQueue, ForwardError, DeleteMsgers

LEMMA SlotOfStep ==
    ASSUME TypeInv, ProxyInv, SendersNestSafely, [Next]_vars, NEW m \in Mrid
    PROVE  Kept(m) \/ Built(m) \/ Deleted(m)
<1>1. CASE UNCHANGED vars
  BY <1>1 DEF vars, table, Kept
<1> QED BY <1>1, SlotOfApplication, SlotOfFramework DEF Next, Terminated

-----------------------------------------------------------------------------
(***************************************************************************)
(* Requests find their Msgers.  A request is queued for a Msger that lives *)
(* or has just been constructed; while the queue holds it                  *)
(* DeleteUnusedMsgers leaves its Msger alone, and while the input queue    *)
(* does nothing is deleted.                                                *)
(***************************************************************************)

\* The destinations of the requests in a queue are alive.
Heard(q) == \A k \in DOMAIN q : q[k].req /\ q[k].dest \in Mrid => Live(q[k].dest)

LEMMA LiveKept ==
    ASSUME TypeInv, ProxyInv, SendersNestSafely, [Next]_vars, NEW m \in Mrid, Live(m), ~Deleted(m)
    PROVE  Live(m)'
<1>1. Kept(m) \/ Built(m)
  BY SlotOfStep
<1> QED BY <1>1 DEF Kept, Built, NewMsger, Live

LEMMA HeardAppend ==
    ASSUME outq \in Seq(Message), NEW msg \in Message, outq' = Append(outq, msg), Heard(outq),
           \A m \in Mrid : Live(m) => Live(m)',
           msg.req /\ msg.dest \in Mrid => Live(msg.dest)'
    PROVE  Heard(outq)'
<1>1. \A k \in DOMAIN outq' : (k \in DOMAIN outq /\ outq'[k] = outq[k]) \/ outq'[k] = msg
  OBVIOUS
<1> QED BY <1>1 DEF Heard

\* What application code queues.
LEMMA HeardApplication ==
    ASSUME TypeInv, ProxyInv, SendersNestSafely, Application, Heard(outq)
    PROVE  Heard(outq)'
<1>0. /\ outq \in Seq(Message) /\ stack \in Seq(Frame) /\ TypeOK
      /\ \A m \in Mrid : Live(m) => Live(m)'
  <2>1. ASSUME NEW m \in Mrid, Live(m) PROVE Live(m)'
    <3>1. ~Deleted(m)
      BY DEF Deleted, Application, DeleteUnused, DeleteAtExit, SendNew, SendTo, Reply, Broadcast,
             FreeId, Error, Quit, SetUnused, AppCode, ReturnCtor, ReturnDtor, Return, At
    <3> QED BY <2>1, <3>1, LiveKept DEF Next
  <2> QED BY <2>1 DEF TypeInv, TypeOK
<1>1. CASE UNCHANGED outq
  BY <1>0, <1>1 DEF Heard
<1>2. ASSUME NEW msg \in Message, outq' = Append(outq, msg),
             msg.req /\ msg.dest \in Mrid => Live(msg.dest)'
      PROVE  Heard(outq)'
  BY <1>0, <1>2, HeardAppend
<1>3. CASE SendNew
  <2>1. UNCHANGED outq \/ outq' = Append(outq, Request(mrid_New))
    BY <1>3 DEF SendNew
  <2>2. Request(mrid_New) \in Message /\ Request(mrid_New).dest \notin Mrid
    BY LastMridAssumption DEF Request, Message, mrid_New, Mrid
  <2> QED BY <1>1, <1>2, <2>1, <2>2
<1>4. ASSUME NEW id \in Mrid, SendTo(id) PROVE Heard(outq)'
  <2>1. AppCode /\ id \in proxies[Self] /\ UNCHANGED <<msgers, size>>
    BY <1>4 DEF SendTo, table
  <2>2. Self \in Mrid
    BY <1>0, <2>1, AppCodeCalls
  <2>3. id < size
    BY <2>1, <2>2 DEF ProxyInv, ProxyOwnsId
  <2>4. UNCHANGED outq \/ (Live(id) /\ outq' = Append(outq, Request(id)))
    BY <1>4, <2>3 DEF SendTo
  <2>5. Request(id) \in Message /\ Request(id).dest = id
    BY DEF Request, Message
  <2> QED BY <1>0, <1>1, <1>2, <2>4, <2>5
<1>5. CASE Reply
  <2>1. AppCode /\ Top.src \in Mrid
    BY <1>0, <1>5, TopType DEF Reply, AppCode
  <2> DEFINE msg == [dest |-> Top.src, req |-> FALSE]
  <2>2. msg \in Message /\ ~msg.req
    BY <2>1 DEF Message
  <2>3. UNCHANGED outq \/ outq' = Append(outq, msg)
    BY <1>5 DEF Reply
  <2> HIDE DEF msg
  <2> QED BY <1>1, <1>2, <2>2, <2>3
<1>6. CASE Broadcast
  <2> DEFINE msg == [dest |-> mrid_Broadcast, req |-> FALSE]
  <2>1. msg \in Message /\ ~msg.req /\ outq' = Append(outq, msg)
    BY <1>6 DEF Broadcast, Message
  <2> HIDE DEF msg
  <2> QED BY <1>2, <2>1
<1>7. CASE ReturnCtor
  <2>1. Self \in Mrid /\ Top.req \in BOOLEAN
    BY <1>0, <1>7, TopType DEF ReturnCtor
  <2>2. PICK msg \in Message : msg.dest = Self /\ outq' = Append(outq, msg)
    <3>1. [dest |-> Self, req |-> Top.req] \in Message
      BY <2>1 DEF Message
    <3> QED BY <1>7, <3>1 DEF ReturnCtor
  <2>3. msgers'[msg.dest] = NewMsger(Top.src)
    BY <1>0, <1>7, <2>1, <2>2 DEF ReturnCtor, TypeOK
  <2>4. Live(msg.dest)'
    BY <2>1, <2>2, <2>3 DEF Live, NewMsger
  <2> QED BY <1>2, <2>2, <2>4
<1>8. ASSUME NEW id \in Mrid, FreeId(id) PROVE UNCHANGED outq
  BY <1>8 DEF FreeId, queues
<1>9. CASE Error \/ Quit \/ SetUnused \/ ReturnDtor \/ Return
  <2>1. UNCHANGED outq
    BY <1>9 DEF Error, Quit, SetUnused, ReturnDtor, Return, queues
  <2> QED BY <1>1, <2>1
<1> QED BY <1>1, <1>3, <1>4, <1>5, <1>6, <1>7, <1>8, <1>9 DEF Application

LEMMA RequestsInput ==
    ASSUME TypeInv, RequestHasMsger, ProcessInputQueue, \A m \in Mrid : Live(m) => Live(m)'
    PROVE  RequestHasMsger'
<1>0. phase = "input" /\ UNCHANGED outq /\ Heard(outq) /\ Heard(inq) /\ inq \in Seq(Message)
  <2>1. phase = "input" /\ UNCHANGED outq
    BY DEF ProcessInputQueue, NextMsg, Dispatch, RangeDone, DispatchPastEnd, CheckErrors, InputDone,
           ForwardError, ForwardErrorNobody, ForwardErrorHandled, ForwardErrorDeclined, ClearErrors,
           At, queues
  <2> QED BY <2>1 DEF RequestHasMsger, Heard, TypeInv, TypeOK
<1>1. Heard(outq)'
  BY <1>0 DEF Heard
<1>2. phase' # "input" \/ inq' = inq \/ (inq # <<>> /\ inq' = Tail(inq))
  BY DEF ProcessInputQueue, NextMsg, Dispatch, RangeDone, DispatchPastEnd, CheckErrors, InputDone,
         ForwardError, ForwardErrorNobody, ForwardErrorHandled, ForwardErrorDeclined, ClearErrors,
         FailOnError, EnterDelete, queues
<1>3. CASE inq' = inq
  <2>1. Heard(inq)'
    BY <1>0, <1>3 DEF Heard
  <2> QED BY <1>1, <2>1 DEF RequestHasMsger, Heard
<1>4. CASE inq # <<>> /\ inq' = Tail(inq)
  <2>1. \A k \in DOMAIN inq' : k + 1 \in DOMAIN inq /\ inq'[k] = inq[k + 1]
    BY <1>0, <1>4
  <2>2. Heard(inq)'
    BY <1>0, <2>1 DEF Heard
  <2> QED BY <1>1, <2>2 DEF RequestHasMsger, Heard
<1> QED BY <1>1, <1>2, <1>3, <1>4 DEF RequestHasMsger, Heard

LEMMA RequestsStep ==
    ASSUME TypeInv, ProxyInv, SendersNestSafely, RequestHasMsger, [Next]_vars
    PROVE  RequestHasMsger'
<1>0. outq \in Seq(Message) /\ (phase \notin {"exit", "done"} => Heard(outq)) /\ (phase = "input" => Heard(inq))
  BY DEF TypeInv, TypeOK, RequestHasMsger, Heard
<1>1. ASSUME UNCHANGED <<inq, phase>>, \A m \in Mrid : Live(m) => Live(m)',
             Heard(outq) => Heard(outq)'
      PROVE  RequestHasMsger'
  BY <1>0, <1>1 DEF RequestHasMsger, Heard
<1>2. CASE Application
  <2>1. UNCHANGED <<inq, phase>>
    BY <1>2 DEF Application, SendNew, SendTo, Reply, Broadcast, FreeId, Error, Quit, SetUnused,
           ReturnCtor, ReturnDtor, Return, queues, control
  <2>2. \A m \in Mrid : ~Deleted(m)
    BY <1>2 DEF Deleted, Application, DeleteUnused, DeleteAtExit, SendNew, SendTo, Reply, Broadcast,
             FreeId, Error, Quit, SetUnused, AppCode, ReturnCtor, ReturnDtor, Return, At
  <2> QED BY <1>1, <1>2, <2>1, <2>2, LiveKept, HeardApplication
<1>3. CASE ProcessInputQueue
  <2>1. \A m \in Mrid : ~Deleted(m)
    BY <1>3 DEF Deleted, DeleteUnused, DeleteAtExit,
           ProcessInputQueue, NextMsg, Dispatch, RangeDone, DispatchPastEnd, CheckErrors, InputDone,
           ForwardError, ForwardErrorNobody, ForwardErrorHandled, ForwardErrorDeclined, ClearErrors, At
  <2> QED BY <1>3, <2>1, LiveKept, RequestsInput
<1>4. CASE SwapQueues
  <2>1. UNCHANGED msgers /\ inq' = outq /\ outq' = <<>> /\ Heard(outq)
    BY <1>0, <1>4 DEF SwapQueues, table, At
  <2> QED BY <2>1 DEF RequestHasMsger, Heard, Live
<1>5. CASE Run \/ LoopQuits \/ RunTimers \/ ExitDone
  <2>1. UNCHANGED <<msgers, outq, inq>> /\ phase' # "input" /\ (phase' \notin {"exit", "done"} => phase \notin {"exit", "done"})
    BY <1>5 DEF Run, LoopQuits, RunTimers, ExitDone, EnterExit, At, table, queues
  <2> QED BY <1>0, <2>1 DEF RequestHasMsger, Heard, Live
<1>6. CASE NotifyCreator \/ NotifyOrphan \/ DeleteDone
  <2>1. UNCHANGED <<outq, inq, phase>>
    BY <1>6 DEF NotifyCreator, NotifyOrphan, DeleteDone, queues
  <2>2. \A m \in Mrid : ~Deleted(m)
    BY <1>6 DEF Deleted, DeleteUnused, DeleteAtExit, NotifyCreator, NotifyOrphan, DeleteDone, At
  <2>3. \A m \in Mrid : Live(m) => Live(m)'
    BY <1>6, <2>2, LiveKept DEF Next, Framework, DeleteMsgers
  <2> QED BY <1>1, <2>1, <2>3 DEF Heard
<1>7. CASE DeleteAtExit
  <2>1. phase' = "exit"
    BY <1>7 DEF DeleteAtExit, At
  <2> QED BY <2>1 DEF RequestHasMsger
<1>8. CASE DeleteUnused
  <2>1. PICK id \in i..(n - 1) : Deletable(id) /\ BeginDelete(id)
    BY <1>8 DEF DeleteUnused
  <2>2. phase = "delete" /\ phase' = phase /\ UNCHANGED outq
    BY <1>8 DEF DeleteUnused, At, queues
  <2>3. \A m \in Mrid : Live(m) /\ m # id => Live(m)'
    <3>1. msgers \in [Mrid -> Msger] /\ msgers' = [msgers EXCEPT ![id] = NoMsger]
      BY <2>1 DEF BeginDelete, TypeInv, TypeOK
    <3> QED BY <3>1 DEF Live
  <2>4. \A k \in DOMAIN outq : outq[k].dest # id
    BY <2>1 DEF Deletable, HasMessagesFor
  <2>5. Heard(outq)'
    BY <1>0, <2>2, <2>3, <2>4 DEF Heard
  <2> QED BY <2>2, <2>5 DEF RequestHasMsger, Heard
<1>9. CASE UNCHANGED vars
  BY <1>9 DEF vars, table, queues, control, RequestHasMsger, Live
<1> QED
  BY <1>2, <1>3, <1>4, <1>5, <1>6, <1>7, <1>8, <1>9 DEF Next, Terminated, Framework, DeleteMsgers

\* A request, once queued, is dispatched to a Msger: the one it was sent to is
\* not deleted in the meantime, whoever marked it unused, nor is its slot emptied
\* by the end of its creator (HasMessagesFor in DeleteUnusedMsgers, app.cc:236).
THEOREM RequestsFindMsgers ==
    ASSUME SendersNestSafely
    PROVE  Spec => []RequestHasMsger
<1>1. Init => TypeInv /\ ProxyInv /\ RequestHasMsger
  <2>1. Init => RequestHasMsger
    BY DEF Init, RequestHasMsger
  <2> QED BY <2>1, TypeInvInit, ProxyInvInit
<1>2. (TypeInv /\ ProxyInv /\ RequestHasMsger) /\ [Next]_vars => (TypeInv /\ ProxyInv /\ RequestHasMsger)'
  BY TypeInvNext, ProxyInvNext, RequestsStep
<1> QED BY <1>1, <1>2, PTL DEF Spec

-----------------------------------------------------------------------------
(***************************************************************************)
(* No id is lost.  A proxy that goes gives up its id, and when a Msger is  *)
(* deleted its proxies go without a word: DeleteMsger then looks for their *)
(* ids in _creators.  Released says how far that loop has got.             *)
(***************************************************************************)

Started == op # "orphans" => ci = 0
Released ==
    op = "orphans" => \A k \in Mrid : k < ci /\ k < size /\ creators[k] = mid => k = mid

LeakInv == NoLeakedId /\ Started /\ Released

Deleting == op \in {"notify", "orphans"}
Exiting == phase \in {"exit", "done"}

\* A step that leaves ids and their holders alone.
LEMMA LeakQuiet ==
    ASSUME LeakInv, UNCHANGED <<size, creators, proxies, ci>>,
           Exiting => Exiting',
           UNCHANGED <<op, mid>> \/ ~(Deleting \/ Deleting')
    PROVE  LeakInv'
<1>1. NoLeakedId'
  BY DEF LeakInv, NoLeakedId, Deleting, Exiting
<1>2. Started' /\ Released'
  BY DEF LeakInv, Started, Released, Deleting
<1> QED BY <1>1, <1>2 DEF LeakInv

\* FreeMrid makes an id vacant, or removes it.
LEMMA LeakFree ==
    ASSUME TypeInv, NEW id \in Mrid, FreeMrid(id), id < size \/ ~Live(id)
    PROVE  /\ \A k \in Mrid : k # id => creators'[k] = creators[k]
           /\ id < size' => creators'[id] = id
           /\ size' <= size
<1>0. creators \in [Mrid -> Mrid] /\ size \in Nat /\ id \in Nat
  BY LastMridAssumption DEF TypeInv, TypeOK, Mrid
<1> QED BY <1>0 DEF FreeMrid, table

LEMMA LeakApplication ==
    ASSUME TypeInv, ProxyInv, SendersNestSafely, LeakInv, Application
    PROVE  LeakInv'
<1>0. /\ TypeOK /\ creators \in [Mrid -> Mrid] /\ proxies \in [Mrid -> SUBSET Mrid]
      /\ size \in Nat /\ size <= LastMrid + 1 /\ LastMrid \in Nat
  BY LastMridAssumption DEF TypeInv, TypeOK
<1>1. UNCHANGED <<phase, op, mid, ci>>
  BY DEF Application, SendNew, SendTo, Reply, Broadcast, FreeId, Error, Quit, SetUnused,
         ReturnCtor, ReturnDtor, Return, control, deletion
<1>2. CASE UNCHANGED <<size, creators, proxies>>
  BY <1>1, <1>2, LeakQuiet DEF Exiting
<1>3. ASSUME op # "orphans", NoLeakedId' PROVE LeakInv'
  BY <1>1, <1>3 DEF LeakInv, Started, Released
<1>4. CASE SendNew
  <2>1. op # "orphans" /\ Self \in Mrid
    BY <1>0, <1>4, AppCodeCalls DEF SendNew
  <2>2. PICK id \in 0..size :
          IF Exhausted(id) THEN UNCHANGED <<table, proxies>>
          ELSE /\ size' = IF id = size THEN size + 1 ELSE size
               /\ creators' = [creators EXCEPT ![id] = Self]
               /\ proxies' = [proxies EXCEPT ![Self] = @ \cup {id}]
    BY <1>4 DEF SendNew
  <2>3. CASE Exhausted(id)
    BY <1>2, <2>2, <2>3 DEF table
  <2>4. CASE ~Exhausted(id)
    <3>1. /\ \A k \in Mrid : creators'[k] = IF k = id THEN Self ELSE creators[k]
          /\ \A m \in Mrid : proxies[m] \subseteq proxies'[m]
          /\ id \in proxies'[Self]
      BY <1>0, <2>1, <2>2, <2>4
    <3>2. \A k \in Mrid : k < size' => k = id \/ k < size
      BY <1>0, <2>2, <2>4, SMTT(30) DEF Mrid
    <3>3. NoLeakedId'
      BY <1>0, <1>1, <3>1, <3>2 DEF LeakInv, NoLeakedId
    <3> QED BY <1>3, <2>1, <3>3
  <2> QED BY <2>3, <2>4
<1>5. ASSUME NEW id \in Mrid, FreeId(id) PROVE LeakInv'
  <2>1. op # "orphans" /\ Self \in Mrid /\ id \in proxies[Self]
    BY <1>0, <1>5, AppCodeCalls DEF FreeId
  <2>2. id < size
    BY <2>1 DEF ProxyInv, ProxyOwnsId
  <2>3. FreeMrid(id) /\ proxies' = [proxies EXCEPT ![Self] = @ \ {id}]
    BY <1>0, <1>5, <2>2 DEF FreeId, ValidMsgerId, Mrid
  <2>4. /\ \A k \in Mrid : k # id => creators'[k] = creators[k]
        /\ id < size' => creators'[id] = id
        /\ size' <= size /\ size' \in Nat
    <3>1. size' \in Nat
      BY TypeInvNext, LastMridAssumption DEF Next, TypeInv, TypeOK
    <3> QED BY <2>2, <2>3, <3>1, LeakFree
  <2>5. \A m \in Mrid : proxies'[m] = IF m = Self THEN proxies[m] \ {id} ELSE proxies[m]
    BY <1>0, <2>1, <2>3
  <2>6. NoLeakedId'
    <3> SUFFICES ASSUME phase \notin {"exit", "done"}, NEW k \in Mrid, k < size', creators'[k] # k
                 PROVE  k \in proxies'[creators'[k]] \/ (op \in {"notify", "orphans"} /\ creators'[k] = mid)
      BY <1>1 DEF NoLeakedId
    <3>1. k # id /\ k < size /\ creators'[k] = creators[k]
      BY <1>0, <2>4, SMTT(30) DEF Mrid
    <3>2. k \in proxies[creators[k]] \/ (op \in {"notify", "orphans"} /\ creators[k] = mid)
      BY <3>1 DEF LeakInv, NoLeakedId
    <3> QED BY <1>0, <2>5, <3>1, <3>2
  <2> QED BY <1>3, <2>1, <2>6
<1>6. CASE ReturnDtor
  <2>1. stack \in Seq(Frame) /\ Running /\ Top.fn = "dtor" /\ stack' = Tail(stack)
        /\ proxies' = [proxies EXCEPT ![Self] = {}] /\ UNCHANGED <<size, creators>>
    BY <1>0, <1>6 DEF ReturnDtor, TypeOK, table
  <2>2. Top = stack[1] /\ 1 \in DOMAIN stack
    BY <2>1, ReturnCalls
  <2>3. op = "notify" /\ Self = mid
    BY <2>1, <2>2 DEF ProxyInv, DtorCalls, Self
  <2>4. NoLeakedId'
    BY <1>0, <1>1, <2>1, <2>3 DEF LeakInv, NoLeakedId
  <2> QED BY <1>3, <2>3, <2>4
<1>7. CASE Reply \/ Broadcast \/ Error \/ Quit \/ SetUnused \/ ReturnCtor \/ Return
  <2>1. UNCHANGED <<size, creators, proxies>>
    BY <1>7 DEF Reply, Broadcast, Error, Quit, SetUnused, ReturnCtor, Return, table
  <2> QED BY <1>2, <2>1
<1>8. ASSUME NEW id \in Mrid, SendTo(id) PROVE UNCHANGED <<size, creators, proxies>>
  BY <1>8 DEF SendTo, table
<1> QED BY <1>2, <1>4, <1>5, <1>6, <1>7, <1>8 DEF Application

LEMMA LeakFramework ==
    ASSUME TypeInv, ProxyInv, LeakInv, Framework
    PROVE  LeakInv'
<1>0. /\ TypeOK /\ creators \in [Mrid -> Mrid] /\ proxies \in [Mrid -> SUBSET Mrid]
      /\ size \in Nat /\ size <= LastMrid + 1 /\ LastMrid \in Nat /\ mid \in Mrid /\ ci \in Nat
      /\ size' \in Nat
  <2>1. TypeInv'
    BY TypeInvNext DEF Next
  <2> QED BY <2>1, LastMridAssumption DEF TypeInv, TypeOK
<1>1. CASE Run \/ LoopQuits \/ SwapQueues \/ RunTimers \/ ExitDone
  <2>1. /\ UNCHANGED <<size, creators, proxies, ci, op, mid>> /\ (Exiting => Exiting')
    BY <1>1 DEF Run, LoopQuits, SwapQueues, RunTimers, ExitDone, EnterExit, At, table, deletion, Exiting
  <2> QED BY <2>1, LeakQuiet
<1>2. CASE NextMsg \/ Dispatch \/ RangeDone \/ DispatchPastEnd \/ CheckErrors \/ InputDone
  <2>1. /\ UNCHANGED <<size, creators, proxies, ci>> /\ (Exiting => Exiting')
        /\ UNCHANGED <<op, mid>> \/ ~(Deleting \/ Deleting')
    BY <1>2 DEF NextMsg, Dispatch, RangeDone, DispatchPastEnd, CheckErrors, InputDone, EnterDelete, At,
                table, deletion, Exiting, Deleting
  <2> QED BY <2>1, LeakQuiet
<1>3. CASE ForwardError
  <2>1. /\ UNCHANGED <<size, creators, proxies, ci>> /\ (Exiting => Exiting')
        /\ UNCHANGED <<op, mid>> \/ ~(Deleting \/ Deleting')
    BY <1>3 DEF ForwardError, ForwardErrorNobody, ForwardErrorHandled, ForwardErrorDeclined, ClearErrors,
                FailOnError, EnterDelete, At, table, deletion, Exiting, Deleting
  <2> QED BY <2>1, LeakQuiet
<1>4. CASE DeleteUnused \/ DeleteAtExit
  <2>1. PICK id : BeginDelete(id)
    BY <1>4 DEF DeleteUnused, DeleteAtExit
  <2>2. op = "none" /\ op' = "notify" /\ mid' = id /\ UNCHANGED <<size, creators, ci, phase>>
        /\ \A m \in Mrid : m # id => proxies'[m] = proxies[m]
    BY <1>0, <1>4, <2>1 DEF DeleteUnused, DeleteAtExit, BeginDelete, At
  <2>3. NoLeakedId'
    BY <1>0, <2>2 DEF LeakInv, NoLeakedId
  <2> QED BY <2>2, <2>3 DEF LeakInv, Started, Released
<1>5. CASE NotifyCreator
  <2>1. op = "notify" /\ op' = "orphans" /\ UNCHANGED <<proxies, phase, mid, ci>> /\ ci = 0
    BY <1>5 DEF NotifyCreator, deletion, LeakInv, Started
  <2>2. /\ \A k \in Mrid : k # mid => creators'[k] = creators[k]
        /\ mid < size' => creators'[mid] = mid \/ creators'[mid] = creators[mid]
        /\ size' <= size
    <3>1. CASE UNCHANGED <<size, creators>>
      BY <1>0, <3>1
    <3>2. CASE FreeMrid(mid)
      BY <1>0, <3>2, SMTT(30) DEF FreeMrid, table, Mrid
    <3> QED BY <1>5, <3>1, <3>2 DEF NotifyCreator, table
  <2>3. NoLeakedId'
    BY <1>0, <2>1, <2>2 DEF LeakInv, NoLeakedId, Mrid
  <2>4. Started' /\ Released'
    BY <2>1 DEF Started, Released, Mrid
  <2> QED BY <2>3, <2>4 DEF LeakInv
<1>6. CASE NotifyOrphan
  <2>1. PICK k \in ci..(size - 1) :
          /\ creators[k] = mid /\ \A j \in ci..(size - 1) : j < k => creators[j] # mid
          /\ FreeMrid(k) /\ ci' = k + 1
    BY <1>6 DEF NotifyOrphan, Owned
  <2>2. op = "orphans" /\ UNCHANGED <<proxies, phase, op, mid>>
    BY <1>6 DEF NotifyOrphan
  <2>3. k \in Mrid /\ k < size
    BY <1>0, <2>1 DEF Mrid
  <2>4. /\ \A j \in Mrid : j # k => creators'[j] = creators[j]
        /\ k < size' => creators'[k] = k
        /\ size' <= size
    BY <2>1, <2>3, LeakFree
  <2>5. NoLeakedId'
    <3> SUFFICES ASSUME phase \notin {"exit", "done"}, NEW j \in Mrid, j < size', creators'[j] # j
                 PROVE  j \in proxies[creators'[j]] \/ creators'[j] = mid
      BY <2>2 DEF NoLeakedId
    <3>1. j # k
      BY <2>4
    <3>2. creators'[j] = creators[j] /\ j < size
      BY <1>0, <2>4, <3>1 DEF Mrid
    <3> QED BY <3>2 DEF LeakInv, NoLeakedId
  <2>6. Released'
    <3> SUFFICES ASSUME NEW j \in Mrid, j < ci', j < size', creators'[j] = mid PROVE j = mid
      BY <2>2 DEF Released
    <3>1. CASE j = k
      BY <2>4, <3>1
    <3>2. CASE j # k
      <4>1. j \in Nat /\ j < k /\ j < size /\ creators[j] = mid
        BY <1>0, <2>1, <2>3, <2>4, <3>2, SMTT(30) DEF Mrid
      <4>2. j < ci
        BY <1>0, <2>1, <4>1
      <4> QED BY <2>2, <4>1, <4>2 DEF LeakInv, Released
    <3> QED BY <3>1, <3>2
  <2> QED BY <2>2, <2>5, <2>6 DEF LeakInv, Started
<1>7. CASE DeleteDone
  <2>1. op = "orphans" /\ op' = "none" /\ ci' = 0 /\ UNCHANGED <<size, creators, proxies, phase>>
        /\ \A k \in ci..(size - 1) : creators[k] # mid
    BY <1>7 DEF DeleteDone, Owned, table
  <2>2. \A k \in Mrid : k < size /\ creators[k] = mid => k = mid
    <3> SUFFICES ASSUME NEW k \in Mrid, k < size, creators[k] = mid PROVE k = mid
      OBVIOUS
    <3>1. k < ci
      BY <1>0, <2>1 DEF Mrid
    <3> QED BY <2>1, <3>1 DEF LeakInv, Released
  <2>3. NoLeakedId'
    BY <2>1, <2>2 DEF LeakInv, NoLeakedId
  <2> QED BY <2>1, <2>3 DEF LeakInv, Started, Released
<1> QED
  BY <1>1, <1>2, <1>3, <1>4, <1>5, <1>6, <1>7 DEF Framework, ProcessInputQueue, DeleteMsgers

\* Until the program ends, an id that may not be given away again is held by the
\* Msger that created it, or is about to be released by DeleteMsger (app.cc): no
\* sequence of creations, releases and deaths uses up the ids.
THEOREM NoIdLost ==
    ASSUME SendersNestSafely
    PROVE  Spec => []NoLeakedId
<1>1. Init => TypeInv /\ ProxyInv /\ LeakInv
  <2>1. Init => LeakInv
    BY LastMridAssumption DEF Init, LeakInv, NoLeakedId, Started, Released, Mrid, mrid_App
  <2> QED BY <2>1, TypeInvInit, ProxyInvInit
<1>2. (TypeInv /\ ProxyInv /\ LeakInv) /\ [Next]_vars => (TypeInv /\ ProxyInv /\ LeakInv)'
  <2>1. LeakInv /\ UNCHANGED vars => LeakInv'
    BY LeakQuiet DEF vars, table, control, deletion, Exiting
  <2> QED BY <2>1, TypeInvNext, ProxyInvNext, LeakApplication, LeakFramework DEF Next, Terminated
<1>3. LeakInv => NoLeakedId
  BY DEF LeakInv
<1> QED BY <1>1, <1>2, <1>3, PTL DEF Spec

-----------------------------------------------------------------------------
(***************************************************************************)
(* The two records of a Msger's creator.  The link a Msger was constructed *)
(* with names the owner of its id, which the constructor's frame carries   *)
(* until the Msger is in its slot.  From then on _creators[id] changes     *)
(* only to id itself, in FreeMrid, which tells the Msger the id it held    *)
(* before: a Msger that still remembers that creator is marked unused.     *)
(* The one Msger that may be its own creator is the one its destructor     *)
(* created again under its own id, until DeleteMsger tells it of its death.*)
(***************************************************************************)

CtorSrc ==
    \A k \in DOMAIN stack : stack[k].fn = "ctor" =>
        /\ stack[k].src = creators[stack[k].self]
        /\ stack[k].src = stack[k].self => op = "notify" /\ stack[k].self = mid

OrphanInv ==
    \A id \in Mrid : Orphan(id) =>
        msgers[id].unused \/ (op = "notify" /\ id = mid /\ msgers[id].src = mid)

CreatorInv == CtorSrc /\ CreatorMatches /\ OrphanInv

\* The id keeps its creator, loses it, or has no Msger and is given to another.
GivenUp(id) ==
    /\ creators'[id] = id
    /\ Live(id) => msgers'[id].unused \/ creators[id] # msgers[id].src
CreatorStep(id) ==
    creators'[id] = creators[id] \/ GivenUp(id) \/ (~Live(id) /\ ~Live(id)')

LEMMA CreatorFree ==
    ASSUME TypeOK, NEW id \in Mrid, NEW m \in Mrid, FreeMrid(id)
    PROVE  CreatorStep(m)
<1>0. msgers \in [Mrid -> Msger] /\ creators \in [Mrid -> Mrid]
  BY DEF TypeOK
<1>1. \/ UNCHANGED creators
      \/ /\ creators' = [creators EXCEPT ![id] = id]
         /\ Live(id) => OnMsgerDestroyed(id, creators[id])
  BY DEF FreeMrid, table
<1>2. CASE UNCHANGED creators
  BY <1>2 DEF CreatorStep
<1>3. ASSUME creators' = [creators EXCEPT ![id] = id], m # id PROVE CreatorStep(m)
  BY <1>0, <1>3 DEF CreatorStep
<1>4. ASSUME creators' = [creators EXCEPT ![id] = id],
             Live(id) => OnMsgerDestroyed(id, creators[id])
      PROVE  CreatorStep(id)
  <2>1. creators'[id] = id
    BY <1>0, <1>4
  <2>2. ASSUME Live(id), creators[id] = msgers[id].src PROVE msgers'[id].unused
    <3>1. msgers[id] \in Msger /\ OnMsgerDestroyed(id, creators[id])
      BY <1>0, <1>4, <2>2
    <3>2. msgers'[id] = [msgers[id] EXCEPT !.unused = @ \/ creators[id] = msgers[id].src]
      BY <1>0, <3>1 DEF OnMsgerDestroyed
    <3>3. msgers'[id].unused = (msgers[id].unused \/ creators[id] = msgers[id].src)
      BY <3>1, <3>2 DEF Msger
    <3> QED BY <2>2, <3>3, Zenon
  <2> QED BY <2>1, <2>2 DEF CreatorStep, GivenUp
<1> QED BY <1>1, <1>2, <1>3, <1>4

LEMMA CreatorOfStep ==
    ASSUME TypeInv, ProxyInv, SendersNestSafely, [Next]_vars, NEW m \in Mrid
    PROVE  CreatorStep(m)
<1>0. TypeOK /\ creators \in [Mrid -> Mrid] /\ size \in Nat
  BY LastMridAssumption DEF TypeInv, TypeOK
<1>1. CASE UNCHANGED creators
  BY <1>1 DEF CreatorStep
<1>2. CASE UNCHANGED vars
  BY <1>1, <1>2 DEF vars, table
<1>3. CASE SendNew
  <2>1. PICK id \in 0..size :
          /\ NextMrid(id)
          /\ UNCHANGED creators \/ creators' = [creators EXCEPT ![id] = Self]
    BY <1>3 DEF SendNew, table
  <2>2. ASSUME m # id PROVE creators'[m] = creators[m]
    BY <1>0, <2>1, <2>2
  <2>3. ~Live(id)
    BY <1>0, <2>1 DEF NextMrid, Vacant, ProxyInv, LiveInTable, Live
  <2>4. UNCHANGED msgers
    BY <1>3 DEF SendNew, table
  <2> QED BY <2>2, <2>3, <2>4 DEF CreatorStep, Live
<1>4. ASSUME NEW id \in Mrid, FreeId(id) PROVE CreatorStep(m)
  <2>1. FreeMrid(id) \/ UNCHANGED creators
    BY <1>4 DEF FreeId, table
  <2> QED BY <1>0, <1>1, <2>1, CreatorFree
<1>5. ASSUME NEW id \in Mrid, SendTo(id) PROVE UNCHANGED creators
  BY <1>5 DEF SendTo, table
<1>6. CASE Reply \/ Broadcast \/ Error \/ Quit \/ SetUnused \/ ReturnCtor \/ ReturnDtor \/ Return
  <2>1. UNCHANGED creators
    BY <1>6 DEF Reply, Broadcast, Error, Quit, SetUnused, ReturnCtor, ReturnDtor, Return, table
  <2> QED BY <1>1, <2>1
<1>7. CASE NotifyCreator
  <2>1. mid \in Mrid /\ (UNCHANGED creators \/ FreeMrid(mid))
    BY <1>0, <1>7 DEF NotifyCreator, table, TypeOK
  <2> QED BY <1>0, <1>1, <2>1, CreatorFree
<1>8. CASE NotifyOrphan
  <2>1. PICK k \in ci..(size - 1) : FreeMrid(k)
    BY <1>8 DEF NotifyOrphan
  <2>2. k \in Mrid
    BY <1>0, LastMridAssumption DEF TypeOK, Mrid
  <2> QED BY <1>0, <2>1, <2>2, CreatorFree
<1>9. CASE DeleteUnused \/ DeleteAtExit \/ DeleteDone \/ Run \/ LoopQuits \/ SwapQueues \/ RunTimers \/ ExitDone
  <2>1. UNCHANGED creators
    BY <1>9 DEF DeleteUnused, DeleteAtExit, DeleteDone, Run, LoopQuits, SwapQueues, RunTimers, ExitDone, table
  <2> QED BY <1>1, <2>1
<1>10. CASE ProcessInputQueue
  <2>1. UNCHANGED creators
    BY <1>10 DEF ProcessInputQueue, NextMsg, Dispatch, RangeDone, DispatchPastEnd, CheckErrors, InputDone,
           ForwardError, ForwardErrorNobody, ForwardErrorHandled, ForwardErrorDeclined, ClearErrors, table
  <2> QED BY <1>1, <2>1
<1> QED
  BY <1>2, <1>3, <1>4, <1>5, <1>6, <1>1, <1>7, <1>8, <1>9, <1>10
  DEF Next, Terminated, Application, Framework, DeleteMsgers

\* A constructor's frame, when it is made.
CtorFrame(f) ==
    f.fn = "ctor" =>
        /\ f.src = creators'[f.self]
        /\ f.src = f.self => op' = "notify" /\ f.self = mid'

\* The ids under construction keep their creators, and a deletion goes on.
FramesKept ==
    Running => /\ UNCHANGED <<op, mid>>
               /\ \A m \in Mrid : Constructing(m) => creators'[m] = creators[m]

\* A step that makes at most one call.
LEMMA CtorPushed ==
    ASSUME TypeOK, CtorSrc, FramesKept,
           UNCHANGED stack \/ \E f \in Frame : Push(f) /\ CtorFrame(f)
    PROVE  CtorSrc'
<1>0. stack \in Seq(Frame) /\ (\A k \in DOMAIN stack : stack[k].self \in Mrid /\ Running)
  <2>1. stack \in Seq(Frame)
    BY DEF TypeOK
  <2> QED BY <2>1, CallsType DEF Running
<1>3. ASSUME NEW k \in DOMAIN stack, stack[k].fn = "ctor"
      PROVE  /\ stack[k].src = creators'[stack[k].self]
             /\ stack[k].src = stack[k].self => op' = "notify" /\ stack[k].self = mid'
  <2>1. stack[k].self \in Mrid /\ Constructing(stack[k].self)
    BY <1>0, <1>3 DEF Constructing
  <2> QED BY <1>0, <1>3, <2>1 DEF FramesKept, CtorSrc
<1>1. CASE UNCHANGED stack
  BY <1>1, <1>3 DEF CtorSrc
<1>2. ASSUME NEW f \in Frame, Push(f), CtorFrame(f) PROVE CtorSrc'
  <2>1. \A k \in DOMAIN stack' :
            \/ k = 1 /\ stack'[k] = f
            \/ k - 1 \in DOMAIN stack /\ stack'[k] = stack[k - 1]
    BY <1>0, <1>2, PushCalls
  <2> QED BY <1>2, <1>3, <2>1 DEF CtorSrc, CtorFrame
<1> QED BY <1>1, <1>2

LEMMA CtorSrcAppCode ==
    ASSUME TypeInv, ProxyInv, SendersNestSafely, ~ReplyHasFactory, CtorSrc, Application, AppCode
    PROVE  CtorSrc'
<1>0. TypeOK /\ creators \in [Mrid -> Mrid] /\ size \in Nat /\ LastMrid \in Nat
  BY LastMridAssumption DEF TypeInv, TypeOK
<1>1. /\ Self \in Mrid
      /\ Live(Self) \/ Constructing(Self) \/ (op = "notify" /\ Self = mid)
  BY <1>0, AppCodeCalls
<1>2. Running /\ UNCHANGED <<op, mid>>
  BY DEF AppCode, Application, SendNew, SendTo, Reply, Broadcast, FreeId, Error, Quit,
         SetUnused, ReturnCtor, ReturnDtor, Return, control, deletion
<1>10. ASSUME NEW id \in Mrid, id < size => creators[id] \in {id, Self},
              \A k \in Mrid : k # id => creators'[k] = creators[k]
       PROVE  FramesKept
  <2>1. ~Constructing(id)
    BY <1>0, <1>10, NotConstructing
  <2> QED BY <1>2, <1>10, <2>1 DEF FramesKept
<1>11. UNCHANGED creators => FramesKept
  BY <1>2 DEF FramesKept
<1>3. ASSUME NEW id \in Mrid, NEW msg, msg.req \in BOOLEAN, CreateMsger(id, msg), ~Live(id),
             id < size => creators[id] \in {id, Self},
             creators'[id] = Self, \A k \in Mrid : k # id => creators'[k] = creators[k]
      PROVE  CtorSrc'
  <2> DEFINE f == [Call("ctor", id, Self) EXCEPT !.req = msg.req]
  <2>1. /\ f \in Frame /\ f.fn = "ctor" /\ f.src = Self /\ f.self = id
    BY <1>1, <1>3 DEF Call, Frame, Calls
  <2>2. Push(f)
    BY <1>3 DEF CreateMsger
  <2>3. CtorFrame(f)
    <3>1. ~Constructing(id)
      BY <1>0, <1>3, NotConstructing
    <3> QED BY <1>1, <1>2, <1>3, <2>1, <3>1 DEF CtorFrame
  <2>4. FramesKept
    BY <1>3, <1>10
  <2> HIDE DEF f
  <2> QED BY <1>0, <2>1, <2>2, <2>3, <2>4, CtorPushed
<1>4. CASE UNCHANGED <<stack, creators>>
  BY <1>0, <1>4, <1>11, CtorPushed
<1>5. CASE SendNew
  <2>1. PICK id \in 0..size :
          /\ NextMrid(id)
          /\ \/ UNCHANGED <<stack, creators>>
             \/ /\ ~Exhausted(id) /\ creators' = [creators EXCEPT ![id] = Self]
                /\ CreateMsger(id, Request(id))
    BY <1>5 DEF SendNew, table
  <2>2. CASE ~Exhausted(id) /\ creators' = [creators EXCEPT ![id] = Self] /\ CreateMsger(id, Request(id))
    <3>1. id \in Mrid
      BY <1>0, <2>2 DEF Exhausted, Mrid
    <3>2. ~Live(id)
      BY <1>0, <2>1 DEF NextMrid, Vacant, ProxyInv, LiveInTable, Live
    <3>3. /\ creators'[id] = Self /\ Request(id).req \in BOOLEAN
          /\ \A k \in Mrid : k # id => creators'[k] = creators[k]
      BY <1>0, <2>2, <3>1 DEF Request
    <3>4. id < size => creators[id] = id
      BY <1>0, <2>1 DEF NextMrid, Vacant
    <3> QED BY <1>3, <2>2, <3>1, <3>2, <3>3, <3>4
  <2> QED BY <1>4, <2>1, <2>2
<1>6. ASSUME NEW id \in Mrid, SendTo(id) PROVE CtorSrc'
  <2>1. id \in proxies[Self] /\ UNCHANGED creators
        /\ (UNCHANGED stack \/ (~Live(id) /\ CreateMsger(id, Request(id))))
    BY <1>6 DEF SendTo, table
  <2>2. creators[id] = Self /\ creators'[id] = Self /\ Request(id).req \in BOOLEAN
    BY <1>1, <2>1 DEF ProxyInv, ProxyOwnsId, Request
  <2> QED BY <1>3, <1>4, <2>1, <2>2
<1>7. ASSUME NEW id \in Mrid, FreeId(id) PROVE CtorSrc'
  <2>1. /\ UNCHANGED stack \/ \E f \in Frame : Push(f) /\ f.fn = "OnMsgerDestroyed"
        /\ \A k \in Mrid : k # id => creators'[k] = creators[k]
    BY <1>0, <1>7, FreeMridEffect DEF FreeId, table
  <2>2. \A f : f.fn = "OnMsgerDestroyed" => CtorFrame(f)
    BY DEF CtorFrame
  <2>3. creators[id] = Self
    BY <1>1, <1>7 DEF FreeId, ProxyInv, ProxyOwnsId
  <2>4. FramesKept
    BY <1>10, <2>1, <2>3
  <2> QED BY <1>0, <2>1, <2>2, <2>4, CtorPushed
<1>8. Reply \/ Broadcast \/ Error \/ Quit \/ SetUnused => UNCHANGED <<stack, creators>>
  BY DEF Reply, Broadcast, Error, Quit, SetUnused, table
<1>9. ~(ReturnCtor \/ ReturnDtor \/ Return)
  <2>1. calls' = calls + 1 /\ calls \in Nat
    BY <1>0, MaxCallsAssumption DEF AppCode, TypeOK
  <2> QED BY <2>1 DEF ReturnCtor, ReturnDtor, Return
<1> QED BY <1>4, <1>5, <1>6, <1>7, <1>8, <1>9 DEF Application

LEMMA CtorSrcFramework ==
    ASSUME TypeInv, CtorSrc, Framework
    PROVE  CtorSrc'
<1>0. TypeOK /\ msgers \in [Mrid -> Msger] /\ crid \in Mrid /\ mid \in Mrid /\ oid \in Mrid
  BY DEF TypeInv, TypeOK
<1>1. ~Running
  BY DEF Framework, Run, LoopQuits, SwapQueues, RunTimers, ExitDone,
         ProcessInputQueue, NextMsg, Dispatch, RangeDone, DispatchPastEnd, CheckErrors, InputDone,
         ForwardError, ForwardErrorNobody, ForwardErrorHandled, ForwardErrorDeclined, ClearErrors,
         DeleteMsgers, DeleteUnused, DeleteAtExit, NotifyCreator, NotifyOrphan, DeleteDone, At
<1>2. FramesKept
  BY <1>1 DEF FramesKept
<1>3. ASSUME NEW fn \in Calls \ {"ctor"}, NEW id \in Mrid,
             UNCHANGED stack \/ Push(Call(fn, id, msgers[id].src))
      PROVE  CtorSrc'
  <2>1. msgers[id].src \in Mrid
    BY <1>0, SlotType
  <2> DEFINE f == Call(fn, id, msgers[id].src)
  <2>2. f \in Frame /\ f.fn # "ctor"
    BY <2>1, CallType DEF Call
  <2>3. CtorFrame(f)
    BY <2>2 DEF CtorFrame
  <2>4. UNCHANGED stack \/ Push(f)
    BY <1>3
  <2> HIDE DEF f
  <2> QED BY <1>0, <1>2, <2>2, <2>3, <2>4, CtorPushed
<1>4. CASE UNCHANGED stack
  BY <1>0, <1>2, <1>4, CtorPushed
<1>5. CASE Dispatch
  <2>1. PICK k \in i..(n - 1) : Live(k) /\ Push(Call("Dispatch", k, msgers[k].src))
    BY <1>5 DEF Dispatch
  <2> QED BY <1>3, <2>1 DEF Live, Calls
<1>6. CASE ForwardErrorHandled
  BY <1>0, <1>3, <1>6 DEF ForwardErrorHandled, Calls
<1>7. CASE DeleteUnused \/ DeleteAtExit
  <2>1. PICK id : BeginDelete(id) /\ id \in Mrid
    <3>1. ASSUME DeleteUnused PROVE \E id : BeginDelete(id) /\ id \in Mrid
      BY <3>1 DEF DeleteUnused, Deletable, Live
    <3>2. ASSUME DeleteAtExit PROVE \E id : BeginDelete(id) /\ id \in Mrid
      <4>1. BeginDelete(i - 1) /\ i > 0 /\ i <= LastMrid + 1
        BY <3>2 DEF DeleteAtExit, TypeInv, CursorOK, At
      <4>2. i - 1 \in Mrid
        BY <1>0, <4>1, LastMridAssumption DEF TypeOK, Mrid
      <4> QED BY <4>1, <4>2
    <3> QED BY <1>7, <3>1, <3>2
  <2> QED BY <1>3, <2>1 DEF BeginDelete, Calls
<1>8. ASSUME NEW id \in Mrid, FreeMrid(id) PROVE CtorSrc'
  <2>1. UNCHANGED stack \/ \E f \in Frame : Push(f) /\ f.fn = "OnMsgerDestroyed"
    BY <1>0, <1>8, FreeMridEffect
  <2>2. \A f : f.fn = "OnMsgerDestroyed" => CtorFrame(f)
    BY DEF CtorFrame
  <2> QED BY <1>0, <1>2, <2>1, <2>2, CtorPushed
<1>9. CASE NotifyCreator
  <2>1. UNCHANGED stack \/ OnMsgerDestroyed(crid, mid) \/ FreeMrid(mid)
    BY <1>9 DEF NotifyCreator
  <2>2. CASE OnMsgerDestroyed(crid, mid)
    BY <1>0, <1>3, <2>2 DEF OnMsgerDestroyed, Calls
  <2> QED BY <1>0, <1>4, <1>8, <2>1, <2>2
<1>10. CASE NotifyOrphan
  <2>1. PICK k \in ci..(size - 1) : FreeMrid(k)
    BY <1>10 DEF NotifyOrphan
  <2>2. k \in Mrid
    BY <1>0, LastMridAssumption DEF TypeOK, Mrid
  <2> QED BY <1>8, <2>1, <2>2
<1> QED
  BY <1>4, <1>5, <1>6, <1>7, <1>9, <1>10
  DEF Framework, Run, LoopQuits, SwapQueues, RunTimers, ExitDone,
      ProcessInputQueue, NextMsg, RangeDone, DispatchPastEnd, CheckErrors, InputDone,
      ForwardError, ForwardErrorNobody, ForwardErrorDeclined, ClearErrors,
      DeleteMsgers, DeleteDone

LEMMA CtorSrcStep ==
    ASSUME TypeInv, ProxyInv, SendersNestSafely, ~ReplyHasFactory, CtorSrc, [Next]_vars
    PROVE  CtorSrc'
<1>0. stack \in Seq(Frame)
  BY DEF TypeInv, TypeOK
<1>1. CASE UNCHANGED vars
  BY <1>1 DEF vars, table, control, deletion, CtorSrc
<1>2. CASE ReturnCtor \/ ReturnDtor \/ Return
  <2>1. Running /\ stack' = Tail(stack)
    BY <1>2 DEF ReturnCtor, ReturnDtor, Return
  <2>2. \A k \in DOMAIN stack' : k + 1 \in DOMAIN stack /\ stack'[k] = stack[k + 1] /\ k + 1 # 1
    <3>1. \A k \in DOMAIN stack' : k \in Nat /\ k >= 1
      BY <1>0, <2>1 DEF Running
    <3> QED BY <1>0, <2>1, <3>1, ReturnCalls
  <2>3. UNCHANGED <<creators, op, mid>>
    BY <1>2 DEF ReturnCtor, ReturnDtor, Return, table, control, deletion
  <2> QED BY <2>2, <2>3 DEF CtorSrc
<1>3. CASE Application /\ ~(ReturnCtor \/ ReturnDtor \/ Return)
  <2>1. AppCode
    BY <1>3 DEF Application, SendNew, SendTo, Reply, Broadcast, FreeId, Error, Quit, SetUnused
  <2> QED BY <1>3, <2>1, CtorSrcAppCode
<1> QED BY <1>1, <1>2, <1>3, CtorSrcFramework DEF Next, Terminated

LEMMA CreatorMatchesStep ==
    ASSUME TypeInv, ProxyInv, SendersNestSafely, CreatorInv, [Next]_vars
    PROVE  CreatorMatches'
<1>0. msgers \in [Mrid -> Msger] /\ stack \in Seq(Frame)
  BY DEF TypeInv, TypeOK
<1> SUFFICES ASSUME NEW id \in Mrid, Live(id)', creators'[id] # id
             PROVE  msgers'[id].src = creators'[id]
  BY DEF CreatorMatches
<1>1. CASE Kept(id)
  <2>1. Live(id) /\ msgers'[id].src = msgers[id].src
    BY <1>1 DEF Kept, Live
  <2>2. creators'[id] = creators[id]
    BY <2>1, CreatorOfStep DEF CreatorStep, GivenUp
  <2> QED BY <2>1, <2>2 DEF CreatorInv, CreatorMatches
<1>2. CASE Built(id)
  <2>1. Running /\ Top.fn = "ctor" /\ id = Self /\ UNCHANGED creators /\ msgers'[id].src = Top.src
    BY <1>2 DEF Built, ReturnCtor, NewMsger
  <2>2. Top = stack[1] /\ 1 \in DOMAIN stack
    BY <1>0, <2>1 DEF Running, Top
  <2> QED BY <2>1, <2>2 DEF CreatorInv, CtorSrc, Self
<1>3. CASE Deleted(id)
  <2>1. msgers'[id] = NoMsger
    BY <1>0, <1>3 DEF Deleted, BeginDelete
  <2> QED BY <2>1 DEF Live, NoMsger
<1> QED BY <1>1, <1>2, <1>3, SlotOfStep

\* A step in the middle of a deletion is application code, or goes on with it.
LEMMA NotifyGoesOn ==
    ASSUME [Next]_vars, op = "notify"
    PROVE  (op' = "notify" /\ mid' = mid) \/ NotifyCreator
<1>1. CASE Application \/ UNCHANGED vars
  BY <1>1 DEF Application, SendNew, SendTo, Reply, Broadcast, FreeId, Error, Quit, SetUnused,
              ReturnCtor, ReturnDtor, Return, vars, control, deletion
<1>2. CASE Framework /\ ~NotifyCreator
  BY <1>2 DEF Framework, Run, LoopQuits, SwapQueues, RunTimers, ExitDone,
         ProcessInputQueue, NextMsg, Dispatch, RangeDone, DispatchPastEnd, CheckErrors, InputDone,
         ForwardError, ForwardErrorNobody, ForwardErrorHandled, ForwardErrorDeclined, ClearErrors,
         DeleteMsgers, DeleteUnused, DeleteAtExit, NotifyOrphan, DeleteDone, At
<1> QED BY <1>1, <1>2 DEF Next, Terminated

LEMMA OrphanStep ==
    ASSUME TypeInv, ProxyInv, SendersNestSafely, CreatorInv, [Next]_vars
    PROVE  OrphanInv'
<1>0. msgers \in [Mrid -> Msger] /\ stack \in Seq(Frame) /\ mid \in Mrid /\ size \in Nat
  BY LastMridAssumption DEF TypeInv, TypeOK
<1> SUFFICES ASSUME NEW id \in Mrid, Orphan(id)', ~msgers'[id].unused
             PROVE  op' = "notify" /\ id = mid' /\ msgers'[id].src = mid'
  BY DEF OrphanInv
<1>1. CASE Kept(id)
  <2>1. /\ Live(id) /\ msgers[id].kind = "Msger" /\ ~msgers[id].unused
        /\ msgers'[id].src = msgers[id].src /\ creators'[id] = id
    BY <1>1 DEF Kept, Live, Orphan
  <2>2. creators[id] = id
    <3>1. CASE GivenUp(id)
      <4>1. creators[id] # msgers[id].src
        BY <2>1, <3>1 DEF GivenUp
      <4> QED BY <2>1, <4>1 DEF CreatorInv, CreatorMatches
    <3> QED BY <2>1, <3>1, CreatorOfStep DEF CreatorStep
  <2>3. op = "notify" /\ id = mid /\ msgers[id].src = mid
    BY <2>1, <2>2 DEF CreatorInv, OrphanInv, Orphan
  <2>4. ~NotifyCreator
    <3> SUFFICES ASSUME NotifyCreator PROVE FALSE
      OBVIOUS
    <3>1. crid = mid /\ mid < size
      BY <2>1, <2>2, <2>3 DEF ProxyInv, CridSaved, LiveInTable
    <3>2. OnMsgerDestroyed(mid, mid)
      BY <1>0, <2>1, <2>3, <3>1 DEF NotifyCreator, Mrid
    <3>3. msgers[mid] \in Msger /\ msgers[mid].src = mid
      BY <1>0, <2>3
    <3>4. msgers'[mid] = [msgers[mid] EXCEPT !.unused = @ \/ mid = msgers[mid].src]
      BY <1>0, <3>2 DEF OnMsgerDestroyed
    <3>5. msgers'[mid].unused = (msgers[mid].unused \/ mid = msgers[mid].src)
      BY <3>3, <3>4 DEF Msger
    <3>6. msgers'[mid].unused
      BY <3>3, <3>5, Zenon
    <3> QED BY <2>3, <3>6
  <2> QED BY <2>1, <2>3, <2>4, NotifyGoesOn
<1>2. CASE Built(id)
  <2>1. /\ Running /\ Top.fn = "ctor" /\ id = Self /\ UNCHANGED <<creators, op, mid>>
        /\ msgers'[id].src = Top.src
    BY <1>2 DEF Built, ReturnCtor, NewMsger, table, control, deletion
  <2>2. Top = stack[1] /\ 1 \in DOMAIN stack
    BY <1>0, <2>1 DEF Running, Top
  <2>3. Top.src = creators[id] /\ (Top.src = id => op = "notify" /\ id = mid)
    BY <2>1, <2>2 DEF CreatorInv, CtorSrc, Self
  <2>4. creators[id] = id
    BY <2>1 DEF Orphan
  <2> QED BY <2>1, <2>3, <2>4
<1>3. CASE Deleted(id)
  <2>1. msgers'[id] = NoMsger
    BY <1>0, <1>3 DEF Deleted, BeginDelete
  <2> QED BY <2>1 DEF Orphan, Live, NoMsger
<1> QED BY <1>1, <1>2, <1>3, SlotOfStep

LEMMA CreatorInvariant ==
    ASSUME SendersNestSafely, ~ReplyHasFactory
    PROVE  Spec => []CreatorInv
<1>1. Init => TypeInv /\ ProxyInv /\ CreatorInv
  <2>1. Init => CtorSrc
    BY DEF Init, CtorSrc, Call
  <2>2. Init => CreatorMatches /\ OrphanInv
    BY LastMridAssumption DEF Init, CreatorMatches, OrphanInv, Orphan, Live, NoMsger, Mrid, mrid_App
  <2> QED BY <2>1, <2>2, TypeInvInit, ProxyInvInit DEF CreatorInv
<1>2. (TypeInv /\ ProxyInv /\ CreatorInv) /\ [Next]_vars => (TypeInv /\ ProxyInv /\ CreatorInv)'
  <2>1. TypeInv /\ ProxyInv /\ CreatorInv /\ [Next]_vars => CreatorInv'
    BY CtorSrcStep, CreatorMatchesStep, OrphanStep DEF CreatorInv
  <2> QED BY <2>1, TypeInvNext, ProxyInvNext
<1> QED BY <1>1, <1>2, PTL DEF Spec

\* The creator a Msger remembers is the creator of its id for as long as the id
\* has one (the assert in FreeMrid, app.cc:155), where no Msger is registered for
\* the interface replies come on.
THEOREM CreatorsAgree ==
    ASSUME SendersNestSafely, ~ReplyHasFactory
    PROVE  Spec => []CreatorMatches
<1>1. CreatorInv => CreatorMatches
  BY DEF CreatorInv
<1> QED BY <1>1, CreatorInvariant, PTL

\* A Msger that was given up by its creator, or outlived it, is unused by the end
\* of the deletion (OnMsgerDestroyed called by FreeMrid and DeleteMsger, app.cc),
\* so DeleteUnusedMsgers will find it.
THEOREM OrphansMarked ==
    ASSUME SendersNestSafely, ~ReplyHasFactory
    PROVE  Spec => []OrphanUnused
<1>1. CreatorInv => OrphanUnused
  BY DEF CreatorInv, OrphanInv, OrphanUnused
<1> QED BY <1>1, CreatorInvariant, PTL

=============================================================================
