----------------------- MODULE QemuEduPlatformProofs -----------------------
(***************************************************************************)
(* Theorems about QemuEduPlatform, for every value of its constants.       *)
(***************************************************************************)
EXTENDS QemuEduPlatform, TLAPS

USE PlatformAssumption DEF PlatformAssumption

-----------------------------------------------------------------------------
(* The inductive invariant.                                                *)

\* What probe has acquired is there until removal gives it up; a device that is
\* not bound is quiet; writers are inside the files' stores only while removal
\* still waits for them.
BindingInv ==
    /\ irq_pc # "idle" => registered
    /\ registered <=> binder \notin {"unbound", "probe_ack", "probe_irq"}
    /\ binder \notin {"bound", "rm_drain", "rm_ack"} => ~Asserted
    /\ \A u \in Users : pc[u] \in {"raise", "scratch"} => binder \in {"bound", "rm_drain"}

\* Between the record of a status and its count the handler is one ahead; a
\* raised bit is where the handler will find it.
RecordInv ==
    /\ recorded = irq_count + (IF irq_pc = "count" THEN 1 ELSE 0)
    /\ owed \subseteq irq_status \cup (IF irq_pc = "record" THEN status ELSE {})

InRaise == {"open", "raise", "poll", "print"}

\* A tool whose driver has not been removed polls while its interrupt is pending,
\* on its way through the handler, or counted.
WaitInv ==
    /\ \A u \in Users : pc[u] \in {"raise", "poll"} => tool[u].mask # {}
    /\ \A u \in Users : pc[u] \in InRaise /\ ~tool[u].rebound =>
         /\ Bound
         /\ tool[u].before <= irq_count
         /\ pc[u] = "poll" => \/ irq_count > tool[u].before
                              \/ Asserted
                              \/ irq_pc \in {"ack", "record", "count"}
    /\ \A u \in Users : tool[u].result = "timeout" => tool[u].rebound

\* The interrupt of a tool that is alone has been handled ...
Handled(u) ==
    /\ irq_count = tool[u].before + 1 /\ irq_pc = "idle"
    /\ ~Asserted /\ last_irq_status = tool[u].mask

\* ... or is at some place of the handler.
Underway(u) ==
    /\ irq_count = tool[u].before
    /\ \/ irq_pc \in {"idle", "read"} /\ irq_status = tool[u].mask
       \/ irq_pc = "ack" /\ irq_status = tool[u].mask /\ status = tool[u].mask
       \/ irq_pc = "record" /\ ~Asserted /\ status = tool[u].mask
       \/ irq_pc = "count" /\ ~Asserted /\ last_irq_status = tool[u].mask

AloneInv ==
    \A u \in Users : tool[u].alone /\ ~tool[u].rebound =>
      /\ pc[u] \in InRaise \/ tool[u].result = "ok" => \A w \in Users \ {u} : pc[w] \notin InRaise
      /\ pc[u] \in {"open", "raise"} =>
           ~Asserted /\ irq_pc = "idle" /\ irq_count = tool[u].before
      /\ pc[u] = "poll" => Underway(u) \/ Handled(u)
      /\ pc[u] = "print" => Handled(u)
      /\ tool[u].result = "ok" => tool[u].shown = tool[u].mask /\ pc[u] = "done" /\ Bound /\ Handled(u)

Inv == TypeOK /\ BindingInv /\ RecordInv /\ WaitInv /\ AloneInv

-----------------------------------------------------------------------------
(* Every step keeps it.                                                    *)

\* A tool that begins.
LEMMA FreshToolTyped == FreshTool \in ToolType
BY DEF FreshTool, ToolType

\* Nothing is bound and no tool runs.
LEMMA InitInv == Init => Inv
<1> SUFFICES ASSUME Init PROVE Inv
  OBVIOUS
<1> USE DEF Init
<1>1. TypeOK
  BY FreshToolTyped DEF TypeOK
<1>2. \A u \in Users : pc[u] = "idle" /\ tool[u].result = "none"
  BY DEF FreshTool
<1>3. BindingInv /\ RecordInv
  BY <1>2 DEF BindingInv, RecordInv, Asserted
<1>4. WaitInv /\ AloneInv
  BY <1>2 DEF WaitInv, AloneInv, InRaise
<1>5. QED BY <1>1, <1>3, <1>4 DEF Inv

\* The interrupt handler.
LEMMA HandlerKeepsInv ==
  ASSUME Inv, IrqHandler
  PROVE  Inv'
<1> USE DEF IrqHandler, IrqEnter, IrqRead, IrqAck, IrqRecord, IrqCount, IrqGoto, Asserted,
            device, driver, bus, users, WriteAck, Inv
<1>1. TypeOK'
  BY DEF TypeOK
<1>2. BindingInv'
  BY DEF BindingInv, TypeOK
<1>3. RecordInv'
  BY DEF RecordInv, TypeOK
<1>4. WaitInv'
  BY DEF WaitInv, TypeOK, Bound, ToolType
<1>5. AloneInv'
  BY DEF AloneInv, WaitInv, TypeOK, ToolType, Underway, Handled, InRaise
<1>6. QED BY <1>1, <1>2, <1>3, <1>4, <1>5

\* The guest tool, through the stores it calls.
LEMMA ToolKeepsInv ==
  ASSUME Inv, NEW u \in Users, User(u)
  PROVE  Inv'
<1> USE DEF Asserted, Bound, device, driver, handler, bus, WriteRaise, UserGoto, Exit, FreshTool, Inv
<1>1. CASE \E mask \in Masks : ToolBefore(u, mask)
  <2>1. PICK mask \in Masks : ToolBefore(u, mask)
    BY <1>1
  <2>2. PICK alone \in BOOLEAN :
          alone <=> /\ \A w \in Users \ {u} : pc[w] \in {"idle", "done"}
                    /\ irq_status = {} /\ irq_pc = "idle"
    OBVIOUS
  <2> DEFINE t == [FreshTool EXCEPT !.mask = mask, !.before = irq_count, !.alone = alone]
  <2>3. tool' = [v \in Users |-> IF v = u THEN t ELSE [tool[v] EXCEPT !.alone = FALSE]]
    BY <2>1, <2>2, Zenon DEF ToolBefore
  <2>4. /\ t \in ToolType
        /\ t.mask = mask /\ t.before = irq_count /\ t.result = "none"
        /\ t.rebound = FALSE /\ t.alone = alone
    <3>1. mask \subseteq Bits /\ irq_count \in Nat
      BY DEF TypeOK
    <3>2. QED BY <3>1 DEF ToolType
  <2> HIDE DEF t
  <2>5. ASSUME NEW v \in Users, v # u
        PROVE  /\ tool'[v] \in ToolType
               /\ tool'[v].mask = tool[v].mask /\ tool'[v].before = tool[v].before
               /\ tool'[v].result = tool[v].result /\ tool'[v].rebound = tool[v].rebound
               /\ tool'[v].alone = FALSE
    <3>1. tool[v] \in ToolType
      BY DEF TypeOK
    <3>2. tool'[v] = [tool[v] EXCEPT !.alone = FALSE]
      BY <2>3, <2>5
    <3>3. QED BY <3>1, <3>2 DEF ToolType
  <2>6. tool'[u] = t
    BY <2>3
  <2>7. pc' = [pc EXCEPT ![u] = "open"] /\ pc[u] = "idle" /\ binder = "bound"
    BY <2>1 DEF ToolBefore
  <2>8. UNCHANGED <<device, driver, handler, bus, owed>>
    BY <2>1 DEF ToolBefore
  <2>9. tool' \in [Users -> ToolType]
    BY <2>3, <2>4, <2>5, <2>6
  <2>10. TypeOK' BY <2>7, <2>8, <2>9 DEF TypeOK
  <2>11. BindingInv' BY <2>7, <2>8 DEF BindingInv, TypeOK
  <2>12. RecordInv' BY <2>8 DEF RecordInv
  <2>13. WaitInv'
    <3>1. ASSUME NEW v \in Users
          PROVE  /\ pc'[v] \in {"raise", "poll"} => tool'[v].mask # {}
                 /\ pc'[v] \in InRaise /\ ~tool'[v].rebound =>
                      /\ Bound'
                      /\ tool'[v].before <= irq_count'
                      /\ pc'[v] = "poll" => \/ irq_count' > tool'[v].before
                                            \/ Asserted'
                                            \/ irq_pc' \in {"ack", "record", "count"}
                 /\ tool'[v].result = "timeout" => tool'[v].rebound
      <4>1. CASE v = u
        BY <4>1, <2>4, <2>6, <2>7, <2>8 DEF TypeOK
      <4>2. CASE v # u
        BY <4>2, <2>5, <2>7, <2>8 DEF TypeOK, WaitInv
      <4>3. QED BY <4>1, <4>2
    <3>2. QED BY <3>1 DEF WaitInv
  <2>14. AloneInv'
    <3>1. ASSUME NEW v \in Users, tool'[v].alone
          PROVE  v = u /\ alone
      BY <3>1, <2>4, <2>5, <2>6
    <3>2. alone => \A w \in Users \ {u} : pc'[w] \notin InRaise
      BY <2>2, <2>7 DEF InRaise, TypeOK
    <3>3. alone => ~Asserted' /\ irq_pc' = "idle" /\ irq_count' = tool'[u].before
      BY <2>2, <2>4, <2>6, <2>8
    <3>4. pc'[u] = "open" /\ tool'[u].result = "none"
      BY <2>4, <2>6, <2>7 DEF TypeOK
    <3>5. QED BY <3>1, <3>2, <3>3, <3>4 DEF AloneInv
  <2>15. QED BY <2>10, <2>11, <2>12, <2>13, <2>14
<1>2. CASE \/ \E word \in Words : ScratchEnter(u, word)
           \/ ScratchWrite(u) \/ ToolDone(u)
  <2> USE <1>2 DEF ScratchEnter, ScratchWrite, ToolDone
  <2>1. TypeOK'
    <3>1. \A word \in Words : [FreshTool EXCEPT !.value = word] \in ToolType
      BY DEF ToolType
    <3>2. \/ \E word \in Words : tool' = [tool EXCEPT ![u] = [FreshTool EXCEPT !.value = word]]
          \/ tool' = [tool EXCEPT ![u] = FreshTool]
      OBVIOUS
    <3>3. tool' \in [Users -> ToolType]
      <4> HIDE DEF FreshTool
      <4>1. QED BY <3>1, <3>2, FreshToolTyped DEF TypeOK
    <3>4. scratch' \in Words
      BY DEF TypeOK, ToolType
    <3>5. QED BY <3>3, <3>4 DEF TypeOK
  <2>2. BindingInv' BY DEF BindingInv, TypeOK
  <2>3. RecordInv' BY DEF RecordInv, TypeOK
  <2>4. WaitInv' BY SMTT(30) DEF WaitInv, TypeOK, ToolType, InRaise
  <2>5. AloneInv'
    <3>1. /\ pc'[u] \in {"idle", "scratch"} /\ tool'[u].alone = FALSE
          /\ UNCHANGED <<irq_status, irq_count, last_irq_status, irq_pc, status, binder>>
      BY DEF TypeOK, ToolType
    <3>2. ASSUME NEW v \in Users, v # u
          PROVE  pc'[v] = pc[v] /\ tool'[v] = tool[v]
      BY <3>2 DEF TypeOK
    <3>3. QED BY <3>1, <3>2 DEF AloneInv, TypeOK, InRaise, Underway, Handled
  <2>6. QED BY <2>1, <2>2, <2>3, <2>4, <2>5
<1>3. CASE RaiseEnter(u) \/ RaiseWrite(u)
  <2> USE <1>3 DEF RaiseEnter, RaiseWrite
  <2>1. TypeOK' BY DEF TypeOK, ToolType
  <2>2. BindingInv' BY DEF BindingInv, TypeOK
  <2>3. RecordInv' BY DEF RecordInv, TypeOK
  <2>4. WaitInv' BY DEF WaitInv, TypeOK, ToolType, InRaise
  <2>5. AloneInv'
    <3>1. CASE RaiseEnter(u)
      BY <3>1 DEF AloneInv, TypeOK, ToolType, InRaise, Underway, Handled
    <3>2. CASE RaiseWrite(u)
      <4>1. ASSUME tool[u].alone, ~tool[u].rebound
            PROVE  Underway(u)'
        BY <3>2, <4>1 DEF AloneInv, TypeOK, ToolType, Underway
      <4>2. ASSUME NEW v \in Users, v # u, tool[v].alone, ~tool[v].rebound
            PROVE  pc[v] \notin InRaise /\ tool[v].result # "ok"
        BY <3>2, <4>2 DEF AloneInv, TypeOK, InRaise
      <4>3. QED BY <3>2, <4>1, <4>2 DEF AloneInv, TypeOK, InRaise
    <3>3. QED BY <3>1, <3>2
  <2>6. QED BY <2>1, <2>2, <2>3, <2>4, <2>5
<1>4. CASE RaiseReject(u) \/ ToolPrint(u) \/ ToolGivesUp(u) \/ ToolFails(u)
  <2>1. PICK result \in {"ok", "timeout", "gone", "rejected"}, shown \in SUBSET Bits :
          /\ tool' = [tool EXCEPT ![u].result = result, ![u].shown = shown]
          /\ result = "ok" => pc[u] = "print" /\ shown = last_irq_status
          /\ result = "timeout" => ToolGivesUp(u)
    BY SMTT(30), <1>4 DEF RaiseReject, ToolPrint, ToolGivesUp, ToolFails, TypeOK
  <2>2. pc' = [pc EXCEPT ![u] = "done"] /\ UNCHANGED <<device, driver, handler, bus, owed>>
    BY <1>4 DEF RaiseReject, ToolPrint, ToolGivesUp, ToolFails
  <2>3. ASSUME NEW v \in Users
        PROVE  /\ tool'[v].mask = tool[v].mask /\ tool'[v].before = tool[v].before
               /\ tool'[v].rebound = tool[v].rebound /\ tool'[v].alone = tool[v].alone
               /\ tool'[v].result = IF v = u THEN result ELSE tool[v].result
               /\ tool'[v].shown = IF v = u THEN shown ELSE tool[v].shown
    BY <2>1 DEF TypeOK, ToolType
  <2>4. TypeOK'
    <3>1. [tool[u] EXCEPT !.result = result, !.shown = shown] \in ToolType
      <4>1. tool[u] \in ToolType
        BY DEF TypeOK
      <4>2. QED BY <2>1, <4>1 DEF ToolType
    <3>2. tool' = [tool EXCEPT ![u] = [tool[u] EXCEPT !.result = result, !.shown = shown]]
      BY <2>1 DEF TypeOK, ToolType
    <3>3. tool' \in [Users -> ToolType]
      BY <3>1, <3>2 DEF TypeOK
    <3>4. QED BY <3>3, <2>2 DEF TypeOK
  <2>5. BindingInv' BY <2>2 DEF BindingInv, TypeOK
  <2>6. RecordInv' BY <2>2 DEF RecordInv, TypeOK
  <2>7. WaitInv'
    <3>1. result = "timeout" => tool[u].rebound
      BY <2>1 DEF ToolGivesUp, WaitInv, TypeOK, ToolType, InRaise
    <3>2. QED BY <2>2, <2>3, <3>1 DEF WaitInv, TypeOK, InRaise
  <2>8. AloneInv'
    <3>1. tool[u].alone /\ ~tool[u].rebound /\ result = "ok" =>
             /\ shown = tool[u].mask /\ Bound /\ Handled(u)
             /\ \A w \in Users \ {u} : pc[w] \notin InRaise
      BY <2>1 DEF AloneInv, WaitInv, InRaise, Handled
    <3>2. /\ pc'[u] = "done" /\ pc[u] \in InRaise
          /\ \A v \in Users \ {u} : pc'[v] = pc[v]
      BY <1>4, <2>2 DEF RaiseReject, ToolPrint, ToolGivesUp, ToolFails, TypeOK, InRaise
    <3>3. ASSUME NEW v \in Users, v # u, tool[v].alone, ~tool[v].rebound
          PROVE  tool[v].result # "ok" /\ pc[v] \notin InRaise
      BY <3>2, <3>3 DEF AloneInv
    <3>4. ASSUME NEW v \in Users, tool'[v].alone, ~tool'[v].rebound
          PROVE  /\ pc'[v] \notin InRaise
                 /\ tool'[v].result = "ok" =>
                      /\ \A w \in Users \ {v} : pc'[w] \notin InRaise
                      /\ tool'[v].shown = tool'[v].mask /\ pc'[v] = "done" /\ Bound' /\ Handled(v)'
      <4>1. CASE v = u
        BY <2>2, <2>3, <3>1, <3>2, <3>4, <4>1 DEF InRaise, Handled
      <4>2. CASE v # u
        BY <2>3, <3>2, <3>3, <3>4, <4>2
      <4>3. QED BY <4>1, <4>2
    <3>5. QED BY <3>4 DEF AloneInv, InRaise
  <2>9. QED BY <2>4, <2>5, <2>6, <2>7, <2>8
<1>5. CASE ToolPoll(u)
  <2> USE <1>5 DEF ToolPoll
  <2>1. TypeOK' BY DEF TypeOK, ToolType
  <2>2. BindingInv' BY DEF BindingInv, TypeOK
  <2>3. RecordInv' BY DEF RecordInv, TypeOK
  <2>4. WaitInv' BY DEF WaitInv, TypeOK, ToolType, InRaise
  <2>5. AloneInv' BY DEF AloneInv, WaitInv, TypeOK, ToolType, InRaise, Underway, Handled
  <2>6. QED BY <2>1, <2>2, <2>3, <2>4, <2>5
<1>6. QED BY <1>1, <1>2, <1>3, <1>4, <1>5 DEF User, ToolStep

\* probe and remove.
LEMMA BinderKeepsInv ==
  ASSUME Inv, Probe \/ Remove \/ BinderStep
  PROVE  Inv'
<1> USE DEF Asserted, Bound, device, driver, handler, WriteAck, BinderGoto, BinderStep,
            Probe, Remove, ProbeAck, ProbeRequestIrq, ProbeSysfs, ProbeFail,
            RemoveDrained, RemoveAck, RemoveSync, ReleaseIrq, Inv
<1>1. TypeOK'
  <2>1. tool' \in [Users -> ToolType]
    <3>1. ASSUME NEW u \in Users
          PROVE  [tool[u] EXCEPT !.rebound = TRUE] \in ToolType
      <4>1. tool[u] \in ToolType
        BY DEF TypeOK
      <4>2. QED BY <4>1 DEF ToolType
    <3>2. UNCHANGED tool \/ tool' = [u \in Users |-> [tool[u] EXCEPT !.rebound = TRUE]]
      OBVIOUS
    <3>3. QED BY <3>1, <3>2 DEF TypeOK
  <2>2. irq_count' \in Nat /\ recorded' \in Nat /\ last_irq_status' \subseteq Bits
    BY DEF TypeOK
  <2>3. irq_status' \subseteq Bits /\ owed' \subseteq Bits /\ scratch' \in Words
    BY DEF TypeOK
  <2>4. UNCHANGED <<irq_pc, status, pc>> /\ registered' \in BOOLEAN
    BY DEF TypeOK
  <2>5. binder' \in {"unbound", "probe_ack", "probe_irq", "probe_sysfs", "bound",
                    "rm_drain", "rm_ack", "rm_sync", "rel_irq"}
    OBVIOUS
  <2>6. QED BY <2>1, <2>2, <2>3, <2>4, <2>5 DEF TypeOK
<1>2. BindingInv' BY DEF BindingInv, TypeOK
<1>3. RecordInv' BY DEF RecordInv, BindingInv, TypeOK
<1>4. WaitInv' BY DEF WaitInv, TypeOK, ToolType, InRaise
<1>5. AloneInv' BY DEF AloneInv, WaitInv, TypeOK, ToolType, InRaise, Underway, Handled
<1>6. QED BY <1>1, <1>2, <1>3, <1>4, <1>5

\* A step of nobody.
LEMMA StutterKeepsInv ==
  ASSUME Inv, UNCHANGED vars
  PROVE  Inv'
BY DEF vars, device, driver, handler, bus, users, Inv, TypeOK, BindingInv, RecordInv, WaitInv,
       AloneInv, Underway, Handled, Asserted, Bound

\* The invariant holds.
LEMMA InductiveInv == Spec => []Inv
<1>1. Inv /\ [Next]_vars => Inv'
  BY HandlerKeepsInv, ToolKeepsInv, BinderKeepsInv, StutterKeepsInv DEF Next
<1>2. QED BY InitInv, <1>1, PTL DEF Spec

-----------------------------------------------------------------------------
(* The theorems.                                                           *)

\* The registers, the driver's fields, and the tools' variables keep their types.
THEOREM TypeCorrect == Spec => []TypeOK
BY InductiveInv, PTL DEF Inv

\* Without a handler no interrupt is pending, and no handler runs without its
\* binding.
THEOREM RemovedIsQuiet == Spec => []QuietAfterRemoval
<1>1. Inv => QuietAfterRemoval
  BY DEF Inv, BindingInv, QuietAfterRemoval
<1>2. QED BY InductiveInv, <1>1, PTL

\* Whoever sees the count of an interrupt sees its status or a later one.
THEOREM CountFollowsStatus == Spec => []StatusNotOlderThanCount
<1>1. Inv => StatusNotOlderThanCount
  BY DEF Inv, TypeOK, RecordInv, StatusNotOlderThanCount
<1>2. QED BY InductiveInv, <1>1, PTL

\* However many raises of however many users merge, no bit is swallowed, and no
\* tool waits in vain for a driver that stays.
THEOREM NothingSwallowed == Spec => []NoRaiseSwallowed
<1>1. Inv => NoRaiseSwallowed
  BY DEF Inv, RecordInv, WaitInv, NoRaiseSwallowed
<1>2. QED BY InductiveInv, <1>1, PTL

\* A raise that nothing overlaps, by a tool whose driver stays, shows its own
\* mask after exactly one more interrupt.
THEOREM OwnMaskShown == Spec => []RaiseShowsItsMask
<1>1. Inv => RaiseShowsItsMask
  BY DEF Inv, AloneInv, Handled, RaiseShowsItsMask
<1>2. QED BY InductiveInv, <1>1, PTL
=============================================================================
