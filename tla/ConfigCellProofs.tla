-------------------------- MODULE ConfigCellProofs --------------------------
(***************************************************************************)
(* Proofs about ConfigCell, for any number of threads, owners and tasks    *)
(* and any bounds.                                                         *)
(***************************************************************************)
EXTENDS ConfigCell, SequenceTheorems, TLAPS

USE DEF None, cellVars, hookVars, writerVars, reporterVars, taskVars

\* What Unregister leaves of the hook list is again a list of hooks.
LEMMA WithoutIndexType ==
    ASSUME NEW S, NEW s \in Seq(S), NEW i \in 1..Len(s)
    PROVE  WithoutIndex(s, i) \in Seq(S)
<1>1. SubSeq(s, 1, i - 1) \in Seq(S) /\ SubSeq(s, i + 1, Len(s)) \in Seq(S)
  BY SubSeqProperties, ElementOfSeq, LenProperties
<1> QED
  BY <1>1, ConcatProperties DEF WithoutIndex

\* Every variable of the cell keeps its type, whatever the interleaving of
\* stores, failures, hooks and polls.
THEOREM TypeCorrect == Spec => []TypeOK
<1> USE DEF TypeOK
<1>1. Init => TypeOK
  BY DEF Init, WriterPc, TaskPc, CellTypeOK, HooksTypeOK, NotifyTypeOK,
         WritersTypeOK, ReportersTypeOK, TasksTypeOK, HistoryTypeOK
<1>2. TypeOK /\ [Next]_vars => TypeOK'
  <2> SUFFICES ASSUME TypeOK, [Next]_vars PROVE TypeOK'
    OBVIOUS
  <2> USE DEF WriterGoes, TaskGoes
  <2>1. ASSUME NEW w \in Writers, BeginStore(w) PROVE TypeOK'
    <3>1. WritersTypeOK'
      BY <2>1 DEF BeginStore, WritersTypeOK, WriterPc, HooksTypeOK
    <3> QED
      BY <3>1, <2>1 DEF BeginStore, CellTypeOK, HooksTypeOK, NotifyTypeOK,
         ReportersTypeOK, TasksTypeOK, HistoryTypeOK
  <2>2. ASSUME NEW w \in Writers, GetOrInit(w) PROVE TypeOK'
    <3>1. CellTypeOK'
      BY <2>2 DEF GetOrInit, CellTypeOK, WritersTypeOK
    <3>2. WritersTypeOK'
      BY <2>2 DEF GetOrInit, WritersTypeOK, WriterPc
    <3>3. HistoryTypeOK'
      <4>1. chain' = Append(chain, value[w]) \/ chain' = chain
        BY <2>2 DEF GetOrInit
      <4>2. UNCHANGED <<streak, told>>
        BY <2>2 DEF GetOrInit
      <4>3. chain \in Seq(Nat) /\ value[w] \in Nat
        BY DEF HistoryTypeOK, WritersTypeOK
      <4>4. Append(chain, value[w]) \in Seq(Nat)
        BY <4>3, AppendProperties
      <4>5. chain' \in Seq(Nat)
        BY <4>1, <4>3, <4>4
      <4> QED
        BY <4>2, <4>5 DEF HistoryTypeOK
    <3> QED
      BY <3>1, <3>2, <3>3, <2>2 DEF GetOrInit, HooksTypeOK, NotifyTypeOK,
         ReportersTypeOK, TasksTypeOK
  <2>3. ASSUME NEW w \in Writers, Swap(w) PROVE TypeOK'
    <3>1. CellTypeOK'
      BY <2>3 DEF Swap, CellTypeOK, WritersTypeOK
    <3>2. WritersTypeOK'
      BY <2>3 DEF Swap, WritersTypeOK, WriterPc, CellTypeOK
    <3>3. HistoryTypeOK'
      BY <2>3 DEF Swap, HistoryTypeOK, WritersTypeOK
    <3> QED
      BY <3>1, <3>2, <3>3, <2>3 DEF Swap, HooksTypeOK, NotifyTypeOK,
         ReportersTypeOK, TasksTypeOK
  <2>4. ASSUME NEW w \in Writers, PublishMeta(w) PROVE TypeOK'
    <3>1. CellTypeOK'
      BY <2>4 DEF PublishMeta, NextMeta, CellTypeOK, WritersTypeOK
    <3>2. WritersTypeOK'
      BY <2>4 DEF PublishMeta, NextMeta, WritersTypeOK, WriterPc, CellTypeOK
    <3> QED
      BY <3>1, <3>2, <2>4 DEF PublishMeta, HooksTypeOK, NotifyTypeOK,
         ReportersTypeOK, TasksTypeOK, HistoryTypeOK
  <2>5. ASSUME NEW w \in Writers, PublishReason(w) PROVE TypeOK'
    <3>1. CellTypeOK'
      BY <2>5 DEF PublishReason, CellTypeOK, WritersTypeOK
    <3>2. WritersTypeOK'
      BY <2>5 DEF PublishReason, WritersTypeOK, WriterPc
    <3> QED
      BY <3>1, <3>2, <2>5 DEF PublishReason, HooksTypeOK, NotifyTypeOK,
         ReportersTypeOK, TasksTypeOK, HistoryTypeOK
  <2>6. ASSUME NEW w \in Writers, ResetFailures(w) PROVE TypeOK'
    <3>1. CellTypeOK'
      BY <2>6 DEF ResetFailures, CellTypeOK, WritersTypeOK
    <3>2. WritersTypeOK'
      BY <2>6 DEF ResetFailures, WritersTypeOK, WriterPc
    <3>3. HistoryTypeOK'
      BY <2>6 DEF ResetFailures, HistoryTypeOK
    <3> QED
      BY <3>1, <3>2, <3>3, <2>6 DEF ResetFailures, HooksTypeOK, NotifyTypeOK,
         ReportersTypeOK, TasksTypeOK
  <2>7. ASSUME NEW w \in Writers, Bump(w) PROVE TypeOK'
    <3>1. NotifyTypeOK'
      BY <2>7 DEF Bump, NotifyTypeOK
    <3>2. WritersTypeOK'
      BY <2>7 DEF Bump, WritersTypeOK, WriterPc
    <3> QED
      BY <3>1, <3>2, <2>7 DEF Bump, CellTypeOK, HooksTypeOK, ReportersTypeOK,
         TasksTypeOK, HistoryTypeOK
  <2>8. ASSUME NEW w \in Writers, TakeWaiting(w) PROVE TypeOK'
    <3>1. NotifyTypeOK'
      BY <2>8 DEF TakeWaiting, NotifyTypeOK
    <3>2. WritersTypeOK'
      BY <2>8 DEF TakeWaiting, WritersTypeOK, WriterPc, NotifyTypeOK
    <3> QED
      BY <3>1, <3>2, <2>8 DEF TakeWaiting, CellTypeOK, HooksTypeOK,
         ReportersTypeOK, TasksTypeOK, HistoryTypeOK
  <2>9. ASSUME NEW w \in Writers, Wake(w) PROVE TypeOK'
    <3>1. WritersTypeOK'
      BY <2>9 DEF Wake, WritersTypeOK, WriterPc
    <3>2. TasksTypeOK'
      BY <2>9 DEF Wake, TasksTypeOK, TaskPc, WritersTypeOK
    <3> QED
      BY <3>1, <3>2, <2>9 DEF Wake, CellTypeOK, HooksTypeOK, NotifyTypeOK,
         ReportersTypeOK, HistoryTypeOK
  <2>10. ASSUME NEW w \in Writers, WakeDone(w) PROVE TypeOK'
    <3>1. WritersTypeOK'
      BY <2>10 DEF WakeDone, PreviousOf, WritersTypeOK, WriterPc
    <3> QED
      BY <3>1, <2>10 DEF WakeDone, CellTypeOK, HooksTypeOK, NotifyTypeOK,
         ReportersTypeOK, TasksTypeOK, HistoryTypeOK
  <2>11. ASSUME NEW w \in Writers, Dispatch(w) PROVE TypeOK'
    <3>1. WritersTypeOK'
      BY <2>11 DEF Dispatch, WritersTypeOK, WriterPc, HooksTypeOK
    <3> QED
      BY <3>1, <2>11 DEF Dispatch, CellTypeOK, HooksTypeOK, NotifyTypeOK,
         ReportersTypeOK, TasksTypeOK, HistoryTypeOK
  <2>12. ASSUME NEW w \in Writers, RunHook(w) PROVE TypeOK'
    <3>1. WritersTypeOK'
      BY HeadTailProperties, <2>12 DEF RunHook, Fires, Call, AfterHook,
         WritersTypeOK, WriterPc
    <3>2. HistoryTypeOK'
      <4>1. Head(todo[w]) \in Hook
        BY HeadTailProperties, <2>12 DEF RunHook, WritersTypeOK
      <4>2. Call(w, Head(todo[w])) \in
              [token : Nat, previous : Nat, current : Nat, generation : Nat]
        BY <4>1 DEF Call, Hook, WritersTypeOK
      <4> QED
        BY <4>2, <2>12 DEF RunHook, HistoryTypeOK
    <3> QED
      BY <3>1, <3>2, <2>12 DEF RunHook, CellTypeOK, HooksTypeOK, NotifyTypeOK,
         ReportersTypeOK, TasksTypeOK
  <2>13. ASSUME NEW w \in Writers, EndStore(w) PROVE TypeOK'
    <3>1. WritersTypeOK'
      BY <2>13 DEF EndStore, WritersTypeOK, WriterPc
    <3> QED
      BY <3>1, <2>13 DEF EndStore, CellTypeOK, HooksTypeOK, NotifyTypeOK,
         ReportersTypeOK, TasksTypeOK, HistoryTypeOK
  <2>14. ASSUME NEW r \in Reporters, ReadCount(r) PROVE TypeOK'
    <3>1. ReportersTypeOK'
      BY <2>14 DEF ReadCount, AfterCount, ReportersTypeOK, CellTypeOK
    <3>2. HistoryTypeOK'
      BY <2>14 DEF ReadCount, AfterCount, HistoryTypeOK
    <3> QED
      BY <3>1, <3>2, <2>14 DEF ReadCount, CellTypeOK, HooksTypeOK,
         NotifyTypeOK, WritersTypeOK, TasksTypeOK
  <2>15. ASSUME NEW r \in Reporters, CompareExchange(r) PROVE TypeOK'
    <3>1. CellTypeOK'
      BY <2>15 DEF CompareExchange, AfterCount, CellTypeOK, ReportersTypeOK
    <3>2. ReportersTypeOK'
      BY <2>15 DEF CompareExchange, AfterCount, ReportersTypeOK, CellTypeOK
    <3>3. HistoryTypeOK'
      BY <2>15 DEF CompareExchange, AfterCount, HistoryTypeOK
    <3> QED
      BY <3>1, <3>2, <3>3, <2>15 DEF CompareExchange, HooksTypeOK,
         NotifyTypeOK, WritersTypeOK, TasksTypeOK
  <2>16. ASSUME NEW r \in Reporters, PublishFailure(r) PROVE TypeOK'
    <3>1. ReportersTypeOK'
      BY <2>16 DEF PublishFailure, ReportersTypeOK, CellTypeOK
    <3> QED
      BY <3>1, <2>16 DEF PublishFailure, CellTypeOK, HooksTypeOK,
         NotifyTypeOK, WritersTypeOK, TasksTypeOK, HistoryTypeOK
  <2>17. ASSUME NEW o \in Owners, AllocateToken(o) PROVE TypeOK'
    <3>1. HooksTypeOK'
      BY <2>17 DEF AllocateToken, HooksTypeOK
    <3> QED
      BY <3>1, <2>17 DEF AllocateToken, CellTypeOK, NotifyTypeOK,
         WritersTypeOK, ReportersTypeOK, TasksTypeOK, HistoryTypeOK
  <2>18. ASSUME NEW o \in Owners, Register(o) PROVE TypeOK'
    <3>1. HooksTypeOK'
      BY <2>18 DEF Register, Form, Hook, HooksTypeOK
    <3> QED
      BY <3>1, <2>18 DEF Register, CellTypeOK, NotifyTypeOK, WritersTypeOK,
         ReportersTypeOK, TasksTypeOK, HistoryTypeOK
  <2>19. ASSUME NEW o \in Owners, Unregister(o) PROVE TypeOK'
    <3>1. HooksTypeOK'
      BY WithoutIndexType, <2>19 DEF Unregister, HooksTypeOK
    <3> QED
      BY <3>1, <2>19 DEF Unregister, CellTypeOK, NotifyTypeOK, WritersTypeOK,
         ReportersTypeOK, TasksTypeOK, HistoryTypeOK
  <2>20. ASSUME NEW k \in Tasks, Subscribe(k) PROVE TypeOK'
    <3>1. TasksTypeOK'
      BY <2>20 DEF Subscribe, TasksTypeOK, TaskPc, NotifyTypeOK
    <3> QED
      BY <3>1, <2>20 DEF Subscribe, CellTypeOK, HooksTypeOK, NotifyTypeOK,
         WritersTypeOK, ReportersTypeOK, HistoryTypeOK
  <2>21. ASSUME NEW k \in Tasks, ReadCurrent(k) PROVE TypeOK'
    <3>1. TasksTypeOK'
      BY <2>21 DEF ReadCurrent, TasksTypeOK, TaskPc, CellTypeOK
    <3> QED
      BY <3>1, <2>21 DEF ReadCurrent, CellTypeOK, HooksTypeOK, NotifyTypeOK,
         WritersTypeOK, ReportersTypeOK, HistoryTypeOK
  <2>22. ASSUME NEW k \in Tasks, Poll(k) PROVE TypeOK'
    <3>1. TasksTypeOK'
      BY <2>22 DEF Poll, TasksTypeOK, TaskPc
    <3> QED
      BY <3>1, <2>22 DEF Poll, CellTypeOK, HooksTypeOK, NotifyTypeOK,
         WritersTypeOK, ReportersTypeOK, HistoryTypeOK
  <2>23. ASSUME NEW k \in Tasks, Check(k) PROVE TypeOK'
    <3>1. TasksTypeOK'
      BY <2>23 DEF Check, Attempt, TasksTypeOK, TaskPc, NotifyTypeOK
    <3> QED
      BY <3>1, <2>23 DEF Check, Attempt, CellTypeOK, HooksTypeOK,
         NotifyTypeOK, WritersTypeOK, ReportersTypeOK, HistoryTypeOK
  <2>24. ASSUME NEW k \in Tasks, Load(k) PROVE TypeOK'
    <3>1. TasksTypeOK'
      BY <2>24 DEF Load, LoadFor, TasksTypeOK, TaskPc, CellTypeOK
    <3> QED
      BY <3>1, <2>24 DEF Load, LoadFor, CellTypeOK, HooksTypeOK, NotifyTypeOK,
         WritersTypeOK, ReportersTypeOK, HistoryTypeOK
  <2>25. ASSUME NEW k \in Tasks, RegisterWaker(k) PROVE TypeOK'
    <3>1. NotifyTypeOK'
      BY <2>25 DEF RegisterWaker, NotifyTypeOK
    <3>2. TasksTypeOK'
      BY <2>25 DEF RegisterWaker, TasksTypeOK, TaskPc
    <3> QED
      BY <3>1, <3>2, <2>25 DEF RegisterWaker, CellTypeOK, HooksTypeOK,
         WritersTypeOK, ReportersTypeOK, HistoryTypeOK
  <2>26. ASSUME NEW k \in Tasks, Recheck(k) PROVE TypeOK'
    <3>1. TasksTypeOK'
      BY <2>26 DEF Recheck, Attempt, TasksTypeOK, TaskPc, NotifyTypeOK
    <3> QED
      BY <3>1, <2>26 DEF Recheck, Attempt, CellTypeOK, HooksTypeOK,
         NotifyTypeOK, WritersTypeOK, ReportersTypeOK, HistoryTypeOK
  <2>27. ASSUME NEW k \in Tasks, Reload(k) PROVE TypeOK'
    <3>1. TasksTypeOK'
      BY <2>27 DEF Reload, LoadFor, TasksTypeOK, TaskPc, CellTypeOK
    <3> QED
      BY <3>1, <2>27 DEF Reload, LoadFor, CellTypeOK, HooksTypeOK,
         NotifyTypeOK, WritersTypeOK, ReportersTypeOK, HistoryTypeOK
  <2>28. ASSUME NEW k \in Tasks, Cancel(k) PROVE TypeOK'
    <3>1. TasksTypeOK'
      BY <2>28 DEF Cancel, TasksTypeOK, TaskPc
    <3> QED
      BY <3>1, <2>28 DEF Cancel, CellTypeOK, HooksTypeOK, NotifyTypeOK,
         WritersTypeOK, ReportersTypeOK, HistoryTypeOK
  <2>29. CASE UNCHANGED vars
    BY <2>29 DEF vars, CellTypeOK, HooksTypeOK, NotifyTypeOK, WritersTypeOK,
       ReportersTypeOK, TasksTypeOK, HistoryTypeOK
  <2> QED
    BY <2>1, <2>2, <2>3, <2>4, <2>5, <2>6, <2>7, <2>8, <2>9, <2>10, <2>11,
       <2>12, <2>13, <2>14, <2>15, <2>16, <2>17, <2>18, <2>19, <2>20, <2>21,
       <2>22, <2>23, <2>24, <2>25, <2>26, <2>27, <2>28, <2>29 DEF Next,
       StoreStep, PollStep
<1> QED
  BY <1>1, <1>2, PTL DEF Spec

-----------------------------------------------------------------------------
(* A store publishes its value before its bump, so a task that saw the     *)
(* generation move finds a value to load.                                  *)

ValueInv ==
    /\ \A w \in Writers : wpc[w] # "idle" => value[w] # None
    /\ \A w \in Writers : wpc[w] \notin {"idle", "init"} => inner # None
    /\ generation # 0 => inner # None
    /\ \A k \in Tasks : seen[k] <= generation
    /\ \A k \in Tasks : tpc[k] \in {"load", "reload"} => generation # 0

\* The ordering of a store's steps that makes a consumed move loadable.
LEMMA ValueCorrect == Spec => []ValueInv
<1>1. Init => ValueInv
  BY DEF Init, ValueInv
<1>2. TypeOK /\ ValueInv /\ [Next]_vars => ValueInv'
  <2> SUFFICES ASSUME TypeOK, ValueInv, [Next]_vars PROVE ValueInv'
    OBVIOUS
  <2> USE DEF WriterGoes, TaskGoes
  <2>1. ASSUME NEW w \in Writers, BeginStore(w) PROVE ValueInv'
    BY <2>1 DEF BeginStore, ValueInv, TypeOK, CellTypeOK, NotifyTypeOK,
        WritersTypeOK, TasksTypeOK
  <2>2. ASSUME NEW w \in Writers, GetOrInit(w) PROVE ValueInv'
    BY <2>2 DEF GetOrInit, ValueInv, TypeOK, CellTypeOK, NotifyTypeOK,
        WritersTypeOK, TasksTypeOK
  <2>3. ASSUME NEW w \in Writers, Swap(w) PROVE ValueInv'
    BY <2>3 DEF Swap, ValueInv, TypeOK, CellTypeOK, NotifyTypeOK,
        WritersTypeOK, TasksTypeOK
  <2>4. ASSUME NEW w \in Writers, Bump(w) PROVE ValueInv'
    BY <2>4 DEF Bump, ValueInv, TypeOK, CellTypeOK, NotifyTypeOK,
        WritersTypeOK, TasksTypeOK
  <2>5. ASSUME NEW w \in Writers, Wake(w) PROVE ValueInv'
    BY <2>5 DEF Wake, ValueInv, TypeOK, CellTypeOK, NotifyTypeOK,
        WritersTypeOK, TasksTypeOK
  <2>6. ASSUME NEW w \in Writers, EndStore(w) PROVE ValueInv'
    BY <2>6 DEF EndStore, ValueInv, TypeOK, CellTypeOK, NotifyTypeOK,
        WritersTypeOK, TasksTypeOK
  <2>7. ASSUME NEW w \in Writers,
               \/ PublishMeta(w) \/ PublishReason(w) \/ ResetFailures(w)
               \/ TakeWaiting(w) \/ WakeDone(w) \/ Dispatch(w) \/ RunHook(w)
        PROVE  ValueInv'
    BY <2>7 DEF PublishMeta, PublishReason, ResetFailures, TakeWaiting,
        WakeDone, Dispatch, RunHook, ValueInv, TypeOK, CellTypeOK,
        NotifyTypeOK, WritersTypeOK, TasksTypeOK
  <2>8. ASSUME NEW r \in Reporters,
               \/ ReadCount(r) \/ CompareExchange(r) \/ PublishFailure(r)
        PROVE  ValueInv'
    BY <2>8 DEF ReadCount, CompareExchange, PublishFailure, ValueInv, TypeOK,
        CellTypeOK, NotifyTypeOK, WritersTypeOK, TasksTypeOK
  <2>9. ASSUME NEW o \in Owners,
               \/ AllocateToken(o) \/ Register(o) \/ Unregister(o)
        PROVE  ValueInv'
    BY <2>9 DEF AllocateToken, Register, Unregister, ValueInv, TypeOK,
        CellTypeOK, NotifyTypeOK, WritersTypeOK, TasksTypeOK
  <2>10. ASSUME NEW k \in Tasks, Subscribe(k) PROVE ValueInv'
    BY <2>10 DEF Subscribe, ValueInv, TypeOK, CellTypeOK, NotifyTypeOK,
        WritersTypeOK, TasksTypeOK
  <2>11. ASSUME NEW k \in Tasks, ReadCurrent(k) PROVE ValueInv'
    BY <2>11 DEF ReadCurrent, ValueInv, TypeOK, CellTypeOK, NotifyTypeOK,
        WritersTypeOK, TasksTypeOK
  <2>12. ASSUME NEW k \in Tasks, Poll(k) PROVE ValueInv'
    BY <2>12 DEF Poll, ValueInv, TypeOK, CellTypeOK, NotifyTypeOK,
        WritersTypeOK, TasksTypeOK
  <2>13. ASSUME NEW k \in Tasks, Check(k) PROVE ValueInv'
    BY <2>13 DEF Check, Attempt, ValueInv, TypeOK, CellTypeOK, NotifyTypeOK,
        WritersTypeOK, TasksTypeOK
  <2>14. ASSUME NEW k \in Tasks, Load(k) PROVE ValueInv'
    BY <2>14 DEF Load, LoadFor, ValueInv, TypeOK, CellTypeOK, NotifyTypeOK,
        WritersTypeOK, TasksTypeOK
  <2>15. ASSUME NEW k \in Tasks, RegisterWaker(k) PROVE ValueInv'
    BY <2>15 DEF RegisterWaker, ValueInv, TypeOK, CellTypeOK, NotifyTypeOK,
        WritersTypeOK, TasksTypeOK
  <2>16. ASSUME NEW k \in Tasks, Recheck(k) PROVE ValueInv'
    BY <2>16 DEF Recheck, Attempt, ValueInv, TypeOK, CellTypeOK, NotifyTypeOK,
        WritersTypeOK, TasksTypeOK
  <2>17. ASSUME NEW k \in Tasks, Reload(k) PROVE ValueInv'
    BY <2>17 DEF Reload, LoadFor, ValueInv, TypeOK, CellTypeOK, NotifyTypeOK,
        WritersTypeOK, TasksTypeOK
  <2>18. ASSUME NEW k \in Tasks, Cancel(k) PROVE ValueInv'
    BY <2>18 DEF Cancel, ValueInv, TypeOK, CellTypeOK, NotifyTypeOK,
        WritersTypeOK, TasksTypeOK
  <2>19. CASE UNCHANGED vars
    BY <2>19 DEF vars, ValueInv, TypeOK, CellTypeOK, NotifyTypeOK,
        WritersTypeOK, TasksTypeOK
  <2> QED
    BY <2>1, <2>2, <2>3, <2>4, <2>5, <2>6, <2>7, <2>8, <2>9, <2>10, <2>11,
       <2>12, <2>13, <2>14, <2>15, <2>16, <2>17, <2>18, <2>19
       DEF Next, StoreStep, PollStep
<1> QED
  BY <1>1, <1>2, TypeCorrect, PTL DEF Spec

\* attempt never consumes a move of the generation for nothing: whenever a
\* task is about to load, the cell holds a value.
THEOREM ConsumedMoveHasValueCorrect == Spec => []ConsumedMoveHasValue
<1>1. ValueInv => ConsumedMoveHasValue
  BY DEF ValueInv, ConsumedMoveHasValue
<1> QED
  BY <1>1, ValueCorrect, PTL

-----------------------------------------------------------------------------
(* No wake-up is lost.                                                     *)

\* A task between registering and its next poll has a waker that is in the
\* list, taken by a bump, or already called; and a task that parked stays in
\* the list behind a moved generation only while that bump is still to take it.
WakeInv ==
    /\ \A w \in Writers : wpc[w] # "wake" => waking[w] = {}
    /\ \A k \in Tasks :
         tpc[k] \in {"recheck", "reload", "parked"} /\ ~woken[k] =>
           k \in waiting \/ \E w \in Writers : k \in waking[w]
    /\ \A k \in Tasks :
         tpc[k] = "parked" /\ k \in waiting /\ seen[k] # generation =>
           \E w \in Writers : wpc[w] = "take"

\* The check-register-check protocol of poll_with loses no wake-up: a pending
\* task that has not seen the latest bump is about to be woken by a writer.
THEOREM NoLostWakeupCorrect == Spec => []NoLostWakeup
<1>1. Init => WakeInv
  BY DEF Init, WakeInv
<1>2. TypeOK /\ ValueInv /\ WakeInv /\ [Next]_vars => WakeInv'
  <2> SUFFICES ASSUME TypeOK, ValueInv, WakeInv, [Next]_vars PROVE WakeInv'
    OBVIOUS
  <2> USE DEF WriterGoes, TaskGoes
  <2>1. ASSUME NEW w \in Writers, Bump(w) PROVE WakeInv'
    BY <2>1 DEF Bump, WakeInv, TypeOK, NotifyTypeOK, WritersTypeOK,
        TasksTypeOK
  <2>2. ASSUME NEW w \in Writers, TakeWaiting(w) PROVE WakeInv'
    BY <2>2 DEF TakeWaiting, WakeInv, TypeOK, NotifyTypeOK, WritersTypeOK,
        TasksTypeOK
  <2>3. ASSUME NEW w \in Writers, Wake(w) PROVE WakeInv'
    BY <2>3 DEF Wake, WakeInv, TypeOK, NotifyTypeOK, WritersTypeOK,
        TasksTypeOK
  <2>q1. ASSUME UNCHANGED <<generation, waiting, waking, tpc, seen, woken>>,
                \A w \in Writers :
                  \/ wpc'[w] = wpc[w]
                  \/ /\ wpc[w] # "take" /\ wpc'[w] # "take"
                     /\ wpc[w] = "wake" => waking[w] = {}
         PROVE  WakeInv'
    BY <2>q1 DEF WakeInv
  <2>4. ASSUME NEW w \in Writers,
               \/ BeginStore(w) \/ GetOrInit(w) \/ Swap(w) \/ PublishMeta(w)
               \/ PublishReason(w) \/ ResetFailures(w) \/ WakeDone(w)
               \/ Dispatch(w) \/ RunHook(w) \/ EndStore(w)
        PROVE  WakeInv'
    BY <2>q1, <2>4 DEF BeginStore, GetOrInit, Swap, PublishMeta,
       PublishReason, ResetFailures, WakeDone, Dispatch, RunHook, EndStore,
       TypeOK, WritersTypeOK
  <2>5. ASSUME NEW r \in Reporters,
               \/ ReadCount(r) \/ CompareExchange(r) \/ PublishFailure(r)
        PROVE  WakeInv'
    BY <2>5 DEF ReadCount, CompareExchange, PublishFailure, WakeInv, TypeOK,
        NotifyTypeOK, WritersTypeOK, TasksTypeOK
  <2>6. ASSUME NEW o \in Owners,
               \/ AllocateToken(o) \/ Register(o) \/ Unregister(o)
        PROVE  WakeInv'
    BY <2>6 DEF AllocateToken, Register, Unregister, WakeInv, TypeOK,
        NotifyTypeOK, WritersTypeOK, TasksTypeOK
  <2>7. ASSUME NEW k \in Tasks, Subscribe(k) PROVE WakeInv'
    BY <2>7 DEF Subscribe, WakeInv, TypeOK, NotifyTypeOK, WritersTypeOK,
        TasksTypeOK
  <2>8. ASSUME NEW k \in Tasks, ReadCurrent(k) PROVE WakeInv'
    BY <2>8 DEF ReadCurrent, WakeInv, TypeOK, NotifyTypeOK, WritersTypeOK,
        TasksTypeOK
  <2>9. ASSUME NEW k \in Tasks, Poll(k) PROVE WakeInv'
    <3>1. /\ tpc' = [tpc EXCEPT ![k] = "check"]
          /\ woken' = [woken EXCEPT ![k] = FALSE]
          /\ UNCHANGED <<generation, waiting, waking, wpc, seen>>
      BY <2>9 DEF Poll
    <3>2. DOMAIN tpc = Tasks /\ DOMAIN woken = Tasks
      BY DEF TypeOK, TasksTypeOK
    <3> QED
      BY <3>1, <3>2 DEF WakeInv
  <2>10. ASSUME NEW k \in Tasks, Check(k) PROVE WakeInv'
    BY <2>10 DEF Check, Attempt, WakeInv, TypeOK, NotifyTypeOK, WritersTypeOK,
        TasksTypeOK
  <2>11. ASSUME NEW k \in Tasks, Load(k) PROVE WakeInv'
    BY <2>11 DEF Load, LoadFor, WakeInv, TypeOK, NotifyTypeOK, WritersTypeOK,
        TasksTypeOK
  <2>12. ASSUME NEW k \in Tasks, RegisterWaker(k) PROVE WakeInv'
    BY <2>12 DEF RegisterWaker, WakeInv, TypeOK, NotifyTypeOK, WritersTypeOK,
        TasksTypeOK
  <2>13. ASSUME NEW k \in Tasks, Recheck(k) PROVE WakeInv'
    BY <2>13 DEF Recheck, Attempt, WakeInv, TypeOK, NotifyTypeOK,
        WritersTypeOK, TasksTypeOK
  <2>14. ASSUME NEW k \in Tasks, Reload(k) PROVE WakeInv'
    BY <2>14 DEF Reload, LoadFor, WakeInv, TypeOK, NotifyTypeOK,
        WritersTypeOK, TasksTypeOK, ValueInv
  <2>15. ASSUME NEW k \in Tasks, Cancel(k) PROVE WakeInv'
    BY <2>15 DEF Cancel, WakeInv, TypeOK, NotifyTypeOK, WritersTypeOK,
        TasksTypeOK
  <2>16. CASE UNCHANGED vars
    BY <2>16 DEF vars, WakeInv, TypeOK, NotifyTypeOK, WritersTypeOK,
        TasksTypeOK
  <2> QED
    BY <2>1, <2>2, <2>3, <2>4, <2>5, <2>6, <2>7, <2>8, <2>9, <2>10, <2>11,
       <2>12, <2>13, <2>14, <2>15, <2>16
       DEF Next, StoreStep, PollStep
<1>3. WakeInv => NoLostWakeup
  BY DEF WakeInv, NoLostWakeup
<1> QED
  BY <1>1, <1>2, <1>3, TypeCorrect, ValueCorrect, PTL DEF Spec

-----------------------------------------------------------------------------
(* A caught-up task holds what is served.                                  *)

Settled == {"idle", "check", "register", "recheck", "parked"}

\* What a task holds differs from what is served only behind a bump it has not
\* seen, or during a store that has not bumped.
FreshInv ==
    \A k \in Tasks :
      tpc[k] \in Settled =>
        got[k] = inner \/ seen[k] < generation \/ \E w \in Writers : InFlight(w)

\* Changes never leaves a task caught up on a superseded snapshot.
THEOREM CaughtUpIsFreshCorrect == Spec => []CaughtUpIsFresh
<1>1. Init => FreshInv
  BY DEF Init, FreshInv, Settled
<1>2. TypeOK /\ ValueInv /\ FreshInv /\ [Next]_vars => FreshInv'
  <2> SUFFICES ASSUME TypeOK, ValueInv, FreshInv, [Next]_vars PROVE FreshInv'
    OBVIOUS
  <2> USE DEF WriterGoes, TaskGoes, InFlight, Settled
  <2>1. ASSUME NEW w \in Writers, BeginStore(w) PROVE FreshInv'
    BY <2>1 DEF BeginStore, FreshInv, CellTypeOK, TypeOK, NotifyTypeOK,
        WritersTypeOK, TasksTypeOK
  <2>2. ASSUME NEW w \in Writers, GetOrInit(w) PROVE FreshInv'
    BY <2>2 DEF GetOrInit, FreshInv, CellTypeOK, TypeOK, NotifyTypeOK,
        WritersTypeOK, TasksTypeOK
  <2>3. ASSUME NEW w \in Writers, Swap(w) PROVE FreshInv'
    BY <2>3 DEF Swap, FreshInv, CellTypeOK, TypeOK, NotifyTypeOK,
        WritersTypeOK, TasksTypeOK
  <2>4. ASSUME NEW w \in Writers, Bump(w) PROVE FreshInv'
    BY <2>4 DEF Bump, FreshInv, CellTypeOK, TypeOK, NotifyTypeOK,
        WritersTypeOK, TasksTypeOK, ValueInv
  <2>q1. ASSUME UNCHANGED <<inner, generation, tpc, seen, got>>,
                \A w \in Writers : InFlight(w) => InFlight(w)'
         PROVE  FreshInv'
    BY <2>q1 DEF FreshInv
  <2>5. ASSUME NEW w \in Writers,
               \/ PublishMeta(w) \/ PublishReason(w) \/ ResetFailures(w)
               \/ TakeWaiting(w) \/ Wake(w) \/ WakeDone(w) \/ Dispatch(w)
               \/ RunHook(w) \/ EndStore(w)
        PROVE  FreshInv'
    BY <2>q1, <2>5 DEF PublishMeta, PublishReason, ResetFailures, TakeWaiting,
       Wake, WakeDone, Dispatch, RunHook, EndStore, TypeOK, WritersTypeOK
  <2>6. ASSUME NEW r \in Reporters,
               \/ ReadCount(r) \/ CompareExchange(r) \/ PublishFailure(r)
        PROVE  FreshInv'
    BY <2>6 DEF ReadCount, CompareExchange, PublishFailure, FreshInv,
        CellTypeOK, TypeOK, NotifyTypeOK, WritersTypeOK, TasksTypeOK
  <2>7. ASSUME NEW o \in Owners,
               \/ AllocateToken(o) \/ Register(o) \/ Unregister(o)
        PROVE  FreshInv'
    BY <2>7 DEF AllocateToken, Register, Unregister, FreshInv, CellTypeOK,
        TypeOK, NotifyTypeOK, WritersTypeOK, TasksTypeOK
  <2>8. ASSUME NEW k \in Tasks, Subscribe(k) PROVE FreshInv'
    BY <2>8 DEF Subscribe, FreshInv, CellTypeOK, TypeOK, NotifyTypeOK,
        WritersTypeOK, TasksTypeOK
  <2>9. ASSUME NEW k \in Tasks, ReadCurrent(k) PROVE FreshInv'
    BY <2>9 DEF ReadCurrent, FreshInv, CellTypeOK, TypeOK, NotifyTypeOK,
        WritersTypeOK, TasksTypeOK
  <2>10. ASSUME NEW k \in Tasks, Poll(k) PROVE FreshInv'
    BY <2>10 DEF Poll, FreshInv, CellTypeOK, TypeOK, NotifyTypeOK,
        WritersTypeOK, TasksTypeOK
  <2>11. ASSUME NEW k \in Tasks, Check(k) PROVE FreshInv'
    BY <2>11 DEF Check, Attempt, FreshInv, CellTypeOK, TypeOK, NotifyTypeOK,
        WritersTypeOK, TasksTypeOK, ValueInv
  <2>12. ASSUME NEW k \in Tasks, Load(k) PROVE FreshInv'
    BY <2>12 DEF Load, LoadFor, FreshInv, CellTypeOK, TypeOK, NotifyTypeOK,
        WritersTypeOK, TasksTypeOK, ValueInv
  <2>13. ASSUME NEW k \in Tasks, RegisterWaker(k) PROVE FreshInv'
    BY <2>13 DEF RegisterWaker, FreshInv, CellTypeOK, TypeOK, NotifyTypeOK,
        WritersTypeOK, TasksTypeOK
  <2>14. ASSUME NEW k \in Tasks, Recheck(k) PROVE FreshInv'
    BY <2>14 DEF Recheck, Attempt, FreshInv, CellTypeOK, TypeOK, NotifyTypeOK,
        WritersTypeOK, TasksTypeOK, ValueInv
  <2>15. ASSUME NEW k \in Tasks, Reload(k) PROVE FreshInv'
    BY <2>15 DEF Reload, LoadFor, FreshInv, CellTypeOK, TypeOK, NotifyTypeOK,
        WritersTypeOK, TasksTypeOK, ValueInv
  <2>16. ASSUME NEW k \in Tasks, Cancel(k) PROVE FreshInv'
    BY <2>16 DEF Cancel, FreshInv, CellTypeOK, TypeOK, NotifyTypeOK,
        WritersTypeOK, TasksTypeOK
  <2>17. CASE UNCHANGED vars
    BY <2>17 DEF vars, FreshInv, CellTypeOK, TypeOK, NotifyTypeOK,
        WritersTypeOK, TasksTypeOK
  <2> QED
    BY <2>1, <2>2, <2>3, <2>4, <2>5, <2>6, <2>7, <2>8, <2>9, <2>10, <2>11,
       <2>12, <2>13, <2>14, <2>15, <2>16, <2>17
       DEF Next, StoreStep, PollStep
<1>3. TypeOK /\ FreshInv => CaughtUpIsFresh
  BY DEF FreshInv, CaughtUpIsFresh, Settled, TypeOK, TasksTypeOK, NotifyTypeOK
<1> QED
  BY <1>1, <1>2, <1>3, TypeCorrect, ValueCorrect, PTL DEF Spec

-----------------------------------------------------------------------------
(* Hooks see links of the chain of served values.                          *)

LinkIn(ch, p, c) ==
    \E i \in 1..(Len(ch) - 1) : ch[i] = p /\ ch[i + 1] = c

\* Serving one more value keeps every link and adds the one that ends in it.
LEMMA LinkAppend ==
    ASSUME NEW ch \in Seq(Nat), NEW v \in Nat
    PROVE  /\ \A p, c : LinkIn(ch, p, c) => LinkIn(Append(ch, v), p, c)
           /\ Len(ch) > 0 => LinkIn(Append(ch, v), ch[Len(ch)], v)
<1>1. /\ Len(ch) \in Nat
      /\ Len(Append(ch, v)) = Len(ch) + 1
      /\ \A i \in 1..Len(ch) : Append(ch, v)[i] = ch[i]
      /\ Append(ch, v)[Len(ch) + 1] = v
  BY AppendProperties, LenProperties
<1>2. ASSUME NEW p, NEW c, LinkIn(ch, p, c) PROVE LinkIn(Append(ch, v), p, c)
  BY <1>1, <1>2 DEF LinkIn
<1>3. ASSUME Len(ch) > 0 PROVE LinkIn(Append(ch, v), ch[Len(ch)], v)
  <2>1. Len(ch) \in 1..(Len(Append(ch, v)) - 1)
    BY <1>1, <1>3
  <2>2. Append(ch, v)[Len(ch)] = ch[Len(ch)] /\ Append(ch, v)[Len(ch) + 1] = v
    BY <1>1, <1>3
  <2> QED
    BY <2>1, <2>2 DEF LinkIn
<1> QED
  BY <1>2, <1>3

\* The chain ends in the serving value, and what a store swapped out precedes
\* what it swapped in, from the swap to the last hook.
LinkInv ==
    /\ \/ chain = <<>> /\ inner = None
       \/ Len(chain) > 0 /\ inner = chain[Len(chain)]
    /\ \A w \in Writers :
         wpc[w] \in {"meta", "reason", "reset", "bump", "take", "wake"} =>
           previous[w] = value[w] \/ LinkIn(chain, previous[w], value[w])
    /\ \A w \in Writers :
         wpc[w] \in {"dispatch", "hooks"} =>
           previous[w] = None \/ LinkIn(chain, previous[w], value[w])
    /\ \A c \in told : c.previous = None \/ LinkIn(chain, c.previous, c.current)

\* Every pair a reload hook receives is one link of the chain of values the
\* cell served, even when stores race on a cold cell.
THEOREM PairsAreLinksCorrect == Spec => []PairsAreLinks
<1>1. Init => LinkInv
  BY DEF Init, LinkInv
<1>2. TypeOK /\ ValueInv /\ LinkInv /\ [Next]_vars => LinkInv'
  <2> SUFFICES ASSUME TypeOK, ValueInv, LinkInv, [Next]_vars PROVE LinkInv'
    OBVIOUS
  <2> USE DEF WriterGoes, TaskGoes
  <2>0. chain \in Seq(Nat) /\ \A w \in Writers : value[w] \in Nat
    BY DEF TypeOK, WritersTypeOK, HistoryTypeOK
  <2>1. ASSUME NEW w \in Writers, BeginStore(w) PROVE LinkInv'
    BY <2>1 DEF BeginStore, LinkInv, TypeOK, CellTypeOK, WritersTypeOK,
        HistoryTypeOK
  <2>2. ASSUME NEW w \in Writers, GetOrInit(w) PROVE LinkInv'
    <3>1. CASE inner = None
      <4>1. chain' = Append(chain, value[w]) /\ inner' = value[w] /\ told' = told
        BY <2>2, <3>1 DEF GetOrInit
      <4>2. Len(chain') > 0 /\ inner' = chain'[Len(chain')]
        BY <4>1, <2>0, AppendProperties
      <4>3. \A p, c : LinkIn(chain, p, c) => LinkIn(chain', p, c)
        BY <4>1, <2>0, LinkAppend
      <4> QED
        BY <2>2, <4>1, <4>2, <4>3 DEF GetOrInit, LinkInv, TypeOK, WritersTypeOK
    <3>2. CASE inner # None
      BY <2>2, <3>2 DEF GetOrInit, LinkInv, TypeOK, WritersTypeOK
    <3> QED
      BY <3>1, <3>2
  <2>3. ASSUME NEW w \in Writers, Swap(w) PROVE LinkInv'
    <3>1. inner # None /\ Len(chain) > 0 /\ inner = chain[Len(chain)]
      BY <2>3 DEF Swap, ValueInv, LinkInv
    <3>2. CASE inner = value[w]
      BY <2>3, <3>1, <3>2 DEF Swap, LinkInv, TypeOK, WritersTypeOK
    <3>3. CASE inner # value[w]
      <4>1. chain' = Append(chain, value[w]) /\ inner' = value[w] /\ told' = told
        BY <2>3, <3>3 DEF Swap
      <4>2. Len(chain') > 0 /\ inner' = chain'[Len(chain')]
        BY <4>1, <2>0, AppendProperties
      <4>3. \A p, c : LinkIn(chain, p, c) => LinkIn(chain', p, c)
        BY <4>1, <2>0, LinkAppend
      <4>4. LinkIn(chain', inner, value[w])
        BY <4>1, <3>1, <2>0, LinkAppend
      <4> QED
        BY <2>3, <4>1, <4>2, <4>3, <4>4 DEF Swap, LinkInv, TypeOK,
           WritersTypeOK
    <3> QED
      BY <3>2, <3>3
  <2>4. ASSUME NEW w \in Writers, WakeDone(w) PROVE LinkInv'
    BY <2>4 DEF WakeDone, LinkInv, TypeOK, CellTypeOK, WritersTypeOK,
        HistoryTypeOK, PreviousOf
  <2>5. ASSUME NEW w \in Writers, RunHook(w) PROVE LinkInv'
    BY <2>5 DEF RunHook, LinkInv, TypeOK, CellTypeOK, WritersTypeOK,
        HistoryTypeOK, Call, Fires
  <2>6. ASSUME NEW w \in Writers, EndStore(w) PROVE LinkInv'
    BY <2>6 DEF EndStore, LinkInv, TypeOK, CellTypeOK, WritersTypeOK,
        HistoryTypeOK
  <2>q1. ASSUME UNCHANGED <<inner, chain, told, previous, value>>,
               \A w \in Writers :
                 \/ wpc'[w] = wpc[w]
                 \/ /\ wpc[w] \in {"meta", "reason", "reset", "bump", "take"}
                    /\ wpc'[w] \in {"reason", "reset", "bump", "take", "wake"}
                 \/ wpc[w] = "dispatch" /\ wpc'[w] = "hooks"
        PROVE  LinkInv'
    BY <2>q1 DEF LinkInv
  <2>7. ASSUME NEW w \in Writers,
               \/ PublishMeta(w) \/ PublishReason(w) \/ ResetFailures(w)
               \/ Bump(w) \/ TakeWaiting(w)
        PROVE  LinkInv'
    BY <2>q1, <2>7 DEF PublishMeta, PublishReason, ResetFailures, Bump,
       TakeWaiting, TypeOK, WritersTypeOK
  <2>8. ASSUME NEW w \in Writers, Wake(w) \/ Dispatch(w) PROVE LinkInv'
    BY <2>q1, <2>8 DEF Wake, Dispatch, TypeOK, WritersTypeOK
  <2>9. ASSUME NEW r \in Reporters,
               ReadCount(r) \/ CompareExchange(r) \/ PublishFailure(r)
        PROVE  LinkInv'
    BY <2>q1, <2>9 DEF ReadCount, CompareExchange, PublishFailure
  <2>10. ASSUME NEW o \in Owners,
                AllocateToken(o) \/ Register(o) \/ Unregister(o)
         PROVE  LinkInv'
    BY <2>q1, <2>10 DEF AllocateToken, Register, Unregister
  <2>11. ASSUME NEW k \in Tasks,
                Subscribe(k) \/ ReadCurrent(k) \/ Poll(k) \/ PollStep(k) \/ Cancel(k)
         PROVE  LinkInv'
    BY <2>q1, <2>11 DEF Subscribe, ReadCurrent, Poll, PollStep, Check, Load,
       RegisterWaker, Recheck, Reload, Cancel, Attempt, LoadFor
  <2>12. CASE UNCHANGED vars
    BY <2>q1, <2>12 DEF vars
  <2> QED
    BY <2>1, <2>2, <2>3, <2>4, <2>5, <2>6, <2>7, <2>8, <2>9, <2>10, <2>11,
       <2>12
       DEF Next, StoreStep
<1>3. LinkInv => PairsAreLinks
  BY DEF LinkInv, PairsAreLinks, LinkIn
<1> QED
  BY <1>1, <1>2, <1>3, TypeCorrect, ValueCorrect, PTL DEF Spec

-----------------------------------------------------------------------------
(* Generations name installs.                                              *)

Stamped == {"reason", "reset", "bump", "take", "wake", "dispatch", "hooks"}

\* Stores in progress hold snapshots of their own, and a store that has no
\* generation yet has told no hook.
SnapshotsDistinct ==
    /\ \A w \in Writers : wpc[w] # "idle" => value[w] <= arcs
    /\ \A v, w \in Writers :
         v # w /\ wpc[v] # "idle" /\ wpc[w] # "idle" => value[v] # value[w]
    /\ \A c \in told : c.current <= arcs
    /\ \A c \in told, w \in Writers :
         wpc[w] # "idle" /\ wpc[w] \notin Stamped => c.current # value[w]

\* No two of them hold the same generation, and none holds one above meta's.
StampsDistinct ==
    /\ \A w \in Writers : wpc[w] \in Stamped => stamp[w] <= meta.generation
    /\ \A v, w \in Writers :
         v # w /\ wpc[v] \in Stamped /\ wpc[w] \in Stamped => stamp[v] # stamp[w]
    /\ \A c \in told : c.generation <= meta.generation

\* A call carries a store's generation exactly when it carries its snapshot.
CallsMatchStores ==
    \A c \in told, w \in Writers :
      wpc[w] \in Stamped => (c.generation = stamp[w] <=> c.current = value[w])

GenerationInv ==
    /\ SnapshotsDistinct
    /\ StampsDistinct
    /\ CallsMatchStores
    /\ GenerationNamesInstall

\* The generation a hook is handed identifies the install it is told of.
THEOREM GenerationNamesInstallCorrect == Spec => []GenerationNamesInstall
<1>1. Init => GenerationInv
  BY DEF Init, GenerationInv, Stamped, SnapshotsDistinct, StampsDistinct,
         CallsMatchStores, GenerationNamesInstall
<1>2. TypeOK /\ GenerationInv /\ [Next]_vars => GenerationInv'
  <2> SUFFICES ASSUME TypeOK, GenerationInv, [Next]_vars PROVE GenerationInv'
    OBVIOUS
  <2> USE DEF WriterGoes, TaskGoes, Stamped, GenerationInv
  <2>0. \A c \in told : c.current \in Nat /\ c.generation \in Nat
    BY DEF TypeOK, HistoryTypeOK
  <2>1. ASSUME UNCHANGED <<arcs, meta, value, stamp, told>>,
               \A w \in Writers : (wpc'[w] = "idle" <=> wpc[w] = "idle")
                               /\ (wpc'[w] \in Stamped <=> wpc[w] \in Stamped)
        PROVE  GenerationInv'
    <3>1. SnapshotsDistinct'
      BY <2>1 DEF SnapshotsDistinct
    <3>2. StampsDistinct'
      BY <2>1 DEF StampsDistinct
    <3>3. CallsMatchStores'
      BY <2>1 DEF CallsMatchStores
    <3> QED
      BY <2>1, <3>1, <3>2, <3>3 DEF GenerationNamesInstall
  <2>2. ASSUME NEW w \in Writers, BeginStore(w) PROVE GenerationInv'
    <3>1. SnapshotsDistinct'
      <4>1. /\ told' = told /\ arcs \in Nat /\ arcs' = arcs + 1
            /\ value \in [Writers -> Nat]
            /\ value' = [value EXCEPT ![w] = arcs + 1]
            /\ DOMAIN wpc = Writers /\ wpc' = [wpc EXCEPT ![w] = "init"]
        BY <2>2 DEF BeginStore, TypeOK, WritersTypeOK
      <4>2. \A v \in Writers : wpc'[v] # "idle" =>
              \/ v = w /\ value'[v] = arcs + 1
              \/ v # w /\ value'[v] = value[v] /\ wpc'[v] = wpc[v]
        BY <4>1
      <4> QED
        BY <2>0, <4>1, <4>2 DEF SnapshotsDistinct
    <3>2. StampsDistinct'
      BY <2>2 DEF BeginStore, StampsDistinct, TypeOK, WritersTypeOK
    <3>3. CallsMatchStores'
      BY <2>2 DEF BeginStore, CallsMatchStores, TypeOK, WritersTypeOK
    <3> QED
      BY <2>2, <3>1, <3>2, <3>3 DEF BeginStore, GenerationNamesInstall
  <2>3. ASSUME NEW w \in Writers, PublishMeta(w) PROVE GenerationInv'
    <3>1. /\ meta'.generation = meta.generation + 1
          /\ stamp' = [stamp EXCEPT ![w] = meta.generation + 1]
          /\ meta.generation \in Nat
      BY <2>3 DEF PublishMeta, NextMeta, TypeOK, CellTypeOK
    <3>2. SnapshotsDistinct'
      BY <2>3 DEF PublishMeta, SnapshotsDistinct, TypeOK, WritersTypeOK
    <3>3. /\ UNCHANGED <<told, value>> /\ wpc[w] = "meta"
          /\ wpc' = [wpc EXCEPT ![w] = "reason"]
          /\ DOMAIN wpc = Writers /\ stamp \in [Writers -> Nat]
      BY <2>3 DEF PublishMeta, TypeOK, WritersTypeOK
    <3>4. StampsDistinct'
      <4>1. \A v \in Writers : wpc'[v] \in Stamped =>
              \/ v = w /\ stamp'[v] = meta.generation + 1
              \/ v # w /\ wpc[v] \in Stamped /\ stamp'[v] = stamp[v]
        BY <3>1, <3>3
      <4> QED
        BY <2>0, <3>1, <3>3, <4>1 DEF StampsDistinct
    <3>5. CallsMatchStores'
      BY <2>0, <3>1, <3>3 DEF CallsMatchStores, StampsDistinct,
         SnapshotsDistinct
    <3> QED
      BY <3>2, <3>3, <3>4, <3>5 DEF GenerationNamesInstall
  <2>4. ASSUME NEW w \in Writers, RunHook(w) PROVE GenerationInv'
    <3>1. UNCHANGED <<arcs, wpc, meta, value, stamp>>
      BY <2>4 DEF RunHook
    <3>2. \A c \in told' : c \in told
             \/ (c.generation = stamp[w] /\ c.current = value[w])
      BY <2>4 DEF RunHook, Call
    <3>3. wpc[w] \in Stamped
      BY <2>4 DEF RunHook
    <3>4. SnapshotsDistinct'
      BY <3>1, <3>2, <3>3 DEF SnapshotsDistinct
    <3>5. StampsDistinct'
      BY <3>1, <3>2, <3>3 DEF StampsDistinct
    <3>6. CallsMatchStores'
      BY <3>1, <3>2, <3>3 DEF CallsMatchStores, StampsDistinct,
         SnapshotsDistinct
    <3>7. GenerationNamesInstall'
      BY <3>2, <3>3 DEF CallsMatchStores, GenerationNamesInstall
    <3> QED
      BY <3>4, <3>5, <3>6, <3>7
  <2>5. ASSUME NEW w \in Writers, EndStore(w) PROVE GenerationInv'
    <3>1. SnapshotsDistinct'
      BY <2>5 DEF EndStore, SnapshotsDistinct, TypeOK, WritersTypeOK
    <3>2. StampsDistinct'
      BY <2>5 DEF EndStore, StampsDistinct, TypeOK, WritersTypeOK
    <3>3. CallsMatchStores'
      BY <2>5 DEF EndStore, CallsMatchStores, TypeOK, WritersTypeOK
    <3> QED
      BY <2>5, <3>1, <3>2, <3>3 DEF EndStore, GenerationNamesInstall
  <2>6. ASSUME NEW w \in Writers,
               \/ GetOrInit(w) \/ Swap(w) \/ PublishReason(w)
               \/ ResetFailures(w) \/ Bump(w) \/ TakeWaiting(w) \/ Wake(w)
               \/ WakeDone(w) \/ Dispatch(w)
        PROVE  GenerationInv'
    BY <2>1, <2>6 DEF GetOrInit, Swap, PublishReason, ResetFailures, Bump,
       TakeWaiting, Wake, WakeDone, Dispatch, TypeOK, WritersTypeOK
  <2>7. ASSUME NEW r \in Reporters,
               ReadCount(r) \/ CompareExchange(r) \/ PublishFailure(r)
        PROVE  GenerationInv'
    BY <2>1, <2>7 DEF ReadCount, CompareExchange, PublishFailure
  <2>8. ASSUME NEW o \in Owners,
               AllocateToken(o) \/ Register(o) \/ Unregister(o)
        PROVE  GenerationInv'
    BY <2>1, <2>8 DEF AllocateToken, Register, Unregister
  <2>9. ASSUME NEW k \in Tasks,
               Subscribe(k) \/ ReadCurrent(k) \/ Poll(k) \/ PollStep(k) \/ Cancel(k)
        PROVE  GenerationInv'
    BY <2>1, <2>9 DEF Subscribe, ReadCurrent, Poll, PollStep, Check, Load,
       RegisterWaker, Recheck, Reload, Cancel, Attempt, LoadFor
  <2>10. CASE UNCHANGED vars
    BY <2>1, <2>10 DEF vars
  <2> QED
    BY <2>2, <2>3, <2>4, <2>5, <2>6, <2>7, <2>8, <2>9, <2>10
       DEF Next, StoreStep
<1>3. GenerationInv => GenerationNamesInstall
  BY DEF GenerationInv
<1> QED
  BY <1>1, <1>2, <1>3, TypeCorrect, PTL DEF Spec

\* Overlapping stores never make the published generation go backwards.
THEOREM GenerationNeverBackwardsCorrect == Spec => GenerationNeverBackwards
<1>1. TypeOK /\ [Next]_vars => [meta'.generation >= meta.generation]_vars
  <2> SUFFICES ASSUME TypeOK, [Next]_vars
               PROVE  meta'.generation >= meta.generation
    OBVIOUS
  <2>1. ASSUME NEW w \in Writers, PublishMeta(w) PROVE meta'.generation >= meta.generation
    BY <2>1 DEF PublishMeta, NextMeta, TypeOK, CellTypeOK
  <2>2. ASSUME NEW w \in Writers,
               \/ BeginStore(w) \/ GetOrInit(w) \/ Swap(w) \/ PublishReason(w)
               \/ ResetFailures(w) \/ Bump(w) \/ TakeWaiting(w) \/ Wake(w)
               \/ WakeDone(w) \/ Dispatch(w) \/ RunHook(w) \/ EndStore(w)
        PROVE  meta'.generation >= meta.generation
    BY <2>2 DEF BeginStore, GetOrInit, Swap, PublishReason, ResetFailures,
        Bump, TakeWaiting, Wake, WakeDone, Dispatch, RunHook, EndStore,
        TypeOK, CellTypeOK
  <2>3. ASSUME NEW r \in Reporters,
               \/ ReadCount(r) \/ CompareExchange(r) \/ PublishFailure(r)
        PROVE  meta'.generation >= meta.generation
    BY <2>3 DEF ReadCount, CompareExchange, PublishFailure, TypeOK, CellTypeOK
  <2>4. ASSUME NEW o \in Owners,
               \/ AllocateToken(o) \/ Register(o) \/ Unregister(o)
        PROVE  meta'.generation >= meta.generation
    BY <2>4 DEF AllocateToken, Register, Unregister, TypeOK, CellTypeOK
  <2>5. ASSUME NEW k \in Tasks,
               \/ Subscribe(k) \/ ReadCurrent(k) \/ Poll(k) \/ Check(k)
               \/ Load(k) \/ RegisterWaker(k) \/ Recheck(k) \/ Reload(k)
               \/ Cancel(k)
        PROVE  meta'.generation >= meta.generation
    BY <2>5 DEF Subscribe, ReadCurrent, Poll, Check, Load, RegisterWaker,
        Recheck, Reload, Cancel, Attempt, LoadFor, TypeOK, CellTypeOK
  <2>6. CASE UNCHANGED vars
    BY <2>6 DEF vars, TypeOK, CellTypeOK
  <2> QED
    BY <2>1, <2>2, <2>3, <2>4, <2>5, <2>6
       DEF Next, StoreStep, PollStep
<1> QED
  BY <1>1, TypeCorrect, PTL DEF Spec, GenerationNeverBackwards

-----------------------------------------------------------------------------
(* The failure counter.                                                    *)

\* A reporter inside its loop holds a count below the limit.
FailureInv ==
    /\ FailuresCounted
    /\ \A r \in Reporters : rpc[r] = "cas" => count[r] < CounterMax

\* The compare-exchange loop loses no failure to a racing one, and an install
\* ends the streak.
THEOREM FailuresCountedCorrect == Spec => []FailuresCounted
<1> USE BoundsAreNaturals
<1>1. Init => FailureInv
  BY DEF Init, FailureInv, FailuresCounted
<1>2. TypeOK /\ FailureInv /\ [Next]_vars => FailureInv'
  <2> SUFFICES ASSUME TypeOK, FailureInv, [Next]_vars PROVE FailureInv'
    OBVIOUS
  <2> USE DEF WriterGoes, TaskGoes, FailuresCounted, AfterCount
  <2>1. ASSUME NEW w \in Writers, ResetFailures(w) PROVE FailureInv'
    BY <2>1 DEF ResetFailures, FailureInv, TypeOK, CellTypeOK,
        ReportersTypeOK, HistoryTypeOK
  <2>2. ASSUME NEW w \in Writers,
               \/ BeginStore(w) \/ GetOrInit(w) \/ Swap(w) \/ PublishMeta(w)
               \/ PublishReason(w) \/ Bump(w) \/ TakeWaiting(w) \/ Wake(w)
               \/ WakeDone(w) \/ Dispatch(w) \/ RunHook(w) \/ EndStore(w)
        PROVE  FailureInv'
    BY <2>2 DEF BeginStore, GetOrInit, Swap, PublishMeta, PublishReason, Bump,
        TakeWaiting, Wake, WakeDone, Dispatch, RunHook, EndStore, FailureInv,
        TypeOK, CellTypeOK, ReportersTypeOK, HistoryTypeOK
  <2>3. ASSUME NEW r \in Reporters, ReadCount(r) PROVE FailureInv'
    BY <2>3 DEF ReadCount, FailureInv, TypeOK, CellTypeOK, ReportersTypeOK,
        HistoryTypeOK
  <2>4. ASSUME NEW r \in Reporters, CompareExchange(r) PROVE FailureInv'
    BY <2>4 DEF CompareExchange, FailureInv, TypeOK, CellTypeOK,
        ReportersTypeOK, HistoryTypeOK
  <2>5. ASSUME NEW r \in Reporters, PublishFailure(r) PROVE FailureInv'
    BY <2>5 DEF PublishFailure, FailureInv, TypeOK, CellTypeOK,
        ReportersTypeOK, HistoryTypeOK
  <2>6. ASSUME NEW o \in Owners,
               \/ AllocateToken(o) \/ Register(o) \/ Unregister(o)
        PROVE  FailureInv'
    BY <2>6 DEF AllocateToken, Register, Unregister, FailureInv, TypeOK,
        CellTypeOK, ReportersTypeOK, HistoryTypeOK
  <2>7. ASSUME NEW k \in Tasks,
               \/ Subscribe(k) \/ ReadCurrent(k) \/ Poll(k) \/ Check(k)
               \/ Load(k) \/ RegisterWaker(k) \/ Recheck(k) \/ Reload(k)
               \/ Cancel(k)
        PROVE  FailureInv'
    BY <2>7 DEF Subscribe, ReadCurrent, Poll, Check, Load, RegisterWaker,
        Recheck, Reload, Cancel, Attempt, LoadFor, FailureInv, TypeOK,
        CellTypeOK, ReportersTypeOK, HistoryTypeOK
  <2>8. CASE UNCHANGED vars
    BY <2>8 DEF vars, FailureInv, TypeOK, CellTypeOK, ReportersTypeOK,
        HistoryTypeOK
  <2> QED
    BY <2>1, <2>2, <2>3, <2>4, <2>5, <2>6, <2>7, <2>8
       DEF Next, StoreStep, PollStep
<1>3. FailureInv => FailuresCounted
  BY DEF FailureInv
<1> QED
  BY <1>1, <1>2, <1>3, TypeCorrect, PTL DEF Spec

\* For any number of stores and hooks: what a hook is handed is one link of the
\* chain of installs, under the generation that names it (ConfigCell::store).
THEOREM HookCallsAreTrueCorrect == Spec => []HookCallsAreTrue
BY PairsAreLinksCorrect, GenerationNamesInstallCorrect, PTL DEF HookCallsAreTrue

\* For any number of tasks and stores: no wake-up is lost, no task is woken for
\* nothing, and one that has caught up holds what is served (Changes::changed).
THEOREM TasksFollowChangesCorrect == Spec => []TasksFollowChanges
BY NoLostWakeupCorrect, ConsumedMoveHasValueCorrect, CaughtUpIsFreshCorrect, PTL
   DEF TasksFollowChanges

-----------------------------------------------------------------------------
(* Dispatch.                                                               *)

\* What Unregister leaves of the hook list was in it.
LEMMA WithoutIndexKeeps ==
    ASSUME NEW S, NEW s \in Seq(S), NEW i \in 1..Len(s)
    PROVE  \A j \in 1..Len(WithoutIndex(s, i)) :
             \E m \in 1..Len(s) : WithoutIndex(s, i)[j] = s[m]
<1>. DEFINE before == SubSeq(s, 1, i - 1)
            after == SubSeq(s, i + 1, Len(s))
<1>1. Len(s) \in Nat /\ i \in Nat /\ 1 <= i /\ i <= Len(s)
  BY LenProperties
<1>2. /\ before \in Seq(S) /\ Len(before) = i - 1
      /\ \A j \in 1..(i - 1) : before[j] = s[j]
  BY <1>1, SubSeqProperties, ElementOfSeq
<1>3. /\ after \in Seq(S) /\ Len(after) = Len(s) - i
      /\ \A j \in 1..(Len(s) - i) : after[j] = s[i + j]
  BY <1>1, SubSeqProperties, ElementOfSeq
<1>4. WithoutIndex(s, i) = before \o after
  BY DEF WithoutIndex
<1>. HIDE DEF before, after
<1>5. /\ Len(before \o after) = Len(s) - 1
      /\ \A j \in 1..(Len(s) - 1) :
           (before \o after)[j] = IF j <= i - 1 THEN before[j] ELSE after[j - (i - 1)]
  <2>1. /\ Len(before \o after) = Len(before) + Len(after)
        /\ \A j \in 1..(Len(before) + Len(after)) :
             (before \o after)[j] =
               IF j <= Len(before) THEN before[j] ELSE after[j - Len(before)]
    BY <1>2, <1>3, ConcatProperties
  <2>2. (i - 1) + (Len(s) - i) = Len(s) - 1
    BY <1>1
  <2>. QED BY <2>1, <2>2, <1>2, <1>3
<1>6. ASSUME NEW j \in 1..(Len(s) - 1)
      PROVE  \E m \in 1..Len(s) : (before \o after)[j] = s[m]
  <2>1. CASE j <= i - 1
    BY <2>1, <1>1, <1>2, <1>5
  <2>2. CASE ~(j <= i - 1)
    <3>1. j - (i - 1) \in 1..(Len(s) - i) /\ i + (j - (i - 1)) = j + 1
      BY <2>2, <1>1
    <3>2. (before \o after)[j] = s[j + 1]
      BY <2>2, <3>1, <1>3, <1>5
    <3>. QED BY <3>2, <1>1
  <2>. QED BY <2>1, <2>2
<1>. QED BY <1>4, <1>5, <1>6

\* The hook of an owner that has registered it, now or before.
OfAnOwner(hook) ==
    \E o \in Owners : opc[o] \in {"held", "dropped"} /\ hook.token = token[o]

\* Tokens are handed out once, so a hook that is gone does not come back.
TokensAreFresh ==
    /\ \A o \in Owners : opc[o] # "none" => token[o] < nextToken
    /\ \A o, p \in Owners :
         o # p /\ opc[o] # "none" /\ opc[p] # "none" => token[o] # token[p]

HooksHaveOwners ==
    /\ \A i \in 1..Len(hooks) : OfAnOwner(hooks[i])
    /\ \A w \in Writers : \A i \in 1..Len(owed[w]) : OfAnOwner(owed[w][i])

\* A hook that a store owes a call, and that is still registered, is still to
\* be called or has been.
CalledOrToDo(w, hook) ==
    \/ \E m \in 1..Len(todo[w]) : todo[w][m] = hook
    \/ Fires(w, hook) => Call(w, hook) \in told

OwedIsPaid ==
    \A w \in Writers : wpc[w] = "hooks" =>
      \A i \in 1..Len(owed[w]) : \A j \in 1..Len(hooks) :
        hooks[j] = owed[w][i] => CalledOrToDo(w, owed[w][i])

DispatchInv == TokensAreFresh /\ HooksHaveOwners /\ OwedIsPaid

\* What a step keeps that touches no hook and leaves a dispatch alone.
LEMMA DispatchUntouched ==
    ASSUME DispatchInv, UNCHANGED <<hookVars, todo, told>>,
           \A w \in Writers :
             /\ owed'[w] \in {owed[w], hooks, <<>>}
             /\ wpc'[w] = "hooks" =>
                  /\ wpc[w] = "hooks"
                  /\ owed'[w] = owed[w] /\ previous'[w] = previous[w]
                  /\ value'[w] = value[w] /\ stamp'[w] = stamp[w]
    PROVE  DispatchInv'
<1>1. TokensAreFresh'
  BY DEF DispatchInv, TokensAreFresh
<1>2. HooksHaveOwners'
  <2>1. \A i \in 1..Len(hooks') : OfAnOwner(hooks[i])'
    BY DEF DispatchInv, HooksHaveOwners, OfAnOwner
  <2>2. ASSUME NEW w \in Writers, NEW i \in 1..Len(owed'[w])
        PROVE  OfAnOwner(owed[w][i])'
    <3>1. OfAnOwner(owed'[w][i])
      BY <2>2 DEF DispatchInv, HooksHaveOwners
    <3>. QED BY <3>1 DEF OfAnOwner
  <2>. QED BY <2>1, <2>2 DEF HooksHaveOwners
<1>3. OwedIsPaid'
  <2>. SUFFICES ASSUME NEW w \in Writers, wpc'[w] = "hooks",
                       NEW i \in 1..Len(owed'[w]), NEW j \in 1..Len(hooks'),
                       hooks'[j] = owed'[w][i]
                PROVE  CalledOrToDo(w, owed[w][i])'
    BY DEF OwedIsPaid
  <2>1. CalledOrToDo(w, owed[w][i])
    BY DEF DispatchInv, OwedIsPaid
  <2>. QED BY <2>1 DEF CalledOrToDo, Fires, Call
<1>. QED BY <1>1, <1>2, <1>3 DEF DispatchInv

\* A hook registered throughout a store is called by it, past hooks that panic
\* and whoever registers and drops hooks meanwhile (ConfigCell::dispatch).
THEOREM RegisteredHooksToldCorrect == Spec => []RegisteredHooksTold
<1>1. Init => DispatchInv
  BY DEF Init, DispatchInv, TokensAreFresh, HooksHaveOwners, OwedIsPaid
<1>2. TypeOK /\ DispatchInv /\ [Next]_vars => DispatchInv'
  <2>. SUFFICES ASSUME TypeOK, DispatchInv, [Next]_vars PROVE DispatchInv'
    OBVIOUS
  <2>. USE DEF WriterGoes, TaskGoes
  <2>0. /\ wpc \in [Writers -> WriterPc] /\ owed \in [Writers -> Seq(Hook)]
        /\ value \in [Writers -> Nat] /\ previous \in [Writers -> Nat]
        /\ stamp \in [Writers -> Nat] /\ todo \in [Writers -> Seq(Hook)]
        /\ hooks \in Seq(Hook) /\ nextToken \in Nat /\ token \in [Owners -> Nat]
        /\ opc \in [Owners -> {"none", "token", "held", "dropped"}]
    BY DEF TypeOK, WritersTypeOK, HooksTypeOK
  <2>1. ASSUME NEW w \in Writers, BeginStore(w) \/ EndStore(w) PROVE DispatchInv'
    BY <2>0, <2>1, DispatchUntouched DEF BeginStore, EndStore
  <2>2. ASSUME NEW w \in Writers,
               \/ GetOrInit(w) \/ Swap(w) \/ PublishMeta(w) \/ PublishReason(w)
               \/ ResetFailures(w) \/ Bump(w) \/ TakeWaiting(w) \/ Wake(w)
               \/ WakeDone(w)
        PROVE  DispatchInv'
    BY <2>0, <2>2, DispatchUntouched
       DEF GetOrInit, Swap, PublishMeta, PublishReason, ResetFailures, Bump,
           TakeWaiting, Wake, WakeDone
  <2>3. ASSUME NEW w \in Writers, Dispatch(w) PROVE DispatchInv'
    <3>1. TokensAreFresh' /\ HooksHaveOwners'
      BY <2>3 DEF Dispatch, DispatchInv, TokensAreFresh, HooksHaveOwners, OfAnOwner
    <3>2. ASSUME NEW v \in Writers, wpc'[v] = "hooks",
                 NEW i \in 1..Len(owed[v]), NEW j \in 1..Len(hooks),
                 hooks[j] = owed[v][i]
          PROVE  CalledOrToDo(v, owed[v][i])'
      <4>1. CASE v = w
        <5>1. todo'[v] = hooks /\ owed' = owed
          BY <4>1, <2>0, <2>3 DEF Dispatch
        <5>. QED BY <5>1, <3>2 DEF CalledOrToDo
      <4>2. CASE v # w
        <5>1. wpc[v] = "hooks" /\ todo'[v] = todo[v]
          BY <4>2, <3>2, <2>0, <2>3 DEF Dispatch
        <5>2. CalledOrToDo(v, owed[v][i])
          BY <5>1, <3>2 DEF DispatchInv, OwedIsPaid
        <5>. QED BY <5>1, <5>2, <2>3 DEF Dispatch, CalledOrToDo, Fires, Call
      <4>. QED BY <4>1, <4>2
    <3>3. OwedIsPaid'
      BY <3>2, <2>3 DEF OwedIsPaid, Dispatch
    <3>. QED BY <3>1, <3>3 DEF DispatchInv
  <2>4. ASSUME NEW w \in Writers, RunHook(w) PROVE DispatchInv'
    <3>1. TokensAreFresh' /\ HooksHaveOwners'
      BY <2>4 DEF RunHook, DispatchInv, TokensAreFresh, HooksHaveOwners, OfAnOwner
    <3>2. /\ todo'[w] = Tail(todo[w])
          /\ \A v \in Writers : v # w => todo'[v] = todo[v]
          /\ UNCHANGED <<hooks, owed, wpc, value, previous, stamp>>
          /\ told \subseteq told'
          /\ Fires(w, Head(todo[w])) => Call(w, Head(todo[w])) \in told'
      BY <2>0, <2>4 DEF RunHook, AfterHook
    <3>3. ASSUME NEW v \in Writers, wpc'[v] = "hooks",
                 NEW i \in 1..Len(owed[v]), NEW j \in 1..Len(hooks),
                 hooks[j] = owed[v][i]
          PROVE  CalledOrToDo(v, owed[v][i])'
      <4>. DEFINE hook == owed[v][i]
      <4>1. CalledOrToDo(v, hook)
        BY <3>2, <3>3 DEF DispatchInv, OwedIsPaid
      <4>. HIDE DEF hook
      <4>2. CASE Fires(v, hook) => Call(v, hook) \in told
        BY <4>2, <3>2 DEF CalledOrToDo, Fires, Call, hook
      <4>3. CASE \E m \in 1..Len(todo[v]) : todo[v][m] = hook
        <5>1. PICK m \in 1..Len(todo[v]) : todo[v][m] = hook
          BY <4>3
        <5>2. CASE v # w
          BY <5>1, <5>2, <3>2 DEF CalledOrToDo, hook
        <5>3. CASE v = w /\ m = 1
          <6>1. Head(todo[w]) = hook
            BY <5>1, <5>3, <2>0
          <6>. QED BY <6>1, <5>3, <3>2 DEF CalledOrToDo, Fires, Call, hook
        <5>4. CASE v = w /\ m # 1
          <6>1. /\ Len(todo[w]) \in Nat /\ Len(Tail(todo[w])) = Len(todo[w]) - 1
                /\ \A n \in 1..Len(Tail(todo[w])) : Tail(todo[w])[n] = todo[w][n + 1]
            BY <2>0, <2>4, HeadTailProperties, LenProperties DEF RunHook
          <6>2. m - 1 \in 1..Len(Tail(todo[w])) /\ (m - 1) + 1 = m
            BY <6>1, <5>4
          <6>3. todo'[v][m - 1] = hook
            BY <6>1, <6>2, <5>1, <5>4, <3>2
          <6>. QED BY <6>2, <6>3, <5>4, <3>2 DEF CalledOrToDo, hook
        <5>. QED BY <5>2, <5>3, <5>4
      <4>. QED BY <4>1, <4>2, <4>3 DEF CalledOrToDo
    <3>4. OwedIsPaid'
      BY <3>2, <3>3 DEF OwedIsPaid
    <3>. QED BY <3>1, <3>4 DEF DispatchInv
  <2>5. ASSUME NEW o \in Owners, AllocateToken(o) PROVE DispatchInv'
    <3>1. /\ opc[o] = "none" /\ opc' = [opc EXCEPT ![o] = "token"]
          /\ token' = [token EXCEPT ![o] = nextToken] /\ nextToken' = nextToken + 1
          /\ UNCHANGED <<hooks, owed, todo, told, wpc, value, previous, stamp>>
      BY <2>5 DEF AllocateToken
    <3>2. TokensAreFresh'
      <4>1. \A p \in Owners : opc'[p] # "none" =>
              \/ p = o /\ token'[p] = nextToken
              \/ p # o /\ opc[p] # "none" /\ token'[p] = token[p]
        BY <3>1, <2>0
      <4>2. \A p \in Owners : opc[p] # "none" => token[p] < nextToken /\ token[p] \in Nat
        BY <2>0 DEF DispatchInv, TokensAreFresh
      <4>3. \A p \in Owners : opc'[p] # "none" => token'[p] < nextToken'
        BY <4>1, <4>2, <3>1, <2>0
      <4>4. \A p, q \in Owners :
              p # q /\ opc'[p] # "none" /\ opc'[q] # "none" => token'[p] # token'[q]
        <5>. SUFFICES ASSUME NEW p \in Owners, NEW q \in Owners, p # q,
                             opc'[p] # "none", opc'[q] # "none",
                             token'[p] = token'[q]
                      PROVE  FALSE
          OBVIOUS
        <5>1. p # o /\ q # o
          BY <4>1, <4>2, <2>0
        <5>. QED BY <5>1, <4>1 DEF DispatchInv, TokensAreFresh
      <4>. QED BY <4>3, <4>4 DEF TokensAreFresh
    <3>3. \A hook : OfAnOwner(hook) => OfAnOwner(hook)'
      BY <3>1, <2>0 DEF OfAnOwner
    <3>4. HooksHaveOwners'
      BY <3>1, <3>3 DEF DispatchInv, HooksHaveOwners
    <3>5. OwedIsPaid'
      BY <3>1 DEF DispatchInv, OwedIsPaid, CalledOrToDo, Fires, Call
    <3>. QED BY <3>2, <3>4, <3>5 DEF DispatchInv
  <2>6. ASSUME NEW o \in Owners, Register(o) PROVE DispatchInv'
    <3>. DEFINE new == [token |-> token[o], form |-> Form(o)]
    <3>1. /\ opc[o] = "token" /\ opc' = [opc EXCEPT ![o] = "held"]
          /\ hooks' = Append(hooks, new)
          /\ UNCHANGED <<token, nextToken, owed, todo, told, wpc, value, previous, stamp>>
      BY <2>6 DEF Register
    <3>2. TokensAreFresh'
      BY <3>1, <2>0 DEF DispatchInv, TokensAreFresh
    <3>3. /\ \A hook : OfAnOwner(hook) => OfAnOwner(hook)'
          /\ OfAnOwner(new)'
      BY <3>1, <2>0 DEF OfAnOwner
    <3>4. \A j \in 1..Len(hooks') :
            hooks'[j] = new \/ (j \in 1..Len(hooks) /\ hooks'[j] = hooks[j])
      BY <3>1, <2>0, AppendProperties, LenProperties
    <3>5. HooksHaveOwners'
      BY <3>1, <3>3, <3>4 DEF DispatchInv, HooksHaveOwners, OfAnOwner
    <3>6. \A w \in Writers : \A i \in 1..Len(owed[w]) : owed[w][i] # new
      <4>. SUFFICES ASSUME NEW w \in Writers, NEW i \in 1..Len(owed[w]),
                           owed[w][i] = new
                    PROVE  FALSE
        OBVIOUS
      <4>1. PICK p \in Owners : opc[p] \in {"held", "dropped"} /\ owed[w][i].token = token[p]
        BY DEF DispatchInv, HooksHaveOwners, OfAnOwner
      <4>2. token[p] = token[o] /\ p # o
        BY <4>1, <3>1
      <4>. QED BY <4>1, <4>2, <3>1 DEF DispatchInv, TokensAreFresh
    <3>7. OwedIsPaid'
      BY <3>1, <3>4, <3>6 DEF DispatchInv, OwedIsPaid, CalledOrToDo, Fires, Call
    <3>. QED BY <3>2, <3>5, <3>7 DEF DispatchInv
  <2>7. ASSUME NEW o \in Owners, Unregister(o) PROVE DispatchInv'
    <3>1. /\ opc[o] = "held" /\ opc' = [opc EXCEPT ![o] = "dropped"]
          /\ UNCHANGED <<token, nextToken, owed, todo, told, wpc, value, previous, stamp>>
      BY <2>7 DEF Unregister
    <3>2. \A j \in 1..Len(hooks') : \E m \in 1..Len(hooks) : hooks'[j] = hooks[m]
      <4>1. PICK i \in 1..Len(hooks) : hooks' = WithoutIndex(hooks, i)
        BY <2>7 DEF Unregister
      <4>. QED BY <2>0, <4>1, WithoutIndexKeeps
    <3>3. TokensAreFresh'
      BY <3>1, <2>0 DEF DispatchInv, TokensAreFresh
    <3>4. \A hook : OfAnOwner(hook) => OfAnOwner(hook)'
      BY <3>1, <2>0 DEF OfAnOwner
    <3>5. HooksHaveOwners'
      BY <3>1, <3>2, <3>4 DEF DispatchInv, HooksHaveOwners
    <3>6. OwedIsPaid'
      BY <3>1, <3>2 DEF DispatchInv, OwedIsPaid, CalledOrToDo, Fires, Call
    <3>. QED BY <3>3, <3>5, <3>6 DEF DispatchInv
  <2>8. ASSUME NEW r \in Reporters,
               ReadCount(r) \/ CompareExchange(r) \/ PublishFailure(r)
        PROVE  DispatchInv'
    BY <2>0, <2>8, DispatchUntouched DEF ReadCount, CompareExchange, PublishFailure
  <2>9. ASSUME NEW k \in Tasks,
               Subscribe(k) \/ ReadCurrent(k) \/ Poll(k) \/ PollStep(k) \/ Cancel(k)
        PROVE  DispatchInv'
    BY <2>0, <2>9, DispatchUntouched
       DEF Subscribe, ReadCurrent, Poll, PollStep, Check, Load, RegisterWaker,
           Recheck, Reload, Cancel, Attempt, LoadFor
  <2>10. CASE UNCHANGED vars
    BY <2>0, <2>10, DispatchUntouched DEF vars
  <2>. QED
    BY <2>1, <2>2, <2>3, <2>4, <2>5, <2>6, <2>7, <2>8, <2>9, <2>10
       DEF Next, StoreStep
<1>3. DispatchInv => RegisteredHooksTold
  BY DEF DispatchInv, OwedIsPaid, CalledOrToDo, RegisteredHooksTold
<1>. QED BY <1>1, <1>2, <1>3, TypeCorrect, PTL DEF Spec

=============================================================================
