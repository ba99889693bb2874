---------------------------- MODULE RemoteProofs ----------------------------
(***************************************************************************)
(* Proofs about Remote, for any number of fetchers, watch loops and other   *)
(* reloading threads, and any bounds.                                       *)
(***************************************************************************)
EXTENDS Remote, TLAPS

USE DEF slotVars, fetchVars, sinkVars, reloadVars, historyVars, Goto

\* Every variable of the slot, its fetchers and its sinks keeps its type;
\* in particular the status counters stay within their width.
THEOREM TypeCorrect == Spec => []TypeOK
<1> USE DEF TypeOK, MaybeDocument, Document
<1>1. Init => TypeOK
  BY BoundsAreNaturals DEF Init, SlotTypeOK, FetchTypeOK, SinkTypeOK, ReloadTypeOK,
     HistoryTypeOK, Fence, NoDocument
<1>2. TypeOK /\ [Next]_vars => TypeOK'
  <2> SUFFICES ASSUME TypeOK, [Next]_vars PROVE TypeOK'
    OBVIOUS
  <2>1. ASSUME NEW kind \in {"blocking", "async"}, Set(kind) PROVE TypeOK'
    <3>1. SlotTypeOK'
      BY <2>1, BoundsAreNaturals DEF Set, SlotTypeOK, FetchTypeOK, SinkTypeOK
    <3> QED
      BY <3>1, <2>1 DEF Set, FetchTypeOK, SinkTypeOK, ReloadTypeOK,
         HistoryTypeOK
  <2>2. ASSUME Clear PROVE TypeOK'
    <3>1. SlotTypeOK'
      BY <2>2, BoundsAreNaturals DEF Clear, SlotTypeOK, FetchTypeOK,
         SinkTypeOK
    <3> QED
      BY <3>1, <2>2 DEF Clear, FetchTypeOK, SinkTypeOK, ReloadTypeOK,
         HistoryTypeOK
  <2>3. ASSUME NEW f \in Fetchers, Refresh(f) PROVE TypeOK'
    <3>1. FetchTypeOK'
      BY <2>3 DEF Refresh, Capture, FenceOf, SlotTypeOK, FetchTypeOK, Fence
    <3>2. HistoryTypeOK'
      BY <2>3 DEF Refresh, Capture, FenceOf, HistoryTypeOK, FetchTypeOK,
         SinkTypeOK
    <3> QED
      BY <3>1, <3>2, <2>3 DEF Refresh, Capture, SlotTypeOK, SinkTypeOK,
         ReloadTypeOK
  <2>4. ASSUME NEW f \in Fetchers, RefreshAsync(f) PROVE TypeOK'
    <3>1. FetchTypeOK'
      BY <2>4 DEF RefreshAsync, Capture, FenceOf, SlotTypeOK, FetchTypeOK,
         Fence
    <3>2. HistoryTypeOK'
      BY <2>4 DEF RefreshAsync, Capture, FenceOf, HistoryTypeOK, FetchTypeOK,
         SinkTypeOK
    <3> QED
      BY <3>1, <3>2, <2>4 DEF RefreshAsync, Capture, SlotTypeOK, SinkTypeOK,
         ReloadTypeOK
  <2>5. ASSUME NEW f \in Fetchers, Abandon(f) PROVE TypeOK'
    <3>1. FetchTypeOK'
      BY <2>5 DEF Abandon, SlotTypeOK, FetchTypeOK, Fence
    <3> QED
      BY <3>1, <2>5 DEF Abandon, SlotTypeOK, SinkTypeOK, ReloadTypeOK,
         HistoryTypeOK
  <2>6. ASSUME NEW f \in Fetchers, Answer(f) PROVE TypeOK'
    <3>1. FetchTypeOK'
      BY <2>6 DEF Answer, SlotTypeOK, FetchTypeOK, Fence
    <3>2. HistoryTypeOK'
      <4>1. fence[f].generation \in Nat
        BY <2>6 DEF FetchTypeOK, Fence
      <4>2. heard' \subseteq Nat
        BY <4>1, <2>6 DEF Answer, HistoryTypeOK
      <4> QED
        BY <4>2, <2>6 DEF Answer, HistoryTypeOK
    <3> QED
      BY <3>1, <3>2, <2>6 DEF Answer, SlotTypeOK, SinkTypeOK, ReloadTypeOK
  <2>7. ASSUME NEW f \in Fetchers, Fail(f) PROVE TypeOK'
    <3>1. FetchTypeOK'
      BY <2>7 DEF Fail, SlotTypeOK, FetchTypeOK, Fence
    <3>2. HistoryTypeOK'
      <4>1. fence[f].generation \in Nat
        BY <2>7 DEF FetchTypeOK, Fence
      <4>2. refused' \subseteq Nat
        BY <4>1, <2>7 DEF Fail, HistoryTypeOK
      <4> QED
        BY <4>2, <2>7 DEF Fail, HistoryTypeOK
    <3> QED
      BY <3>1, <3>2, <2>7 DEF Fail, SlotTypeOK, SinkTypeOK, ReloadTypeOK
  <2>8. ASSUME NEW f \in Fetchers, Commit(f) PROVE TypeOK'
    <3>1. SlotTypeOK'
      BY <2>8, BoundsAreNaturals DEF Commit, FetchedBy, FenceOf, SlotTypeOK,
         FetchTypeOK, SinkTypeOK
    <3>2. FetchTypeOK'
      BY <2>8 DEF Commit, FetchedBy, FenceOf, SlotTypeOK, FetchTypeOK, Fence
    <3> QED
      BY <3>1, <3>2, <2>8 DEF Commit, SinkTypeOK, ReloadTypeOK, HistoryTypeOK
  <2>9. ASSUME NEW f \in Fetchers, RecordFetch(f) PROVE TypeOK'
    <3>1. SlotTypeOK'
      BY <2>9, BoundsAreNaturals DEF RecordFetch, CountFetch, Saturating,
         SlotTypeOK, FetchTypeOK, SinkTypeOK
    <3>2. FetchTypeOK'
      BY <2>9 DEF RecordFetch, CountFetch, Saturating, SlotTypeOK,
         FetchTypeOK, Fence
    <3> QED
      BY <3>1, <3>2, <2>9 DEF RecordFetch, SinkTypeOK, ReloadTypeOK,
         HistoryTypeOK
  <2>10. ASSUME NEW f \in Fetchers, RecordFetchFailure(f) PROVE TypeOK'
    <3>1. SlotTypeOK'
      BY <2>10, BoundsAreNaturals DEF RecordFetchFailure, CountFailure,
         Saturating, SlotTypeOK, FetchTypeOK, SinkTypeOK
    <3>2. FetchTypeOK'
      BY <2>10 DEF RecordFetchFailure, CountFailure, Saturating, SlotTypeOK,
         FetchTypeOK, Fence
    <3> QED
      BY <3>1, <3>2, <2>10 DEF RecordFetchFailure, SinkTypeOK, ReloadTypeOK,
         HistoryTypeOK
  <2>11. ASSUME NEW s \in Sinks, TakeSink(s) PROVE TypeOK'
    <3>1. SinkTypeOK'
      BY <2>11 DEF TakeSink, SlotTypeOK, SinkTypeOK
    <3> QED
      BY <3>1, <2>11 DEF TakeSink, SlotTypeOK, FetchTypeOK, ReloadTypeOK,
         HistoryTypeOK
  <2>12. ASSUME NEW s \in Sinks, Deliver(s) PROVE TypeOK'
    <3>1. SinkTypeOK'
      BY <2>12 DEF Deliver, SlotTypeOK, SinkTypeOK
    <3>2. HistoryTypeOK'
      <4>1. sgen[s] \in Nat
        BY <2>12 DEF SinkTypeOK
      <4>2. heard' \subseteq Nat
        BY <4>1, <2>12 DEF Deliver, HistoryTypeOK
      <4> QED
        BY <4>2, <2>12 DEF Deliver, HistoryTypeOK
    <3> QED
      BY <3>1, <3>2, <2>12 DEF Deliver, SlotTypeOK, FetchTypeOK, ReloadTypeOK
  <2>13. ASSUME NEW s \in Sinks, StreamBreaks(s) PROVE TypeOK'
    <3>1. SinkTypeOK'
      BY <2>13 DEF StreamBreaks, SlotTypeOK, SinkTypeOK
    <3>2. HistoryTypeOK'
      <4>1. sgen[s] \in Nat
        BY <2>13 DEF SinkTypeOK
      <4>2. refused' \subseteq Nat
        BY <4>1, <2>13 DEF StreamBreaks, HistoryTypeOK
      <4> QED
        BY <4>2, <2>13 DEF StreamBreaks, HistoryTypeOK
    <3> QED
      BY <3>1, <3>2, <2>13 DEF StreamBreaks, SlotTypeOK, FetchTypeOK,
         ReloadTypeOK
  <2>14. ASSUME NEW s \in Sinks, Failed(s) PROVE TypeOK'
    <3>1. SlotTypeOK'
      BY <2>14, BoundsAreNaturals DEF Failed, CountFailure, Saturating,
         SlotTypeOK, FetchTypeOK, SinkTypeOK
    <3>2. SinkTypeOK'
      BY <2>14 DEF Failed, CountFailure, Saturating, SlotTypeOK, SinkTypeOK
    <3> QED
      BY <3>1, <3>2, <2>14 DEF Failed, FetchTypeOK, ReloadTypeOK,
         HistoryTypeOK
  <2>15. ASSUME NEW s \in Sinks, InstallIf(s) PROVE TypeOK'
    <3>1. SlotTypeOK'
      BY <2>15, BoundsAreNaturals DEF InstallIf, CountFetch, Saturating,
         SlotTypeOK, FetchTypeOK, SinkTypeOK
    <3>2. SinkTypeOK'
      BY <2>15 DEF InstallIf, CountFetch, Saturating, SlotTypeOK, SinkTypeOK
    <3> QED
      BY <3>1, <3>2, <2>15 DEF InstallIf, FetchTypeOK, ReloadTypeOK,
         HistoryTypeOK
  <2>16. ASSUME NEW s \in Sinks, InstallRefused(s) PROVE TypeOK'
    <3>1. SinkTypeOK'
      BY <2>16 DEF InstallRefused, SlotTypeOK, SinkTypeOK
    <3> QED
      BY <3>1, <2>16 DEF InstallRefused, SlotTypeOK, FetchTypeOK,
         ReloadTypeOK, HistoryTypeOK
  <2>17. ASSUME NEW s \in Sinks, Load(s) PROVE TypeOK'
    <3>1. SinkTypeOK'
      BY <2>17 DEF Load, Read, SlotTypeOK, SinkTypeOK
    <3>2. ReloadTypeOK'
      BY <2>17 DEF Load, Read, SlotTypeOK, ReloadTypeOK
    <3> QED
      BY <3>1, <3>2, <2>17 DEF Load, SlotTypeOK, FetchTypeOK, HistoryTypeOK
  <2>18. ASSUME NEW s \in Sinks, Store(s) PROVE TypeOK'
    <3>1. SinkTypeOK'
      BY <2>18 DEF Store, Serve, SlotTypeOK, SinkTypeOK
    <3>2. ReloadTypeOK'
      BY <2>18 DEF Store, Serve, SlotTypeOK, ReloadTypeOK
    <3> QED
      BY <3>1, <3>2, <2>18 DEF Store, SlotTypeOK, FetchTypeOK, HistoryTypeOK
  <2>19. ASSUME NEW s \in Sinks, LoadFails(s) PROVE TypeOK'
    <3>1. SinkTypeOK'
      BY <2>19 DEF LoadFails, SlotTypeOK, SinkTypeOK
    <3>2. ReloadTypeOK'
      BY <2>19 DEF LoadFails, SlotTypeOK, ReloadTypeOK
    <3> QED
      BY <3>1, <3>2, <2>19 DEF LoadFails, SlotTypeOK, FetchTypeOK,
         HistoryTypeOK
  <2>20. ASSUME NEW s \in Sinks, Recheck(s) PROVE TypeOK'
    <3>1. SinkTypeOK'
      BY <2>20 DEF Recheck, SlotTypeOK, SinkTypeOK
    <3> QED
      BY <3>1, <2>20 DEF Recheck, SlotTypeOK, FetchTypeOK, ReloadTypeOK,
         HistoryTypeOK
  <2>21. ASSUME NEW s \in Sinks, LoadAgain(s) PROVE TypeOK'
    <3>1. SinkTypeOK'
      BY <2>21 DEF LoadAgain, Read, SlotTypeOK, SinkTypeOK
    <3>2. ReloadTypeOK'
      BY <2>21 DEF LoadAgain, Read, SlotTypeOK, ReloadTypeOK
    <3> QED
      BY <3>1, <3>2, <2>21 DEF LoadAgain, SlotTypeOK, FetchTypeOK,
         HistoryTypeOK
  <2>22. ASSUME NEW s \in Sinks, Restore(s) PROVE TypeOK'
    <3>1. SinkTypeOK'
      BY <2>22 DEF Restore, Serve, SlotTypeOK, SinkTypeOK
    <3>2. ReloadTypeOK'
      BY <2>22 DEF Restore, Serve, SlotTypeOK, ReloadTypeOK
    <3> QED
      BY <3>1, <3>2, <2>22 DEF Restore, SlotTypeOK, FetchTypeOK,
         HistoryTypeOK
  <2>23. ASSUME NEW s \in Sinks, RestoreFails(s) PROVE TypeOK'
    <3>1. SinkTypeOK'
      BY <2>23 DEF RestoreFails, SlotTypeOK, SinkTypeOK
    <3>2. ReloadTypeOK'
      BY <2>23 DEF RestoreFails, SlotTypeOK, ReloadTypeOK
    <3> QED
      BY <3>1, <3>2, <2>23 DEF RestoreFails, SlotTypeOK, FetchTypeOK,
         HistoryTypeOK
  <2>24. ASSUME NEW r \in Reloaders, BeginReload(r) PROVE TypeOK'
    <3>1. ReloadTypeOK'
      BY <2>24 DEF BeginReload, Read, SlotTypeOK, ReloadTypeOK
    <3>2. HistoryTypeOK'
      BY <2>24 DEF BeginReload, Read, HistoryTypeOK, FetchTypeOK, SinkTypeOK
    <3> QED
      BY <3>1, <3>2, <2>24 DEF BeginReload, SlotTypeOK, FetchTypeOK,
         SinkTypeOK
  <2>25. ASSUME NEW r \in Reloaders, EndReload(r) PROVE TypeOK'
    <3>1. ReloadTypeOK'
      <4>1. CASE Serve(r, Nobody)
        BY <4>1, <2>25 DEF EndReload, Serve, SlotTypeOK, ReloadTypeOK
      <4>2. CASE UNCHANGED serving
        BY <4>2, <2>25 DEF EndReload, ReloadTypeOK
      <4> QED
        BY <4>1, <4>2, <2>25 DEF EndReload
    <3> QED
      BY <3>1, <2>25 DEF EndReload, SlotTypeOK, FetchTypeOK, SinkTypeOK,
         HistoryTypeOK
  <2>26. CASE UNCHANGED vars
    BY <2>26 DEF vars, SlotTypeOK, FetchTypeOK, SinkTypeOK, ReloadTypeOK,
       HistoryTypeOK
  <2> QED
    BY <2>1, <2>2, <2>3, <2>4, <2>5, <2>6, <2>7, <2>8, <2>9, <2>10, <2>11,
       <2>12, <2>13, <2>14, <2>15, <2>16, <2>17, <2>18, <2>19, <2>20, <2>21,
       <2>22, <2>23, <2>24, <2>25, <2>26 DEF Next, FetchNext, SinkNext
<1> QED
  BY <1>1, <1>2, PTL DEF Spec

-----------------------------------------------------------------------------
(* The fence.  A delivery waiting to be installed carries the source of its  *)
(* sink, and what the slot holds is of this source and, if fetched, of this  *)
(* epoch.                                                                    *)

DeliveriesAreOfTheirSink ==
    \A s \in Sinks : spc[s] = "install" =>
        /\ delivery[s] \in Document
        /\ delivery[s].via = "push" /\ delivery[s].gen = sgen[s]

SlotIsFenced ==
    \/ fetched = NoDocument
    \/ /\ fetched \in Document
       /\ fetched.gen = generation
       /\ fetched.via = "fetch" => fetched.epoch = cleared

FenceInv == TypeOK /\ DeliveriesAreOfTheirSink /\ SlotIsFenced

\* The fence holds in every reachable state.
LEMMA FenceHolds == Spec => []FenceInv
<1>1. Init => DeliveriesAreOfTheirSink /\ SlotIsFenced
  BY DEF Init, DeliveriesAreOfTheirSink, SlotIsFenced
<1>2. FenceInv /\ TypeOK' /\ [Next]_vars
          => DeliveriesAreOfTheirSink' /\ SlotIsFenced'
  <2> SUFFICES ASSUME FenceInv, TypeOK', [Next]_vars
               PROVE  DeliveriesAreOfTheirSink' /\ SlotIsFenced'
    OBVIOUS
  <2> USE DEF FenceInv, TypeOK
  <2>a. ASSUME UNCHANGED <<fetched, generation, cleared>>
        PROVE  SlotIsFenced'
    BY <2>a DEF SlotIsFenced
  <2>b. ASSUME UNCHANGED <<sgen, delivery>>,
               \A s \in Sinks : spc'[s] = "install" => spc[s] = "install"
        PROVE  DeliveriesAreOfTheirSink'
    BY <2>b DEF DeliveriesAreOfTheirSink
  <2>1. ASSUME NEW kind \in {"blocking", "async"}, Set(kind)
        PROVE  DeliveriesAreOfTheirSink' /\ SlotIsFenced'
    BY <2>1, <2>b DEF Set, SlotIsFenced
  <2>2. ASSUME Clear
        PROVE  DeliveriesAreOfTheirSink' /\ SlotIsFenced'
    BY <2>2, <2>b DEF Clear, SlotIsFenced
  <2>3. ASSUME NEW f \in Fetchers, Refresh(f)
        PROVE  DeliveriesAreOfTheirSink' /\ SlotIsFenced'
    BY <2>3, <2>a, <2>b DEF Refresh, Capture
  <2>4. ASSUME NEW f \in Fetchers, RefreshAsync(f)
        PROVE  DeliveriesAreOfTheirSink' /\ SlotIsFenced'
    BY <2>4, <2>a, <2>b DEF RefreshAsync, Capture
  <2>5. ASSUME NEW f \in Fetchers, Abandon(f)
        PROVE  DeliveriesAreOfTheirSink' /\ SlotIsFenced'
    BY <2>5, <2>a, <2>b DEF Abandon
  <2>6. ASSUME NEW f \in Fetchers, Answer(f)
        PROVE  DeliveriesAreOfTheirSink' /\ SlotIsFenced'
    BY <2>6, <2>a, <2>b DEF Answer
  <2>7. ASSUME NEW f \in Fetchers, Fail(f)
        PROVE  DeliveriesAreOfTheirSink' /\ SlotIsFenced'
    BY <2>7, <2>a, <2>b DEF Fail
  <2>8. ASSUME NEW f \in Fetchers, Commit(f)
        PROVE  DeliveriesAreOfTheirSink' /\ SlotIsFenced'
    <3>1. DeliveriesAreOfTheirSink'
      BY <2>8, <2>b DEF Commit
    <3>2. SlotIsFenced'
      BY <2>8 DEF Commit, SlotIsFenced, FenceOf, FetchedBy, Document,
         FetchTypeOK, Fence
    <3> QED
      BY <3>1, <3>2
  <2>9. ASSUME NEW f \in Fetchers, RecordFetch(f)
        PROVE  DeliveriesAreOfTheirSink' /\ SlotIsFenced'
    BY <2>9, <2>a, <2>b DEF RecordFetch
  <2>10. ASSUME NEW f \in Fetchers, RecordFetchFailure(f)
        PROVE  DeliveriesAreOfTheirSink' /\ SlotIsFenced'
    BY <2>10, <2>a, <2>b DEF RecordFetchFailure
  <2>11. ASSUME NEW s \in Sinks, TakeSink(s)
        PROVE  DeliveriesAreOfTheirSink' /\ SlotIsFenced'
    <3>1. DeliveriesAreOfTheirSink'
      BY <2>11 DEF TakeSink, DeliveriesAreOfTheirSink, SinkTypeOK
    <3> QED
      BY <3>1, <2>11, <2>a DEF TakeSink
  <2>12. ASSUME NEW s \in Sinks, Deliver(s)
        PROVE  DeliveriesAreOfTheirSink' /\ SlotIsFenced'
    <3>1. DeliveriesAreOfTheirSink'
      BY <2>12 DEF Deliver, DeliveriesAreOfTheirSink, SinkTypeOK, SlotTypeOK,
         Document
    <3> QED
      BY <3>1, <2>12, <2>a DEF Deliver
  <2>13. ASSUME NEW s \in Sinks, StreamBreaks(s)
        PROVE  DeliveriesAreOfTheirSink' /\ SlotIsFenced'
    BY <2>13, <2>a, <2>b DEF StreamBreaks, SinkTypeOK
  <2>14. ASSUME NEW s \in Sinks, Failed(s)
        PROVE  DeliveriesAreOfTheirSink' /\ SlotIsFenced'
    BY <2>14, <2>a, <2>b DEF Failed, SinkTypeOK
  <2>15. ASSUME NEW s \in Sinks, InstallIf(s)
        PROVE  DeliveriesAreOfTheirSink' /\ SlotIsFenced'
    <3>1. DeliveriesAreOfTheirSink'
      BY <2>15, <2>b DEF InstallIf, SinkTypeOK
    <3>2. SlotIsFenced'
      BY <2>15 DEF InstallIf, SlotIsFenced, DeliveriesAreOfTheirSink
    <3> QED
      BY <3>1, <3>2
  <2>16. ASSUME NEW s \in Sinks, InstallRefused(s)
        PROVE  DeliveriesAreOfTheirSink' /\ SlotIsFenced'
    BY <2>16, <2>a, <2>b DEF InstallRefused, SinkTypeOK
  <2>17. ASSUME NEW s \in Sinks, Load(s)
        PROVE  DeliveriesAreOfTheirSink' /\ SlotIsFenced'
    BY <2>17, <2>a, <2>b DEF Load, SinkTypeOK
  <2>18. ASSUME NEW s \in Sinks, Store(s)
        PROVE  DeliveriesAreOfTheirSink' /\ SlotIsFenced'
    BY <2>18, <2>a, <2>b DEF Store, SinkTypeOK
  <2>19. ASSUME NEW s \in Sinks, LoadFails(s)
        PROVE  DeliveriesAreOfTheirSink' /\ SlotIsFenced'
    BY <2>19, <2>a, <2>b DEF LoadFails, SinkTypeOK
  <2>20. ASSUME NEW s \in Sinks, Recheck(s)
        PROVE  DeliveriesAreOfTheirSink' /\ SlotIsFenced'
    BY <2>20, <2>a, <2>b DEF Recheck, SinkTypeOK
  <2>21. ASSUME NEW s \in Sinks, LoadAgain(s)
        PROVE  DeliveriesAreOfTheirSink' /\ SlotIsFenced'
    BY <2>21, <2>a, <2>b DEF LoadAgain, SinkTypeOK
  <2>22. ASSUME NEW s \in Sinks, Restore(s)
        PROVE  DeliveriesAreOfTheirSink' /\ SlotIsFenced'
    BY <2>22, <2>a, <2>b DEF Restore, SinkTypeOK
  <2>23. ASSUME NEW s \in Sinks, RestoreFails(s)
        PROVE  DeliveriesAreOfTheirSink' /\ SlotIsFenced'
    BY <2>23, <2>a, <2>b DEF RestoreFails, SinkTypeOK
  <2>24. ASSUME NEW r \in Reloaders, BeginReload(r)
        PROVE  DeliveriesAreOfTheirSink' /\ SlotIsFenced'
    BY <2>24, <2>a, <2>b DEF BeginReload
  <2>25. ASSUME NEW r \in Reloaders, EndReload(r)
        PROVE  DeliveriesAreOfTheirSink' /\ SlotIsFenced'
    BY <2>25, <2>a, <2>b DEF EndReload
  <2>26. CASE UNCHANGED vars
    BY <2>26, <2>a, <2>b DEF vars
  <2> QED
    BY <2>1, <2>2, <2>3, <2>4, <2>5, <2>6, <2>7, <2>8, <2>9, <2>10, <2>11,
       <2>12, <2>13, <2>14, <2>15, <2>16, <2>17, <2>18, <2>19, <2>20, <2>21,
       <2>22, <2>23, <2>24, <2>25, <2>26 DEF Next, FetchNext, SinkNext
<1> QED
  BY <1>1, <1>2, TypeCorrect, PTL DEF Spec, FenceInv

\* No document of a replaced source is ever in the slot: a fetch or a
\* delivery that straddles set is discarded when it lands.
THEOREM DocumentBelongsToSourceCorrect == Spec => []DocumentBelongsToSource
<1>1. FenceInv => DocumentBelongsToSource
  BY DEF FenceInv, SlotIsFenced, DocumentBelongsToSource
<1> QED
  BY <1>1, FenceHolds, PTL

\* A cleared document is not brought back by a fetch that began before.
THEOREM ClearedStaysClearedCorrect == Spec => []ClearedStaysCleared
<1>1. FenceInv => ClearedStaysCleared
  BY DEF FenceInv, SlotIsFenced, ClearedStaysCleared, NoDocument
<1> QED
  BY <1>1, FenceHolds, PTL

\* The slot with its fetches in flight, its sinks and its reloads implements
\* the fenced slot: every step replaces, clears, accepts or changes nothing.
THEOREM FencedSlotImplemented == Spec => ImplementsFencedSlot
<1> DEFINE SlotStep == [Slot!Next]_<<generation, cleared, fetched>>
<1>1. Init => Slot!Init
  BY DEF Init, Slot!Init, NoDocument, Slot!Empty
<1>2. FenceInv /\ FenceInv' /\ [Next]_vars => SlotStep
  <2> SUFFICES ASSUME FenceInv, FenceInv', [Next]_vars PROVE SlotStep
    OBVIOUS
  <2> USE DEF FenceInv
  <2>a. ASSUME UNCHANGED <<generation, cleared>>,
               fetched' = fetched \/ fetched' # NoDocument
        PROVE  SlotStep
    <3>1. fetched' # NoDocument => Slot!Accept
      BY <2>a DEF SlotIsFenced, Slot!Accept, Slot!Documents, Document
    <3> QED
      BY <3>1, <2>a DEF Slot!Next
  <2>1. ASSUME NEW kind \in {"blocking", "async"}, Set(kind) PROVE SlotStep
    BY <2>1 DEF Set, Slot!Next, Slot!Replace, Slot!Empty, NoDocument
  <2>2. ASSUME Clear PROVE SlotStep
    BY <2>2 DEF Clear, Slot!Next, Slot!Clear, Slot!Empty, NoDocument
  <2>3. ASSUME NEW f \in Fetchers, Refresh(f) PROVE SlotStep
    BY <2>3, <2>a DEF Refresh, Capture
  <2>4. ASSUME NEW f \in Fetchers, RefreshAsync(f) PROVE SlotStep
    BY <2>4, <2>a DEF RefreshAsync, Capture
  <2>5. ASSUME NEW f \in Fetchers, Abandon(f) PROVE SlotStep
    BY <2>5, <2>a DEF Abandon
  <2>6. ASSUME NEW f \in Fetchers, Answer(f) PROVE SlotStep
    BY <2>6, <2>a DEF Answer
  <2>7. ASSUME NEW f \in Fetchers, Fail(f) PROVE SlotStep
    BY <2>7, <2>a DEF Fail
  <2>8. ASSUME NEW f \in Fetchers, Commit(f) PROVE SlotStep
    BY <2>8, <2>a DEF Commit, FetchedBy, NoDocument
  <2>9. ASSUME NEW f \in Fetchers, RecordFetch(f) PROVE SlotStep
    BY <2>9, <2>a DEF RecordFetch
  <2>10. ASSUME NEW f \in Fetchers, RecordFetchFailure(f) PROVE SlotStep
    BY <2>10, <2>a DEF RecordFetchFailure
  <2>11. ASSUME NEW s \in Sinks, TakeSink(s) PROVE SlotStep
    BY <2>11, <2>a DEF TakeSink
  <2>12. ASSUME NEW s \in Sinks, Deliver(s) PROVE SlotStep
    BY <2>12, <2>a DEF Deliver
  <2>13. ASSUME NEW s \in Sinks, StreamBreaks(s) PROVE SlotStep
    BY <2>13, <2>a DEF StreamBreaks
  <2>14. ASSUME NEW s \in Sinks, Failed(s) PROVE SlotStep
    BY <2>14, <2>a DEF Failed
  <2>15. ASSUME NEW s \in Sinks, InstallIf(s) PROVE SlotStep
    BY <2>15, <2>a DEF InstallIf, DeliveriesAreOfTheirSink, NoDocument
  <2>16. ASSUME NEW s \in Sinks, InstallRefused(s) PROVE SlotStep
    BY <2>16, <2>a DEF InstallRefused
  <2>17. ASSUME NEW s \in Sinks, Load(s) PROVE SlotStep
    BY <2>17, <2>a DEF Load
  <2>18. ASSUME NEW s \in Sinks, Store(s) PROVE SlotStep
    BY <2>18, <2>a DEF Store
  <2>19. ASSUME NEW s \in Sinks, LoadFails(s) PROVE SlotStep
    BY <2>19, <2>a DEF LoadFails
  <2>20. ASSUME NEW s \in Sinks, Recheck(s) PROVE SlotStep
    BY <2>20, <2>a DEF Recheck
  <2>21. ASSUME NEW s \in Sinks, LoadAgain(s) PROVE SlotStep
    BY <2>21, <2>a DEF LoadAgain
  <2>22. ASSUME NEW s \in Sinks, Restore(s) PROVE SlotStep
    BY <2>22, <2>a DEF Restore
  <2>23. ASSUME NEW s \in Sinks, RestoreFails(s) PROVE SlotStep
    BY <2>23, <2>a DEF RestoreFails
  <2>24. ASSUME NEW r \in Reloaders, BeginReload(r) PROVE SlotStep
    BY <2>24, <2>a DEF BeginReload
  <2>25. ASSUME NEW r \in Reloaders, EndReload(r) PROVE SlotStep
    BY <2>25, <2>a DEF EndReload
  <2>26. CASE UNCHANGED vars
    BY <2>26 DEF vars
  <2> QED
    BY <2>1, <2>2, <2>3, <2>4, <2>5, <2>6, <2>7, <2>8, <2>9, <2>10, <2>11,
       <2>12, <2>13, <2>14, <2>15, <2>16, <2>17, <2>18, <2>19, <2>20, <2>21,
       <2>22, <2>23, <2>24, <2>25, <2>26 DEF Next, FetchNext, SinkNext
<1> QED
  BY <1>1, <1>2, FenceHolds, PTL DEF Spec, ImplementsFencedSlot, Slot!Spec

-----------------------------------------------------------------------------
(* The status.  Whoever is about to record an answer or a failure has heard  *)
(* from, or failed to hear from, the source it will name.                    *)

FetchersRecordTruth ==
    \A f \in Fetchers :
        /\ fpc[f] \in {"commit", "record"} => fence[f].generation \in heard
        /\ fpc[f] = "failed" => fence[f].generation \in refused

SinksRecordTruth ==
    \A s \in Sinks :
        /\ spc[s] = "install" => sgen[s] \in heard
        /\ spc[s] = "failed" => sgen[s] \in refused

\* The status of a source says only what was heard from that source: a late
\* answer or failure of a replaced one is not counted against its successor.
THEOREM StatusBelongsToSourceCorrect == Spec => []StatusBelongsToSource
<1> DEFINE Inv == /\ FetchersRecordTruth /\ SinksRecordTruth
               /\ StatusBelongsToSource
<1>1. Init => Inv
  BY DEF Init, FetchersRecordTruth, SinksRecordTruth, StatusBelongsToSource
<1>2. TypeOK /\ TypeOK' /\ Inv /\ [Next]_vars => Inv'
  <2> SUFFICES ASSUME TypeOK, TypeOK', Inv, [Next]_vars PROVE Inv'
    OBVIOUS
  <2>a. ASSUME UNCHANGED <<fetches, streak, generation>>,
               heard \subseteq heard', refused \subseteq refused'
        PROVE  StatusBelongsToSource'
    BY <2>a DEF StatusBelongsToSource
  <2>b. ASSUME UNCHANGED <<fpc, fence>>, heard \subseteq heard',
               refused \subseteq refused'
        PROVE  FetchersRecordTruth'
    BY <2>b DEF FetchersRecordTruth
  <2>c. ASSUME UNCHANGED sgen, heard \subseteq heard', refused \subseteq refused',
               \A s \in Sinks : spc'[s] \in {"install", "failed"} => spc'[s] = spc[s]
        PROVE  SinksRecordTruth'
    BY <2>c DEF SinksRecordTruth
  <2>1. ASSUME NEW kind \in {"blocking", "async"}, Set(kind) PROVE Inv'
    <3>1. StatusBelongsToSource'
      BY <2>1 DEF Set, StatusBelongsToSource, FetchersRecordTruth, SinksRecordTruth, TypeOK,
         SlotTypeOK
    <3>2. FetchersRecordTruth'
      BY <2>1, <2>b DEF Set
    <3>3. SinksRecordTruth'
      BY <2>1, <2>c DEF Set
    <3> QED
      BY <3>1, <3>2, <3>3
  <2>2. ASSUME Clear PROVE Inv'
    <3>1. StatusBelongsToSource'
      BY <2>2, <2>a DEF Clear
    <3>2. FetchersRecordTruth'
      BY <2>2, <2>b DEF Clear
    <3>3. SinksRecordTruth'
      BY <2>2, <2>c DEF Clear
    <3> QED
      BY <3>1, <3>2, <3>3
  <2>3. ASSUME NEW f \in Fetchers, Refresh(f) PROVE Inv'
    <3>1. StatusBelongsToSource'
      BY <2>3, <2>a DEF Refresh, Capture
    <3>2. FetchersRecordTruth'
      BY <2>3 DEF Refresh, Capture, FenceOf, FetchersRecordTruth, SinksRecordTruth, TypeOK,
         FetchTypeOK
    <3>3. SinksRecordTruth'
      BY <2>3, <2>c DEF Refresh, Capture
    <3> QED
      BY <3>1, <3>2, <3>3
  <2>4. ASSUME NEW f \in Fetchers, RefreshAsync(f) PROVE Inv'
    <3>1. StatusBelongsToSource'
      BY <2>4, <2>a DEF RefreshAsync, Capture
    <3>2. FetchersRecordTruth'
      BY <2>4 DEF RefreshAsync, Capture, FenceOf, FetchersRecordTruth, SinksRecordTruth, TypeOK,
         FetchTypeOK
    <3>3. SinksRecordTruth'
      BY <2>4, <2>c DEF RefreshAsync, Capture
    <3> QED
      BY <3>1, <3>2, <3>3
  <2>5. ASSUME NEW f \in Fetchers, Abandon(f) PROVE Inv'
    <3>1. StatusBelongsToSource'
      BY <2>5, <2>a DEF Abandon
    <3>2. FetchersRecordTruth'
      BY <2>5 DEF Abandon, FetchersRecordTruth, TypeOK, FetchTypeOK
    <3>3. SinksRecordTruth'
      BY <2>5, <2>c DEF Abandon
    <3> QED
      BY <3>1, <3>2, <3>3
  <2>6. ASSUME NEW f \in Fetchers, Answer(f) PROVE Inv'
    <3>1. StatusBelongsToSource'
      BY <2>6, <2>a DEF Answer
    <3>2. FetchersRecordTruth'
      BY <2>6 DEF Answer, FetchersRecordTruth, TypeOK, FetchTypeOK
    <3>3. SinksRecordTruth'
      BY <2>6, <2>c DEF Answer
    <3> QED
      BY <3>1, <3>2, <3>3
  <2>7. ASSUME NEW f \in Fetchers, Fail(f) PROVE Inv'
    <3>1. StatusBelongsToSource'
      BY <2>7, <2>a DEF Fail
    <3>2. FetchersRecordTruth'
      BY <2>7 DEF Fail, FetchersRecordTruth, TypeOK, FetchTypeOK
    <3>3. SinksRecordTruth'
      BY <2>7, <2>c DEF Fail
    <3> QED
      BY <3>1, <3>2, <3>3
  <2>8. ASSUME NEW f \in Fetchers, Commit(f) PROVE Inv'
    <3>1. StatusBelongsToSource'
      BY <2>8, <2>a DEF Commit
    <3>2. FetchersRecordTruth'
      BY <2>8 DEF Commit, FetchedBy, FenceOf, FetchersRecordTruth, SinksRecordTruth, TypeOK,
         FetchTypeOK
    <3>3. SinksRecordTruth'
      BY <2>8, <2>c DEF Commit
    <3> QED
      BY <3>1, <3>2, <3>3
  <2>9. ASSUME NEW f \in Fetchers, RecordFetch(f) PROVE Inv'
    <3>1. StatusBelongsToSource'
      BY <2>9 DEF RecordFetch, CountFetch, Saturating, StatusBelongsToSource,
         FetchersRecordTruth, SinksRecordTruth, TypeOK, SlotTypeOK
    <3>2. FetchersRecordTruth'
      BY <2>9 DEF RecordFetch, CountFetch, Saturating, FetchersRecordTruth, SinksRecordTruth,
         TypeOK, FetchTypeOK
    <3>3. SinksRecordTruth'
      BY <2>9, <2>c DEF RecordFetch
    <3> QED
      BY <3>1, <3>2, <3>3
  <2>10. ASSUME NEW f \in Fetchers, RecordFetchFailure(f) PROVE Inv'
    <3>1. StatusBelongsToSource'
      BY <2>10 DEF RecordFetchFailure, CountFailure, Saturating,
         StatusBelongsToSource, FetchersRecordTruth, SinksRecordTruth, TypeOK, SlotTypeOK
    <3>2. FetchersRecordTruth'
      BY <2>10 DEF RecordFetchFailure, CountFailure, Saturating,
         FetchersRecordTruth, TypeOK, FetchTypeOK
    <3>3. SinksRecordTruth'
      BY <2>10, <2>c DEF RecordFetchFailure
    <3> QED
      BY <3>1, <3>2, <3>3
  <2>11. ASSUME NEW s \in Sinks, TakeSink(s) PROVE Inv'
    <3>1. StatusBelongsToSource'
      BY <2>11, <2>a DEF TakeSink
    <3>2. FetchersRecordTruth'
      BY <2>11, <2>b DEF TakeSink
    <3>3. SinksRecordTruth'
      BY <2>11 DEF TakeSink, SinksRecordTruth, TypeOK, SinkTypeOK
    <3> QED
      BY <3>1, <3>2, <3>3
  <2>12. ASSUME NEW s \in Sinks, Deliver(s) PROVE Inv'
    <3>1. StatusBelongsToSource'
      BY <2>12, <2>a DEF Deliver
    <3>2. FetchersRecordTruth'
      BY <2>12, <2>b DEF Deliver
    <3>3. SinksRecordTruth'
      BY <2>12 DEF Deliver, SinksRecordTruth, TypeOK, SinkTypeOK
    <3> QED
      BY <3>1, <3>2, <3>3
  <2>13. ASSUME NEW s \in Sinks, StreamBreaks(s) PROVE Inv'
    <3>1. StatusBelongsToSource'
      BY <2>13, <2>a DEF StreamBreaks
    <3>2. FetchersRecordTruth'
      BY <2>13, <2>b DEF StreamBreaks
    <3>3. SinksRecordTruth'
      BY <2>13 DEF StreamBreaks, SinksRecordTruth, TypeOK, SinkTypeOK
    <3> QED
      BY <3>1, <3>2, <3>3
  <2>14. ASSUME NEW s \in Sinks, Failed(s) PROVE Inv'
    <3>1. StatusBelongsToSource'
      BY <2>14 DEF Failed, CountFailure, Saturating, StatusBelongsToSource,
         FetchersRecordTruth, SinksRecordTruth, TypeOK, SlotTypeOK
    <3>2. FetchersRecordTruth'
      BY <2>14, <2>b DEF Failed
    <3>3. SinksRecordTruth'
      BY <2>14, <2>c DEF Failed, TypeOK, SinkTypeOK
    <3> QED
      BY <3>1, <3>2, <3>3
  <2>15. ASSUME NEW s \in Sinks, InstallIf(s) PROVE Inv'
    <3>1. StatusBelongsToSource'
      BY <2>15 DEF InstallIf, CountFetch, Saturating, StatusBelongsToSource,
         FetchersRecordTruth, SinksRecordTruth, TypeOK, SlotTypeOK
    <3>2. FetchersRecordTruth'
      BY <2>15, <2>b DEF InstallIf
    <3>3. SinksRecordTruth'
      BY <2>15, <2>c DEF InstallIf, TypeOK, SinkTypeOK
    <3> QED
      BY <3>1, <3>2, <3>3
  <2>16. ASSUME NEW s \in Sinks, InstallRefused(s) PROVE Inv'
    <3>1. StatusBelongsToSource'
      BY <2>16, <2>a DEF InstallRefused
    <3>2. FetchersRecordTruth'
      BY <2>16, <2>b DEF InstallRefused
    <3>3. SinksRecordTruth'
      BY <2>16, <2>c DEF InstallRefused, TypeOK, SinkTypeOK
    <3> QED
      BY <3>1, <3>2, <3>3
  <2>17. ASSUME NEW s \in Sinks, Load(s) PROVE Inv'
    <3>1. StatusBelongsToSource'
      BY <2>17, <2>a DEF Load
    <3>2. FetchersRecordTruth'
      BY <2>17, <2>b DEF Load
    <3>3. SinksRecordTruth'
      BY <2>17, <2>c DEF Load, TypeOK, SinkTypeOK
    <3> QED
      BY <3>1, <3>2, <3>3
  <2>18. ASSUME NEW s \in Sinks, Store(s) PROVE Inv'
    <3>1. StatusBelongsToSource'
      BY <2>18, <2>a DEF Store
    <3>2. FetchersRecordTruth'
      BY <2>18, <2>b DEF Store
    <3>3. SinksRecordTruth'
      BY <2>18, <2>c DEF Store, TypeOK, SinkTypeOK
    <3> QED
      BY <3>1, <3>2, <3>3
  <2>19. ASSUME NEW s \in Sinks, LoadFails(s) PROVE Inv'
    <3>1. StatusBelongsToSource'
      BY <2>19, <2>a DEF LoadFails
    <3>2. FetchersRecordTruth'
      BY <2>19, <2>b DEF LoadFails
    <3>3. SinksRecordTruth'
      BY <2>19, <2>c DEF LoadFails, TypeOK, SinkTypeOK
    <3> QED
      BY <3>1, <3>2, <3>3
  <2>20. ASSUME NEW s \in Sinks, Recheck(s) PROVE Inv'
    <3>1. StatusBelongsToSource'
      BY <2>20, <2>a DEF Recheck
    <3>2. FetchersRecordTruth'
      BY <2>20, <2>b DEF Recheck
    <3>3. SinksRecordTruth'
      BY <2>20, <2>c DEF Recheck, TypeOK, SinkTypeOK
    <3> QED
      BY <3>1, <3>2, <3>3
  <2>21. ASSUME NEW s \in Sinks, LoadAgain(s) PROVE Inv'
    <3>1. StatusBelongsToSource'
      BY <2>21, <2>a DEF LoadAgain
    <3>2. FetchersRecordTruth'
      BY <2>21, <2>b DEF LoadAgain
    <3>3. SinksRecordTruth'
      BY <2>21, <2>c DEF LoadAgain, TypeOK, SinkTypeOK
    <3> QED
      BY <3>1, <3>2, <3>3
  <2>22. ASSUME NEW s \in Sinks, Restore(s) PROVE Inv'
    <3>1. StatusBelongsToSource'
      BY <2>22, <2>a DEF Restore
    <3>2. FetchersRecordTruth'
      BY <2>22, <2>b DEF Restore
    <3>3. SinksRecordTruth'
      BY <2>22, <2>c DEF Restore, TypeOK, SinkTypeOK
    <3> QED
      BY <3>1, <3>2, <3>3
  <2>23. ASSUME NEW s \in Sinks, RestoreFails(s) PROVE Inv'
    <3>1. StatusBelongsToSource'
      BY <2>23, <2>a DEF RestoreFails
    <3>2. FetchersRecordTruth'
      BY <2>23, <2>b DEF RestoreFails
    <3>3. SinksRecordTruth'
      BY <2>23, <2>c DEF RestoreFails, TypeOK, SinkTypeOK
    <3> QED
      BY <3>1, <3>2, <3>3
  <2>24. ASSUME NEW r \in Reloaders, BeginReload(r) PROVE Inv'
    <3>1. StatusBelongsToSource'
      BY <2>24, <2>a DEF BeginReload
    <3>2. FetchersRecordTruth'
      BY <2>24, <2>b DEF BeginReload
    <3>3. SinksRecordTruth'
      BY <2>24, <2>c DEF BeginReload
    <3> QED
      BY <3>1, <3>2, <3>3
  <2>25. ASSUME NEW r \in Reloaders, EndReload(r) PROVE Inv'
    <3>1. StatusBelongsToSource'
      BY <2>25, <2>a DEF EndReload
    <3>2. FetchersRecordTruth'
      BY <2>25, <2>b DEF EndReload
    <3>3. SinksRecordTruth'
      BY <2>25, <2>c DEF EndReload
    <3> QED
      BY <3>1, <3>2, <3>3
  <2>26. CASE UNCHANGED vars
    BY <2>26, <2>a, <2>b, <2>c DEF vars, FetchersRecordTruth, SinksRecordTruth
  <2> QED
    BY <2>1, <2>2, <2>3, <2>4, <2>5, <2>6, <2>7, <2>8, <2>9, <2>10, <2>11,
       <2>12, <2>13, <2>14, <2>15, <2>16, <2>17, <2>18, <2>19, <2>20, <2>21,
       <2>22, <2>23, <2>24, <2>25, <2>26 DEF Next, FetchNext, SinkNext
<1> QED
  BY <1>1, <1>2, TypeCorrect, PTL DEF Spec

-----------------------------------------------------------------------------
(* The second look.  No sink is of a later source than the installed one, a  *)
(* first reload read the document of a source at least as new as its sink's, *)
(* and a document installed late still has its second reload ahead.          *)

SinksAreNotAhead == \A s \in Sinks : sgen[s] <= generation

LoadsAreNotOlderThanSink ==
    \A s \in Sinks : spc[s] = "store" /\ view[s] # NoDocument =>
        sgen[s] <= view[s].gen /\ view[s].gen <= generation

LateIsPending ==
    serving.late /\ serving.by # Nobody =>
        \/ spc[serving.by] = "recheck" /\ sgen[serving.by] < generation
        \/ spc[serving.by] \in {"reload", "restore"}
        \/ serving.by \in failedLoads

\* A delivery that installed the document of a replaced source reloads again
\* before apply returns.
THEOREM LateDeliveryIsUndoneCorrect == Spec => []LateDeliveryIsUndone
<1> DEFINE Inv == SinksAreNotAhead /\ LoadsAreNotOlderThanSink /\ LateIsPending
<1>1. Init => Inv
  BY NobodyIsNoSink DEF Init, SinksAreNotAhead, LoadsAreNotOlderThanSink,
     LateIsPending
<1>2. FenceInv /\ FenceInv' /\ Inv /\ [Next]_vars => Inv'
  <2> SUFFICES ASSUME FenceInv, FenceInv', Inv, [Next]_vars PROVE Inv'
    OBVIOUS
  <2> USE DEF FenceInv, TypeOK
  <2>0. /\ generation \in Nat /\ generation' \in Nat
        /\ \A s \in Sinks : sgen[s] \in Nat
        /\ \A s \in Sinks : view[s] \in MaybeDocument /\ view[s].gen \in Nat
        /\ serving.by \in Sinks \union {Nobody}
    BY DEF SlotTypeOK, SinkTypeOK, ReloadTypeOK, MaybeDocument, Document,
       NoDocument
  <2>a. ASSUME generation <= generation', UNCHANGED <<sgen, view, spc>>
        PROVE  SinksAreNotAhead' /\ LoadsAreNotOlderThanSink'
    BY <2>a, <2>0 DEF SinksAreNotAhead, LoadsAreNotOlderThanSink
  <2>b. ASSUME generation <= generation', UNCHANGED <<sgen, spc, serving, failedLoads>>
        PROVE  LateIsPending'
    BY <2>b, <2>0 DEF LateIsPending
  <2>1. ASSUME NEW kind \in {"blocking", "async"}, Set(kind) PROVE Inv'
    BY <2>1, <2>a, <2>b, <2>0 DEF Set
  <2>2. ASSUME Clear PROVE Inv'
    BY <2>2, <2>a, <2>b, <2>0 DEF Clear
  <2>3. ASSUME NEW f \in Fetchers, Refresh(f) PROVE Inv'
    BY <2>3, <2>a, <2>b, <2>0 DEF Refresh, Capture
  <2>4. ASSUME NEW f \in Fetchers, RefreshAsync(f) PROVE Inv'
    BY <2>4, <2>a, <2>b, <2>0 DEF RefreshAsync, Capture
  <2>5. ASSUME NEW f \in Fetchers, Abandon(f) PROVE Inv'
    BY <2>5, <2>a, <2>b, <2>0 DEF Abandon
  <2>6. ASSUME NEW f \in Fetchers, Answer(f) PROVE Inv'
    BY <2>6, <2>a, <2>b, <2>0 DEF Answer
  <2>7. ASSUME NEW f \in Fetchers, Fail(f) PROVE Inv'
    BY <2>7, <2>a, <2>b, <2>0 DEF Fail
  <2>8. ASSUME NEW f \in Fetchers, Commit(f) PROVE Inv'
    BY <2>8, <2>a, <2>b, <2>0 DEF Commit
  <2>9. ASSUME NEW f \in Fetchers, RecordFetch(f) PROVE Inv'
    BY <2>9, <2>a, <2>b, <2>0 DEF RecordFetch
  <2>10. ASSUME NEW f \in Fetchers, RecordFetchFailure(f) PROVE Inv'
    BY <2>10, <2>a, <2>b, <2>0 DEF RecordFetchFailure
  <2>11. ASSUME NEW s \in Sinks, TakeSink(s) PROVE Inv'
    <3>1. SinksAreNotAhead'
      BY <2>11, <2>0 DEF TakeSink, SinksAreNotAhead, SinkTypeOK
    <3>2. LoadsAreNotOlderThanSink'
      BY <2>11, <2>0 DEF TakeSink, SinkTypeOK, LoadsAreNotOlderThanSink
    <3>3. LateIsPending'
      BY <2>11, <2>0 DEF TakeSink, SinkTypeOK, LateIsPending
    <3> QED
      BY <3>1, <3>2, <3>3
  <2>12. ASSUME NEW s \in Sinks, Deliver(s) PROVE Inv'
    <3>1. SinksAreNotAhead'
      BY <2>12, <2>0 DEF Deliver, SinksAreNotAhead
    <3>2. LoadsAreNotOlderThanSink'
      BY <2>12, <2>0 DEF Deliver, SinkTypeOK, LoadsAreNotOlderThanSink
    <3>3. LateIsPending'
      BY <2>12, <2>0 DEF Deliver, SinkTypeOK, LateIsPending
    <3> QED
      BY <3>1, <3>2, <3>3
  <2>13. ASSUME NEW s \in Sinks, StreamBreaks(s) PROVE Inv'
    <3>1. SinksAreNotAhead'
      BY <2>13, <2>0 DEF StreamBreaks, SinksAreNotAhead
    <3>2. LoadsAreNotOlderThanSink'
      BY <2>13, <2>0 DEF StreamBreaks, SinkTypeOK, LoadsAreNotOlderThanSink
    <3>3. LateIsPending'
      BY <2>13, <2>0 DEF StreamBreaks, SinkTypeOK, LateIsPending
    <3> QED
      BY <3>1, <3>2, <3>3
  <2>14. ASSUME NEW s \in Sinks, Failed(s) PROVE Inv'
    <3>1. SinksAreNotAhead'
      BY <2>14, <2>0 DEF Failed, SinksAreNotAhead
    <3>2. LoadsAreNotOlderThanSink'
      BY <2>14, <2>0 DEF Failed, SinkTypeOK, LoadsAreNotOlderThanSink
    <3>3. LateIsPending'
      BY <2>14, <2>0 DEF Failed, SinkTypeOK, LateIsPending
    <3> QED
      BY <3>1, <3>2, <3>3
  <2>15. ASSUME NEW s \in Sinks, InstallIf(s) PROVE Inv'
    <3>1. SinksAreNotAhead'
      BY <2>15, <2>0 DEF InstallIf, SinksAreNotAhead
    <3>2. LoadsAreNotOlderThanSink'
      BY <2>15, <2>0 DEF InstallIf, SinkTypeOK, LoadsAreNotOlderThanSink
    <3>3. LateIsPending'
      BY <2>15, <2>0 DEF InstallIf, SinkTypeOK, LateIsPending
    <3> QED
      BY <3>1, <3>2, <3>3
  <2>16. ASSUME NEW s \in Sinks, InstallRefused(s) PROVE Inv'
    <3>1. SinksAreNotAhead'
      BY <2>16, <2>0 DEF InstallRefused, SinksAreNotAhead
    <3>2. LoadsAreNotOlderThanSink'
      BY <2>16, <2>0 DEF InstallRefused, SinkTypeOK, LoadsAreNotOlderThanSink
    <3>3. LateIsPending'
      BY <2>16, <2>0 DEF InstallRefused, SinkTypeOK, LateIsPending
    <3> QED
      BY <3>1, <3>2, <3>3
  <2>17. ASSUME NEW s \in Sinks, Load(s) PROVE Inv'
    <3>1. SinksAreNotAhead'
      BY <2>17, <2>0 DEF Load, SinksAreNotAhead
    <3>2. LoadsAreNotOlderThanSink'
      BY <2>17, <2>0, <3>1 DEF Load, Read, SinkTypeOK, ReloadTypeOK,
         SlotIsFenced, SinksAreNotAhead, LoadsAreNotOlderThanSink
    <3>3. LateIsPending'
      BY <2>17, <2>0 DEF Load, SinkTypeOK, LateIsPending
    <3> QED
      BY <3>1, <3>2, <3>3
  <2>18. ASSUME NEW s \in Sinks, Store(s) PROVE Inv'
    <3>1. SinksAreNotAhead'
      BY <2>18, <2>0 DEF Store, SinksAreNotAhead
    <3>2. LoadsAreNotOlderThanSink'
      BY <2>18, <2>0 DEF Store, SinkTypeOK, LoadsAreNotOlderThanSink
    <3>3. LateIsPending'
      <4>1. serving'.by = s /\ spc'[s] = "recheck" /\ sgen' = sgen
        BY <2>18 DEF Store, Serve, SinkTypeOK
      <4>2. serving'.late => view[s] # NoDocument /\ view[s].gen # generation
        BY <2>18 DEF Store, Serve
      <4>3. serving'.late => sgen[s] < generation
        BY <4>2, <2>0, <2>18 DEF Store, LoadsAreNotOlderThanSink
      <4>4. generation' = generation
        BY <2>18 DEF Store
      <4> QED
        BY <4>1, <4>3, <4>4 DEF LateIsPending
    <3> QED
      BY <3>1, <3>2, <3>3
  <2>19. ASSUME NEW s \in Sinks, LoadFails(s) PROVE Inv'
    <3>1. SinksAreNotAhead'
      BY <2>19, <2>0 DEF LoadFails, SinksAreNotAhead
    <3>2. LoadsAreNotOlderThanSink'
      BY <2>19, <2>0 DEF LoadFails, SinkTypeOK, LoadsAreNotOlderThanSink
    <3>3. LateIsPending'
      BY <2>19, <2>0 DEF LoadFails, SinkTypeOK, LateIsPending
    <3> QED
      BY <3>1, <3>2, <3>3
  <2>20. ASSUME NEW s \in Sinks, Recheck(s) PROVE Inv'
    <3>1. SinksAreNotAhead'
      BY <2>20, <2>0 DEF Recheck, SinksAreNotAhead
    <3>2. LoadsAreNotOlderThanSink'
      BY <2>20, <2>0 DEF Recheck, SinkTypeOK, LoadsAreNotOlderThanSink
    <3>3. LateIsPending'
      BY <2>20, <2>0 DEF Recheck, SinkTypeOK, LateIsPending
    <3> QED
      BY <3>1, <3>2, <3>3
  <2>21. ASSUME NEW s \in Sinks, LoadAgain(s) PROVE Inv'
    <3>1. SinksAreNotAhead'
      BY <2>21, <2>0 DEF LoadAgain, SinksAreNotAhead
    <3>2. LoadsAreNotOlderThanSink'
      BY <2>21, <2>0 DEF LoadAgain, Read, SinkTypeOK, ReloadTypeOK,
         LoadsAreNotOlderThanSink
    <3>3. LateIsPending'
      BY <2>21, <2>0 DEF LoadAgain, SinkTypeOK, LateIsPending
    <3> QED
      BY <3>1, <3>2, <3>3
  <2>22. ASSUME NEW s \in Sinks, Restore(s) PROVE Inv'
    <3>1. SinksAreNotAhead'
      BY <2>22, <2>0 DEF Restore, SinksAreNotAhead
    <3>2. LoadsAreNotOlderThanSink'
      BY <2>22, <2>0 DEF Restore, SinkTypeOK, LoadsAreNotOlderThanSink
    <3>3. LateIsPending'
      BY <2>22 DEF Restore, Serve, LateIsPending
    <3> QED
      BY <3>1, <3>2, <3>3
  <2>23. ASSUME NEW s \in Sinks, RestoreFails(s) PROVE Inv'
    <3>1. SinksAreNotAhead'
      BY <2>23, <2>0 DEF RestoreFails, SinksAreNotAhead
    <3>2. LoadsAreNotOlderThanSink'
      BY <2>23, <2>0 DEF RestoreFails, SinkTypeOK, LoadsAreNotOlderThanSink
    <3>3. LateIsPending'
      BY <2>23, <2>0 DEF RestoreFails, SinkTypeOK, LateIsPending
    <3> QED
      BY <3>1, <3>2, <3>3
  <2>24. ASSUME NEW r \in Reloaders, BeginReload(r) PROVE Inv'
    <3>1. SinksAreNotAhead'
      BY <2>24 DEF BeginReload, SinksAreNotAhead
    <3>2. LoadsAreNotOlderThanSink'
      BY <2>24, <2>0, ReloadersAreNoSinks DEF BeginReload, Read,
         ReloadTypeOK, LoadsAreNotOlderThanSink
    <3>3. LateIsPending'
      BY <2>24, <2>b, <2>0 DEF BeginReload
    <3> QED
      BY <3>1, <3>2, <3>3
  <2>25. ASSUME NEW r \in Reloaders, EndReload(r) PROVE Inv'
    <3>1. SinksAreNotAhead'
      BY <2>25 DEF EndReload, SinksAreNotAhead
    <3>2. LoadsAreNotOlderThanSink'
      BY <2>25 DEF EndReload, LoadsAreNotOlderThanSink
    <3>3. LateIsPending'
      BY <2>25 DEF EndReload, Serve, LateIsPending
    <3> QED
      BY <3>1, <3>2, <3>3
  <2>26. CASE UNCHANGED vars
    BY <2>26, <2>a, <2>b, <2>0 DEF vars
  <2> QED
    BY <2>1, <2>2, <2>3, <2>4, <2>5, <2>6, <2>7, <2>8, <2>9, <2>10, <2>11,
       <2>12, <2>13, <2>14, <2>15, <2>16, <2>17, <2>18, <2>19, <2>20, <2>21,
       <2>22, <2>23, <2>24, <2>25, <2>26 DEF Next, FetchNext, SinkNext
<1>3. Inv => LateDeliveryIsUndone
  BY DEF LateIsPending, LateDeliveryIsUndone
<1> QED
  BY <1>1, <1>2, <1>3, FenceHolds, PTL DEF Spec

=============================================================================
