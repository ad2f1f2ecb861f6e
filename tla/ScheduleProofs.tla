--------------------------- MODULE ScheduleProofs ---------------------------
(* That the executions of a schedule outnumber the slots that execute its   *)
(* ticks by no more than those that returned, for any number of slots,      *)
(* requests and faults.                                                     *)
EXTENDS Schedule, FiniteSetTheorems, TLAPS

\* The ticks that have passed the check and not yet inserted their execution.
Committed == {k \in Trigger : trigger[k].pc \in {"load_wf", "insert"}}

\* They, the executions under way and those that will be again are no more than
\* the slots and the faults.
Bounded == Active + returning + Cardinality(Committed) <= Cardinality(Trigger) + faults

\* The ticks whose execution is PENDING without a message.
Undispatched == {k \in Trigger : trigger[k].pc = "dispatch"}

\* Each has an execution of its own.
Covered == sent + Cardinality(Undispatched) <= pending

\* What returns was a fault each time.
FewReturn == returning <= faults

ScheduleInv == TypeOK /\ Covered /\ FewReturn /\ Bounded

\* Both sets are finite.
LEMMA Finite ==
  /\ IsFiniteSet(Committed) /\ Cardinality(Committed) \in Nat
  /\ IsFiniteSet(Undispatched) /\ Cardinality(Undispatched) \in Nat
  /\ Cardinality(Trigger) \in Nat
<1>1. Committed \in SUBSET Trigger /\ Undispatched \in SUBSET Trigger
  BY DEF Committed, Undispatched
<1> QED
  BY <1>1, FiniteSlots, FS_Subset, FS_CardinalityType

\* The bound after a step, in terms of numbers.
LEMMA NextBound ==
  ASSUME NEW p, NEW r, NEW q, NEW f, NEW c,
         pending' = p, running' = r, returning' = q, faults' = f, Cardinality(Committed') = c,
         p + r + q + c <= Cardinality(Trigger) + f
  PROVE  Bounded'
BY Zenon DEF Active, Bounded

LEMMA NextFinite ==
  /\ IsFiniteSet(Committed') /\ Cardinality(Committed') \in Nat
  /\ IsFiniteSet(Undispatched') /\ Cardinality(Undispatched') \in Nat
<1>1. Committed' \in SUBSET Trigger /\ Undispatched' \in SUBSET Trigger
  BY DEF Committed, Undispatched
<1> QED
  BY <1>1, FiniteSlots, FS_Subset, FS_CardinalityType

-----------------------------------------------------------------------------
(* Type correctness *)

LEMMA InitTypeOK == ScheduleInit => TypeOK
<1> SUFFICES ASSUME ScheduleInit PROVE TypeOK
  OBVIOUS
<1>1. sa \in Doc /\ db \in Database
  BY DEF ScheduleInit, NoSchedule, Doc, End
<1>2. entry \in BOOLEAN /\ wf \in BOOLEAN /\ past \in BOOLEAN
  BY Zenon DEF ScheduleInit
<1>3. ticks \in Nat /\ pending \in Nat /\ sent \in 0 .. pending /\ running \in Nat
      /\ returning \in Nat /\ faults \in Nat
  BY DEF ScheduleInit
<1>4. trigger \in [Trigger -> TriggerMem]
  BY DEF ScheduleInit, IdleTrigger, NoSchedule, TriggerMem, TriggerPc, Doc, End
<1>5. api \in [Api -> ApiMem]
  BY DEF ScheduleInit, IdleRequest, NoSchedule, ApiMem, ApiPc, Doc, End
<1> QED
  BY <1>1, <1>2, <1>3, <1>4, <1>5 DEF TypeOK

\* What a slot becomes when its pc moves on, or when it is done.
LEMMA TriggerMoves ==
  ASSUME NEW k \in Trigger, trigger \in [Trigger -> TriggerMem],
         TriggerDone(k) \/ \E pc \in TriggerPc : TriggerGoto(k, pc)
  PROVE  trigger' \in [Trigger -> TriggerMem]
BY DEF TriggerDone, TriggerGoto, TriggerMem, TriggerPc, IdleTrigger, NoSchedule, Doc, End

LEMMA ApiMoves ==
  ASSUME NEW a \in Api, api \in [Api -> ApiMem],
         ApiDone(a) \/ \E pc \in ApiPc : ApiGoto(a, pc)
  PROVE  api' \in [Api -> ApiMem]
BY DEF ApiDone, ApiGoto, ApiMem, ApiPc, IdleRequest, NoSchedule, Doc, End

\* A document that was changed is a document.
LEMMA DocChanges ==
  ASSUME NEW d \in Doc
  PROVE  /\ \A s \in {"none", "on", "off", "deleted"} : [d EXCEPT !.state = s] \in Doc
         /\ \A e \in End : [d EXCEPT !.end = e] \in Doc
BY DEF Doc

\* So is what Document.set leaves.
LEMMA SetKeepsType ==
  ASSUME TypeOK, NEW a \in Api, NEW d \in Doc, Set(a, d)
  PROVE  sa' \in Doc
BY DEF TypeOK, Set

LEMMA SetBaseType ==
  ASSUME TypeOK, NEW a \in Api
  PROVE  SetBase(a) \in Doc
BY DEF TypeOK, SetBase, ApiMem

LEMMA UnregisteredType ==
  ASSUME TypeOK, Unregistered
  PROVE  entry' \in BOOLEAN /\ faults' \in Nat
<1>1. entry' \in BOOLEAN
  BY Zenon DEF TypeOK, Unregistered
<1>2. faults' \in Nat
  BY DEF TypeOK, Unregistered
<1> QED
  BY <1>1, <1>2

LEMMA TickTypeOK ==
  ASSUME TypeOK, Covered, NEW k \in Trigger, Tick(k) \/ TickLost(k)
  PROVE  TypeOK'
<1> USE DEF TypeOK, runs
<1>k. trigger[k] \in TriggerMem /\ trigger[k].sa \in Doc
  BY DEF TriggerMem
<1>1. CASE TickLoad(k)
  <2>1. trigger' \in [Trigger -> TriggerMem]
    BY <1>1 DEF TickLoad, TriggerMem, TriggerPc
  <2> QED BY <1>1, <2>1 DEF TickLoad
<1>2. CASE TickDisable(k)
  <2>1. trigger' \in [Trigger -> TriggerMem]
    BY <1>2, TriggerMoves DEF TickDisable, TriggerPc
  <2> QED BY <1>2, <2>1, UnregisteredType DEF TickDisable
<1>3. CASE TickSaveOff(k)
  <2>1. trigger' \in [Trigger -> TriggerMem]
    BY <1>3, TriggerMoves DEF TickSaveOff
  <2>2. sa' \in Doc
    BY <1>3, <1>k, DocChanges DEF TickSaveOff
  <2> QED BY <1>3, <2>1, <2>2 DEF TickSaveOff
<1>4. CASE TickCheck(k)
  <2>1. trigger' \in [Trigger -> TriggerMem]
    BY <1>4, TriggerMoves DEF TickCheck, TriggerPc
  <2> QED BY <1>4, <2>1 DEF TickCheck
<1>5. CASE TickLoadWf(k)
  <2>1. trigger' \in [Trigger -> TriggerMem]
    BY <1>5, TriggerMoves DEF TickLoadWf, TriggerPc
  <2> QED BY <1>5, <2>1 DEF TickLoadWf
<1>6. CASE TickInsert(k)
  <2>1. trigger' \in [Trigger -> TriggerMem]
    BY <1>6, TriggerMoves DEF TickInsert, TriggerPc
  <2>2. pending' \in Nat /\ sent' \in 0 .. pending'
    BY <1>6 DEF TickInsert
  <2> QED BY <1>6, <2>1, <2>2 DEF TickInsert
<1>7. CASE TickDispatch(k)
  <2>1. trigger' \in [Trigger -> TriggerMem]
    BY <1>7, TriggerMoves DEF TickDispatch, TriggerPc
  <2>2. Cardinality(Undispatched) # 0
    BY <1>7, Finite, FS_EmptySet DEF TickDispatch, TriggerAt, Undispatched
  <2>3. sent' \in 0 .. pending
    BY <1>7, <2>2, Finite DEF TickDispatch, Covered
  <2> QED BY <1>7, <2>1, <2>3 DEF TickDispatch
<1>8. CASE TickStamp(k)
  <2>1. trigger' \in [Trigger -> TriggerMem]
    BY <1>8, TriggerMoves DEF TickStamp
  <2> QED BY <1>8, <1>k, <2>1 DEF TickStamp
<1>9. CASE TickLost(k)
  <2>1. trigger' \in [Trigger -> TriggerMem]
    BY <1>9, TriggerMoves DEF TickLost
  <2> QED BY <1>9, <2>1 DEF TickLost, Fault
<1> QED
  BY <1>1, <1>2, <1>3, <1>4, <1>5, <1>6, <1>7, <1>8, <1>9 DEF Tick

LEMMA RunTypeOK ==
  ASSUME TypeOK, RunStarts \/ RunEnds \/ RunReturns
  PROVE  TypeOK'
<1>1. pending' \in Nat /\ sent' \in 0 .. pending' /\ running' \in Nat
  BY DEF TypeOK, RunStarts, RunEnds, RunReturns
<1>2. returning' \in Nat /\ faults' \in Nat
  BY DEF TypeOK, RunStarts, RunEnds, RunReturns, Settles, Fault
<1> QED
  BY <1>1, <1>2 DEF TypeOK, RunStarts, RunEnds, RunReturns

LEMMA KeptType ==
  ASSUME NEW d \in Doc
  PROVE  Kept(d) \in Doc
BY DEF Kept, NoSchedule, Doc, End

LEMMA ArriveTypeOK ==
  ASSUME TypeOK, NEW a \in Api, Arrive(a)
  PROVE  TypeOK'
<1> USE DEF TypeOK, runs
<1>1. ASSUME NEW kind, NEW states, NEW pc \in ApiPc, Load(a, kind, states, pc)
      PROVE  TypeOK'
  <2>1. api' \in [Api -> ApiMem]
    BY <1>1, KeptType DEF Load, ApiMem
  <2> QED BY <1>1, <2>1 DEF Load
<1>2. CASE CreateInsert(a)
  <2>1. sa' \in Doc
    BY <1>2 DEF CreateInsert, Doc
  <2>2. api' \in [Api -> ApiMem]
    BY <1>2, <2>1 DEF CreateInsert, ApiMem, ApiPc
  <2> QED BY <1>2, <2>1, <2>2 DEF CreateInsert
<1> QED
  BY <1>1, <1>2 DEF Arrive, UpdateLoad, EnableLoad, DisableLoad, DeleteLoad, ApiPc

LEMMA HandleTypeOK ==
  ASSUME TypeOK, NEW a \in Api, Handle(a) \/ ApiLost(a)
  PROVE  TypeOK'
<1>a. api[a] \in ApiMem /\ api[a].sa \in Doc /\ api \in [Api -> ApiMem]
  BY DEF TypeOK, ApiMem
<1>b. sa \in Doc /\ SetBase(a) \in Doc
  BY SetBaseType DEF TypeOK
<1> USE DEF TypeOK, runs
<1>1. CASE CreateSave(a)
  <2>1. api' \in [Api -> ApiMem]
    BY <1>1, ApiMoves DEF CreateSave
  <2> QED BY <1>1, <1>a, <2>1 DEF CreateSave
<1>2. CASE CreateUndo(a) \/ DeleteDoc(a)
  <2>1. api' \in [Api -> ApiMem]
    BY <1>2, ApiMoves DEF CreateUndo, DeleteDoc
  <2>2. sa' \in Doc
    BY <1>2, <1>b, DocChanges DEF CreateUndo, DeleteDoc
  <2> QED BY <1>2, <2>1, <2>2 DEF CreateUndo, DeleteDoc
<1>3. CASE UpdateSet(a)
  <2>1. PICK e \in End, timing \in BOOLEAN :
          /\ Set(a, [SetBase(a) EXCEPT !.end = e])
          /\ IF timing /\ sa'.state = "on"
             THEN api' = [api EXCEPT ![a] = [pc |-> "u_unregister", sa |-> Kept(sa')]]
             ELSE ApiDone(a)
    BY <1>3, Zenon DEF UpdateSet
  <2>2. sa' \in Doc
    BY <2>1, <1>b, DocChanges, SetKeepsType
  <2>3. api' \in [Api -> ApiMem]
    BY <2>1, <2>2, <1>a, ApiMoves, KeptType DEF ApiMem, ApiPc
  <2> QED BY <1>3, <2>2, <2>3 DEF UpdateSet
<1>4. CASE UpdateKey(a)
  <2>1. sa' \in Doc
    BY <1>4, <1>b, SetKeepsType DEF UpdateKey
  <2>2. api' \in [Api -> ApiMem]
    BY <1>4, ApiMoves DEF UpdateKey
  <2> QED BY <1>4, <2>1, <2>2 DEF UpdateKey
<1>5. CASE EnableSet(a) \/ DisableSet(a)
  <2>1. sa' \in Doc
    BY <1>5, <1>b, DocChanges, SetKeepsType DEF EnableSet, DisableSet
  <2>2. api' \in [Api -> ApiMem]
    BY <1>5, ApiMoves DEF EnableSet, DisableSet
  <2> QED BY <1>5, <2>1, <2>2 DEF EnableSet, DisableSet
<1>6. CASE Register(a)
  <2>1. api' \in [Api -> ApiMem]
    BY <1>6, <1>a, ApiMoves DEF Register, ApiPc
  <2>2. entry' \in BOOLEAN /\ faults' = faults
    BY <1>6, Zenon DEF Register, Registered
  <2> QED BY <1>6, <2>1, <2>2 DEF Register
<1>7. CASE Unregister(a)
  <2>1. api' \in [Api -> ApiMem]
    BY <1>7, <1>a, ApiMoves DEF Unregister, ApiPc
  <2> QED BY <1>7, <2>1, UnregisteredType DEF Unregister
<1>8. CASE ApiLost(a)
  <2>1. api' \in [Api -> ApiMem]
    BY <1>8, <1>a, ApiMoves DEF ApiLost, ApiPc
  <2> QED BY <1>8, <2>1 DEF ApiLost, Fault
<1> QED
  BY <1>1, <1>2, <1>3, <1>4, <1>5, <1>6, <1>7, <1>8 DEF Handle

LEMMA NextTypeOK == TypeOK /\ Covered /\ [ScheduleNext]_svars => TypeOK'
<1> SUFFICES ASSUME TypeOK, Covered, [ScheduleNext]_svars PROVE TypeOK'
  OBVIOUS
<1>1. CASE Beat
  BY <1>1 DEF Beat, TypeOK, runs
<1>2. CASE DropWorkflow
  BY <1>2, Zenon DEF DropWorkflow, TypeOK, runs
<1>3. CASE TimePasses \/ RunSaves
  BY <1>3, Zenon DEF TimePasses, RunSaves, TypeOK, runs
<1>4. CASE UNCHANGED svars
  BY <1>4 DEF svars, TypeOK
<1> QED
  BY <1>1, <1>2, <1>3, <1>4, TickTypeOK, RunTypeOK, ArriveTypeOK, HandleTypeOK DEF ScheduleNext

-----------------------------------------------------------------------------
(* Messages and executions *)

LEMMA InitCovered == ScheduleInit => Covered
<1> SUFFICES ASSUME ScheduleInit PROVE Covered
  OBVIOUS
<1>1. Undispatched = {} /\ sent = 0 /\ pending = 0
  BY DEF ScheduleInit, Undispatched, IdleTrigger
<1> QED
  BY <1>1, FS_EmptySet DEF Covered

\* No slot comes to owe a message.
LEMMA CoveredMonotonic ==
  ASSUME TypeOK, Covered, Undispatched' \subseteq Undispatched, UNCHANGED <<pending, sent>>
  PROVE  Covered'
<1>1. Cardinality(Undispatched') <= Cardinality(Undispatched)
  BY Finite, FS_Subset
<1> QED
  BY <1>1, Finite, NextFinite DEF Covered, TypeOK

LEMMA TickCovered ==
  ASSUME TypeOK, Covered, NEW k \in Trigger, Tick(k) \/ TickLost(k)
  PROVE  Covered'
<1>t. trigger \in [Trigger -> TriggerMem] /\ pending \in Nat /\ sent \in Nat
  BY DEF TypeOK
<1>1. CASE TickInsert(k)
  <2>1. k \notin Undispatched /\ Undispatched' = Undispatched \cup {k}
    BY <1>1, <1>t DEF TickInsert, Undispatched, TriggerAt, TriggerGoto, TriggerMem
  <2>2. Cardinality(Undispatched') = Cardinality(Undispatched) + 1
    BY <2>1, Finite, FS_AddElement
  <2>3. pending' = pending + 1 /\ sent' = sent
    BY <1>1 DEF TickInsert
  <2> QED BY <1>t, <2>2, <2>3, Finite DEF Covered
<1>2. CASE TickDispatch(k)
  <2>1. k \in Undispatched /\ Undispatched' = Undispatched \ {k}
    BY <1>2, <1>t DEF TickDispatch, Undispatched, TriggerAt, TriggerGoto, TriggerMem
  <2>2. Cardinality(Undispatched') = Cardinality(Undispatched) - 1
    BY <2>1, Finite, FS_RemoveElement
  <2>3. pending' = pending /\ sent' = sent + 1
    BY <1>2 DEF TickDispatch
  <2> QED BY <1>t, <2>2, <2>3, Finite DEF Covered
<1>3. CASE TickLoad(k) \/ TickDisable(k) \/ TickSaveOff(k) \/ TickCheck(k)
  <2>1. Undispatched' \subseteq Undispatched /\ UNCHANGED <<pending, sent>>
    BY <1>3, <1>t DEF TickLoad, TickDisable, TickSaveOff, TickCheck, Undispatched,
       TriggerAt, TriggerGoto, TriggerDone, IdleTrigger, TriggerMem, runs
  <2> QED BY <2>1, CoveredMonotonic
<1>4. CASE TickLoadWf(k) \/ TickStamp(k) \/ TickLost(k)
  <2>1. Undispatched' \subseteq Undispatched /\ UNCHANGED <<pending, sent>>
    BY <1>4, <1>t DEF TickLoadWf, TickStamp, TickLost, Undispatched,
       TriggerAt, TriggerGoto, TriggerDone, IdleTrigger, TriggerMem, runs
  <2> QED BY <2>1, CoveredMonotonic
<1> QED
  BY <1>1, <1>2, <1>3, <1>4 DEF Tick

LEMMA NextCovered == TypeOK /\ Covered /\ [ScheduleNext]_svars => Covered'
<1> SUFFICES ASSUME TypeOK, Covered, [ScheduleNext]_svars PROVE Covered'
  OBVIOUS
<1>1. CASE RunStarts
  <2>1. Undispatched' = Undispatched /\ sent' = sent - 1
    BY <1>1 DEF RunStarts, Undispatched
  <2>2. pending' = pending - 1 \/ pending' = pending
    BY <1>1 DEF RunStarts
  <2> QED BY <2>1, <2>2, Finite DEF Covered, TypeOK
<1>2. ASSUME UNCHANGED <<pending, sent, trigger>>
      PROVE  Covered'
  BY <1>2 DEF Covered, Undispatched
<1>3. CASE Beat \/ DropWorkflow \/ TimePasses \/ RunSaves \/ RunEnds \/ RunReturns \/ UNCHANGED svars
  BY <1>2, <1>3 DEF Beat, DropWorkflow, TimePasses, RunSaves, RunEnds, RunReturns, svars, runs
<1>4. ASSUME NEW a \in Api, Arrive(a)
      PROVE  Covered'
  BY <1>2, <1>4 DEF Arrive, Load, UpdateLoad, EnableLoad, DisableLoad, DeleteLoad, CreateInsert, runs
<1>5. ASSUME NEW a \in Api, Handle(a) \/ ApiLost(a)
      PROVE  Covered'
  BY <1>2, <1>5 DEF Handle, CreateSave, CreateUndo, UpdateSet, UpdateKey, EnableSet, DisableSet,
     DeleteDoc, Register, Unregister, ApiLost, runs
<1> QED
  BY <1>1, <1>3, <1>4, <1>5, TickCovered DEF ScheduleNext

\* The variables of a schedule keep their types; in particular no message waits
\* for an execution that is not PENDING.
THEOREM ScheduleTypeCorrect == ScheduleSpec => []TypeOK
<1>1. ScheduleInit => TypeOK /\ Covered
  BY InitTypeOK, InitCovered
<1>2. TypeOK /\ Covered /\ [ScheduleNext]_svars => (TypeOK /\ Covered)'
  BY NextTypeOK, NextCovered
<1> QED
  BY <1>1, <1>2, PTL DEF ScheduleSpec

-----------------------------------------------------------------------------
(* The bound *)

LEMMA InitBounded == ScheduleInit => Bounded
<1> SUFFICES ASSUME ScheduleInit PROVE Bounded
  OBVIOUS
<1>1. Active = 0 /\ returning = 0 /\ faults = 0 /\ Committed = {}
  BY DEF ScheduleInit, Active, Committed, IdleTrigger
<1> QED
  BY <1>1, Finite, FS_EmptySet DEF Bounded

\* No slot commits itself, and no execution begins or returns but for a fault.
LEMMA BoundedMonotonic ==
  ASSUME TypeOK, Bounded, Committed' \subseteq Committed,
         NEW p \in Nat, NEW r \in Nat, NEW q \in Nat, NEW f \in Nat,
         pending' = p, running' = r, returning' = q, faults' = f,
         p + r + q + faults <= pending + running + returning + f
  PROVE  Bounded'
<1>1. PICK c \in Nat : Cardinality(Committed') = c
  BY NextFinite
<1>2. c <= Cardinality(Committed)
  BY <1>1, Finite, FS_Subset
<1>3. p + r + q + c <= Cardinality(Trigger) + f
  BY <1>1, <1>2, Finite DEF TypeOK, Bounded, Active
<1> QED
  BY <1>1, <1>3, NextBound

\* A slot commits itself when nothing is under way, and an execution begins when
\* a committed slot inserts it.
LEMMA TickBounded ==
  ASSUME TypeOK, FewReturn, Bounded, NEW k \in Trigger, Tick(k) \/ TickLost(k)
  PROVE  Bounded'
<1>t. trigger \in [Trigger -> TriggerMem]
  BY DEF TypeOK
<1>n. pending \in Nat /\ running \in Nat /\ returning \in Nat /\ faults \in Nat
  BY DEF TypeOK
<1>1. CASE TickCheck(k) /\ ~Overlapping
  <2>1. pending = 0 /\ running = 0 /\ UNCHANGED <<pending, running, returning, faults>>
    BY <1>1, <1>n DEF TickCheck, Overlapping, runs
  <2>2. PICK c \in Nat : Cardinality(Committed') = c
    BY NextFinite
  <2>3. Committed' \in SUBSET Trigger
    BY DEF Committed
  <2>4. c <= Cardinality(Trigger)
    BY <2>2, <2>3, FiniteSlots, FS_Subset
  <2>5. 0 + 0 + returning + c <= Cardinality(Trigger) + faults
    BY <2>4, <1>n, Finite DEF FewReturn
  <2> QED BY <2>1, <2>2, <2>5, NextBound
<1>2. CASE TickInsert(k)
  <2>1. k \in Committed /\ Committed' = Committed \ {k}
    BY <1>2, <1>t DEF TickInsert, Committed, TriggerAt, TriggerGoto, TriggerMem
  <2>2. Cardinality(Committed') = Cardinality(Committed) - 1
    BY <2>1, Finite, FS_RemoveElement
  <2>3. pending' = pending + 1 /\ UNCHANGED <<running, returning, faults>>
    BY <1>2 DEF TickInsert
  <2>4. (pending + 1) + running + returning + (Cardinality(Committed) - 1) <= Cardinality(Trigger) + faults
    BY <1>n, Finite DEF Bounded, Active
  <2> QED BY <2>2, <2>3, <2>4, NextBound
<1>3. CASE (TickCheck(k) /\ Overlapping) \/ TickLoad(k) \/ TickSaveOff(k) \/ TickStamp(k)
           \/ TickLoadWf(k) \/ TickDispatch(k)
  <2>1. Committed' \subseteq Committed
    BY <1>3, <1>t DEF TickCheck, TickLoad, TickSaveOff, TickStamp, TickLoadWf, TickDispatch, Committed,
       TriggerAt, TriggerGoto, TriggerDone, IdleTrigger, TriggerMem
  <2>2. UNCHANGED <<pending, running, returning, faults>>
    BY <1>3 DEF TickCheck, TickLoad, TickSaveOff, TickStamp, TickLoadWf, TickDispatch, runs
  <2> QED BY <1>n, <2>1, <2>2, BoundedMonotonic
<1>4. CASE TickDisable(k) \/ TickLost(k)
  <2>1. Committed' \subseteq Committed
    BY <1>4, <1>t DEF TickDisable, TickLost, Committed, TriggerAt, TriggerGoto, TriggerDone,
       IdleTrigger, TriggerMem
  <2>2. UNCHANGED <<pending, running, returning>>
    BY <1>4 DEF TickDisable, TickLost, runs
  <2>3. PICK f \in Nat : faults' = f /\ faults <= f
    BY <1>4, <1>n DEF TickDisable, TickLost, Unregistered, Fault
  <2> QED BY <1>n, <2>1, <2>2, <2>3, BoundedMonotonic
<1> QED
  BY <1>1, <1>2, <1>3, <1>4 DEF Tick

LEMMA RunBounded ==
  ASSUME TypeOK, Bounded, RunStarts \/ RunEnds \/ RunReturns
  PROVE  Bounded'
<1>n. pending \in Nat /\ running \in Nat /\ returning \in Nat /\ faults \in Nat /\ sent \in 0 .. pending
  BY DEF TypeOK
<1>c. Committed' \subseteq Committed
  BY DEF RunStarts, RunEnds, RunReturns, Committed
<1>s. ASSUME Settles
      PROVE  \E q, f \in Nat : /\ returning' = q /\ faults' = f
                               /\ q + faults <= returning + f
  <2>1. CASE UNCHANGED <<returning, faults>>
    <3>1. returning + faults <= returning + faults
      BY <1>n
    <3> QED BY <1>n, <2>1, <3>1
  <2>2. CASE Fault /\ returning' = returning + 1
    <3>1. faults' = faults + 1 /\ (returning + 1) + faults <= returning + (faults + 1)
      BY <1>n, <2>2 DEF Fault
    <3>2. returning + 1 \in Nat /\ faults + 1 \in Nat
      BY <1>n
    <3> QED BY <2>2, <3>1, <3>2
  <2> QED BY <1>s, <2>1, <2>2 DEF Settles
<1>1. CASE RunStarts
  <2>1. pending - 1 \in Nat
    BY <1>1, <1>n DEF RunStarts
  <2>2. CASE pending' = pending - 1 /\ running' = running + 1 /\ UNCHANGED <<returning, faults>>
    BY <1>n, <1>c, <2>1, <2>2, BoundedMonotonic
  <2>3. CASE pending' = pending - 1 /\ UNCHANGED running /\ Settles
    <3>1. PICK q, f \in Nat : returning' = q /\ faults' = f /\ q + faults <= returning + f
      BY <1>s, <2>3
    <3> QED BY <1>n, <1>c, <2>1, <2>3, <3>1, BoundedMonotonic
  <2>4. CASE UNCHANGED <<pending, running, returning, faults>>
    BY <1>n, <1>c, <2>4, BoundedMonotonic
  <2> QED BY <1>1, <2>2, <2>3, <2>4 DEF RunStarts
<1>2. CASE RunEnds
  <2>1. running - 1 \in Nat /\ running' = running - 1 /\ UNCHANGED pending
    BY <1>2, <1>n DEF RunEnds
  <2>2. PICK q, f \in Nat : returning' = q /\ faults' = f /\ q + faults <= returning + f
    BY <1>s, <1>2 DEF RunEnds
  <2> QED BY <1>n, <1>c, <2>1, <2>2, BoundedMonotonic
<1>3. CASE RunReturns
  <2>1. PICK r \in {running, running + 1} : running' = r
    BY <1>3 DEF RunReturns
  <2>2. returning - 1 \in Nat /\ returning' = returning - 1 /\ UNCHANGED <<pending, faults>>
    BY <1>3, <1>n DEF RunReturns
  <2> QED BY <1>n, <1>c, <2>1, <2>2, BoundedMonotonic
<1> QED
  BY <1>1, <1>2, <1>3

\* Nothing else looks at what is under way.
LEMMA OtherBounded ==
  ASSUME TypeOK, Bounded, UNCHANGED <<runs, trigger>>,
         UNCHANGED faults \/ faults' = faults + 1
  PROVE  Bounded'
<1>1. Committed' \subseteq Committed /\ UNCHANGED <<pending, running, returning>>
  BY DEF Committed, runs
<1>2. pending \in Nat /\ running \in Nat /\ returning \in Nat /\ faults \in Nat
  BY DEF TypeOK
<1>3. PICK f \in Nat : faults' = f /\ faults <= f
  BY <1>2
<1>4. pending + running + returning + faults <= pending + running + returning + f
  BY <1>2, <1>3
<1> QED
  BY <1>1, <1>2, <1>3, <1>4, BoundedMonotonic

LEMMA ApiLeavesRuns ==
  ASSUME NEW a \in Api, Arrive(a) \/ Handle(a) \/ ApiLost(a)
  PROVE  UNCHANGED <<runs, trigger>> /\ UNCHANGED returning
         /\ (UNCHANGED faults \/ faults' = faults + 1)
<1>1. CASE Arrive(a)
  BY <1>1 DEF Arrive, Load, UpdateLoad, EnableLoad, DisableLoad, DeleteLoad, CreateInsert, runs
<1>2. CASE Handle(a) \/ ApiLost(a)
  BY <1>2 DEF Handle, CreateSave, CreateUndo, UpdateSet, UpdateKey, EnableSet, DisableSet, DeleteDoc,
     Register, Unregister, ApiLost, Registered, Unregistered, Fault, runs
<1> QED
  BY <1>1, <1>2

LEMMA NextFewReturn == TypeOK /\ FewReturn /\ [ScheduleNext]_svars => FewReturn'
<1> SUFFICES ASSUME TypeOK, FewReturn, [ScheduleNext]_svars PROVE FewReturn'
  OBVIOUS
<1>n. returning \in Nat /\ faults \in Nat
  BY DEF TypeOK
<1>1. ASSUME NEW q \in Nat, NEW f \in Nat, returning' = q, faults' = f, q <= f
      PROVE  FewReturn'
  BY <1>1, Zenon DEF FewReturn
<1>2. CASE RunStarts \/ RunEnds \/ RunReturns
  <2>1. \/ UNCHANGED <<returning, faults>>
        \/ returning' = returning + 1 /\ faults' = faults + 1
        \/ returning > 0 /\ returning' = returning - 1 /\ UNCHANGED faults
    BY <1>2 DEF RunStarts, RunEnds, RunReturns, Settles, Fault
  <2>2. returning + 1 \in Nat /\ faults + 1 \in Nat /\ (returning > 0 => returning - 1 \in Nat)
    BY <1>n
  <2>3. returning + 1 <= faults + 1 /\ returning - 1 <= faults /\ returning <= faults
    BY <1>n DEF FewReturn
  <2> QED BY <1>1, <1>n, <2>1, <2>2, <2>3
<1>3. ASSUME UNCHANGED returning, UNCHANGED faults \/ faults' = faults + 1
      PROVE  FewReturn'
  <2>1. faults + 1 \in Nat /\ returning <= faults /\ returning <= faults + 1
    BY <1>n DEF FewReturn
  <2> QED BY <1>1, <1>3, <1>n, <2>1
<1>4. CASE Beat \/ DropWorkflow \/ TimePasses \/ RunSaves \/ UNCHANGED svars
  BY <1>3, <1>4 DEF Beat, DropWorkflow, TimePasses, RunSaves, svars, runs
<1>5. ASSUME NEW k \in Trigger, Tick(k) \/ TickLost(k)
      PROVE  FewReturn'
  BY <1>3, <1>5 DEF Tick, TickLoad, TickDisable, TickSaveOff, TickCheck, TickLoadWf, TickInsert,
     TickDispatch, TickStamp, TickLost, Unregistered, Fault, runs
<1>6. ASSUME NEW a \in Api, Arrive(a) \/ Handle(a) \/ ApiLost(a)
      PROVE  FewReturn'
  BY <1>3, <1>6, ApiLeavesRuns
<1> QED
  BY <1>2, <1>4, <1>5, <1>6 DEF ScheduleNext

LEMMA NextBounded == TypeOK /\ FewReturn /\ Bounded /\ [ScheduleNext]_svars => Bounded'
<1> SUFFICES ASSUME TypeOK, FewReturn, Bounded, [ScheduleNext]_svars PROVE Bounded'
  OBVIOUS
<1>1. CASE Beat \/ DropWorkflow \/ TimePasses \/ RunSaves \/ UNCHANGED svars
  BY <1>1, OtherBounded DEF Beat, DropWorkflow, TimePasses, RunSaves, svars, runs
<1>2. ASSUME NEW a \in Api, Arrive(a) \/ Handle(a) \/ ApiLost(a)
      PROVE  Bounded'
  BY <1>2, ApiLeavesRuns, OtherBounded
<1> QED
  BY <1>1, <1>2, TickBounded, RunBounded DEF ScheduleNext

\* Ticks that are executed at once can all pass the check for executions under
\* way, but the executions under way never exceed the slots, but for those that
\* returned.
THEOREM OverlapBounded == ScheduleSpec => []OverlapIsBounded
<1>1. ScheduleInit => ScheduleInv
  <2>1. ScheduleInit => FewReturn
    BY DEF ScheduleInit, FewReturn
  <2> QED BY <2>1, InitTypeOK, InitCovered, InitBounded DEF ScheduleInv
<1>2. ScheduleInv /\ [ScheduleNext]_svars => ScheduleInv'
  BY NextTypeOK, NextCovered, NextFewReturn, NextBounded DEF ScheduleInv
<1>3. ScheduleInv => OverlapIsBounded
  <2> SUFFICES ASSUME ScheduleInv PROVE OverlapIsBounded
    OBVIOUS
  <2>1. Active \in Nat /\ returning \in Nat /\ faults \in Nat
    BY DEF ScheduleInv, TypeOK, Active
  <2> QED BY <2>1, Finite DEF ScheduleInv, Bounded, OverlapIsBounded
<1> QED
  BY <1>1, <1>2, <1>3, PTL DEF ScheduleSpec

=============================================================================
