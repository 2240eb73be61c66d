--------------------------- MODULE TouchesProofs ---------------------------
(***************************************************************************)
(* Proofs that touches are counted, queued and attributed correctly, for   *)
(* any number of slots, touches, buttons and fd changes.                   *)
(*                                                                         *)
(* fingers_down is a natural number because it never falls below the       *)
(* number of live touches.  EndTouch decrements it for a touch that may    *)
(* already have ended; that the kernel only ends a contact, and that a     *)
(* contact is a live touch or one the library was never told about, rules  *)
(* this out.  The inductive invariant combines these three.                *)
(***************************************************************************)
EXTENDS Touches, TLAPS, FiniteSetTheorems

(* Fingers the library was never told about have no touch. *)
UnseenUntouched == \A t \in Touch : t \in unseen => state[t] = "NONE"

(* The counter is exact until the fd changes, and too high afterwards. *)
CountCovers ==
    /\ fingers_down >= Cardinality(Live)
    /\ fd_changes = 0 => fingers_down = Cardinality(Live)

IInv == TypeOK /\ KernelAgreement /\ UnseenUntouched /\ CountCovers

----------------------------------------------------------------------------
(* The touches and the live touches are finite sets. *)
LEMMA LiveFinite ==
    /\ ntouches \in Nat \ {0}
    /\ Touch \subseteq Slots
    /\ IsFiniteSet(Live)
    /\ Cardinality(Live) \in Nat
<1>1. ntouches \in Nat \ {0} /\ ntouches <= NumSlots /\ NumSlots \in Nat
  BY SlotsAssumption DEF ntouches
<1>2. Touch \subseteq Slots
  BY <1>1 DEF Touch, Slots
<1>3. IsFiniteSet(Touch)
  BY <1>1, FS_Interval DEF Touch
<1>4. IsFiniteSet(Live)
  BY <1>3, FS_Subset DEF Live
<1> QED
  BY <1>1, <1>2, <1>4, FS_CardinalityType

(* BeginTouch on a touch the kernel agrees about keeps the counter exact. *)
LEMMA BeginTouchCounts ==
    ASSUME TypeOK, CountCovers, fd_changes' = fd_changes,
           NEW t \in Touch, BeginTouch(t)
    PROVE  /\ Live' = Live \cup {t}
           /\ CountCovers'
           /\ fingers_down' \in Nat
           /\ state' \in [Touch -> TouchStates]
<1>1. /\ state \in [Touch -> TouchStates]
      /\ fingers_down \in Nat
  BY DEF TypeOK
<1>2. /\ state' \in [Touch -> TouchStates]
      /\ state'[t] \in {"BEGIN", "UPDATE"}
      /\ \A u \in Touch \ {t} : state'[u] = state[u]
  BY <1>1 DEF BeginTouch, TouchStates
<1>3. Live' = Live \cup {t}
  BY <1>2 DEF Live
<1>4. fingers_down' = IF t \in Live THEN fingers_down ELSE fingers_down + 1
  BY <1>1 DEF BeginTouch, Live, TouchStates
<1>5. Cardinality(Live') = IF t \in Live THEN Cardinality(Live) ELSE Cardinality(Live) + 1
  BY <1>3, LiveFinite, FS_AddElement
<1> QED
  BY <1>1, <1>2, <1>3, <1>4, <1>5, LiveFinite DEF CountCovers

(* EndTouch on a live touch keeps the counter exact. *)
LEMMA EndTouchCounts ==
    ASSUME TypeOK, CountCovers, fd_changes' = fd_changes,
           NEW t \in Touch, EndTouch(t), state[t] # "END"
    PROVE  /\ Live' = Live \ {t}
           /\ CountCovers'
           /\ fingers_down' \in Nat
           /\ state' \in [Touch -> TouchStates]
<1>1. /\ state \in [Touch -> TouchStates]
      /\ fingers_down \in Nat
  BY DEF TypeOK
<1>2. /\ state' \in [Touch -> TouchStates]
      /\ state'[t] \in {"NONE", "END"}
      /\ \A u \in Touch \ {t} : state'[u] = state[u]
  BY <1>1 DEF EndTouch, TouchStates, touchVars
<1>3. Live' = Live \ {t}
  BY <1>2 DEF Live
<1>4. fingers_down' = IF t \in Live THEN fingers_down - 1 ELSE fingers_down
  BY <1>1 DEF EndTouch, Live, TouchStates, touchVars
<1>5. Cardinality(Live') = IF t \in Live THEN Cardinality(Live) - 1 ELSE Cardinality(Live)
  BY <1>3, LiveFinite, FS_RemoveElement
<1>6. IsFiniteSet(Live') /\ Cardinality(Live') \in Nat
  BY <1>3, LiveFinite, FS_RemoveElement, FS_CardinalityType
<1> QED
  BY <1>1, <1>2, <1>3, <1>4, <1>5, <1>6, LiveFinite DEF CountCovers

(* A step that leaves the touches alone leaves CountCovers alone. *)
LEMMA CountCoversUnchanged ==
    ASSUME CountCovers, UNCHANGED <<state, fingers_down, fd_changes>>
    PROVE  CountCovers' /\ Live' = Live
<1>1. Live' = Live
  BY DEF Live
<1> QED
  BY <1>1 DEF CountCovers

----------------------------------------------------------------------------
(* Type correctness of every part that the touches do not decide. *)
LEMMA InitInv == Init => IInv
<1> SUFFICES ASSUME Init PROVE IInv
  OBVIOUS
<1>1. TypeOK
  BY FdChangesAssumption DEF Init, TypeOK, TouchStates
<1>2. Live = {}
  BY DEF Init, Live
<1>3. KernelAgreement /\ UnseenUntouched
  BY <1>2 DEF Init, KernelAgreement, UnseenUntouched
<1>4. CountCovers
  BY <1>2, FS_EmptySet DEF Init, CountCovers
<1> QED
  BY <1>1, <1>3, <1>4 DEF IInv

(* A slot that is tracked and in contact has a live touch, or a finger the  *)
(* library was never told about: its touch has not ended.                   *)
LEMMA ContactNotEnded ==
    ASSUME IInv, slot \in contact, ~NoTouch
    PROVE  slot \in Touch /\ state[slot] # "END"
BY DEF IInv, KernelAgreement, UnseenUntouched, NoTouch, Live

LEMMA StepInv == IInv /\ [Next]_vars => IInv'
<1> SUFFICES ASSUME IInv, [Next]_vars PROVE IInv'
  OBVIOUS
<1>0. TypeOK /\ KernelAgreement /\ UnseenUntouched /\ CountCovers
  BY DEF IInv
<1>1. ASSUME NEW s \in Slots, AbsMtSlot(s) PROVE IInv'
  <2>1. UNCHANGED <<contact, unseen, state, fingers_down, fd_changes>>
    BY <1>1 DEF AbsMtSlot, kernelVars, touchVars
  <2>2. TypeOK'
    BY <1>0, <1>1 DEF TypeOK, AbsMtSlot, kernelVars, touchVars
  <2> QED
    BY <1>0, <2>1, <2>2, CountCoversUnchanged DEF IInv, KernelAgreement, UnseenUntouched
<1>2. ASSUME AbsMtPosition PROVE IInv'
  <2>1. UNCHANGED <<contact, unseen, state, fingers_down, fd_changes>>
    BY <1>2 DEF AbsMtPosition, kernelVars
  <2>2. TypeOK'
    BY <1>0, <1>2 DEF TypeOK, AbsMtPosition, kernelVars, EventTypes, NoTouch
  <2> QED
    BY <1>0, <2>1, <2>2, CountCoversUnchanged DEF IInv, KernelAgreement, UnseenUntouched
<1>3. ASSUME AbsMtTrackingIdBegin PROVE IInv'
  <2>1. /\ contact' = contact \cup {slot} /\ unseen' = unseen \ {slot}
        /\ reported' = reported \cup {slot} /\ fd_changes' = fd_changes
        /\ UNCHANGED <<pressed, clicked, slot, buttons_state, pc>>
    BY <1>3 DEF AbsMtTrackingIdBegin
  <2>2. CASE slot \in Touch
    <3>1. BeginTouch(slot)
      BY <1>3, <2>2 DEF AbsMtTrackingIdBegin, NoTouch
    <3>2. /\ Live' = Live \cup {slot} /\ CountCovers' /\ fingers_down' \in Nat
          /\ state' \in [Touch -> TouchStates]
      BY <1>0, <2>1, <2>2, <3>1, BeginTouchCounts
    <3>3. dirty' \in [Touch -> BOOLEAN] /\ queued' \in SUBSET EventTypes
      BY <1>0, <3>1 DEF TypeOK, BeginTouch, EventTypes
    <3>4. TypeOK'
      BY <1>0, <2>1, <3>2, <3>3 DEF TypeOK
    <3>5. KernelAgreement'
      BY <1>0, <2>1, <2>2, <3>2 DEF KernelAgreement
    <3>6. UnseenUntouched'
      BY <1>0, <2>1, <3>1 DEF UnseenUntouched, BeginTouch, TypeOK
    <3> QED
      BY <3>2, <3>4, <3>5, <3>6 DEF IInv
  <2>3. CASE slot \notin Touch
    <3>1. UNCHANGED <<state, dirty, fingers_down, queued>>
      BY <1>3, <2>3 DEF AbsMtTrackingIdBegin, NoTouch, touchVars
    <3>2. CountCovers' /\ Live' = Live
      BY <1>0, <2>1, <3>1, CountCoversUnchanged
    <3>3. TypeOK'
      BY <1>0, <2>1, <3>1 DEF TypeOK
    <3> QED
      BY <1>0, <2>1, <2>3, <3>1, <3>2, <3>3 DEF IInv, KernelAgreement, UnseenUntouched
  <2> QED
    BY <2>2, <2>3
<1>4. ASSUME AbsMtTrackingIdEnd PROVE IInv'
  <2>1. /\ slot \in contact
        /\ contact' = contact \ {slot} /\ unseen' = unseen \ {slot}
        /\ reported' = reported \cup {slot} /\ fd_changes' = fd_changes
        /\ UNCHANGED <<pressed, clicked, slot, buttons_state, pc>>
    BY <1>4 DEF AbsMtTrackingIdEnd
  <2>2. CASE slot \in Touch
    <3>1. EndTouch(slot) /\ state[slot] # "END"
      BY <1>4, <2>1, <2>2, ContactNotEnded DEF AbsMtTrackingIdEnd, NoTouch
    <3>2. /\ Live' = Live \ {slot} /\ CountCovers' /\ fingers_down' \in Nat
          /\ state' \in [Touch -> TouchStates]
      BY <1>0, <2>1, <2>2, <3>1, EndTouchCounts
    <3>3. dirty' \in [Touch -> BOOLEAN] /\ queued' \in SUBSET EventTypes
      BY <1>0, <3>1 DEF TypeOK, EndTouch, EventTypes, touchVars
    <3>4. TypeOK'
      BY <1>0, <2>1, <3>2, <3>3 DEF TypeOK
    <3>5. KernelAgreement'
      BY <1>0, <2>1, <2>2, <3>2 DEF KernelAgreement
    <3>6. UnseenUntouched'
      BY <1>0, <2>1, <3>1 DEF UnseenUntouched, EndTouch, TypeOK, touchVars
    <3> QED
      BY <3>2, <3>4, <3>5, <3>6 DEF IInv
  <2>3. CASE slot \notin Touch
    <3>1. UNCHANGED <<state, dirty, fingers_down, queued>>
      BY <1>4, <2>3 DEF AbsMtTrackingIdEnd, NoTouch, touchVars
    <3>2. CountCovers' /\ Live' = Live
      BY <1>0, <2>1, <3>1, CountCoversUnchanged
    <3>3. TypeOK'
      BY <1>0, <2>1, <3>1 DEF TypeOK
    <3> QED
      BY <1>0, <2>1, <2>3, <3>1, <3>2, <3>3 DEF IInv, KernelAgreement, UnseenUntouched
  <2> QED
    BY <2>2, <2>3
<1>5. ASSUME NEW b \in Buttons, ButtonPress(b) \/ ButtonRelease(b) PROVE IInv'
  <2>1. UNCHANGED <<contact, unseen, state, fingers_down, fd_changes>>
    BY <1>5 DEF ButtonPress, ButtonRelease
  <2>2. TypeOK'
    BY <1>0, <1>5 DEF TypeOK, ButtonPress, ButtonRelease, EventTypes
  <2> QED
    BY <1>0, <2>1, <2>2, CountCoversUnchanged DEF IInv, KernelAgreement, UnseenUntouched
<1>6. ASSUME SynIgnored \/ SynReport \/ HandleEvents \/ Again PROVE IInv'
  <2>1. UNCHANGED <<contact, unseen, state, fingers_down, fd_changes>>
    BY <1>6 DEF SynIgnored, SynReport, HandleEvents, Again, kernelVars, touchVars
  <2>2. TypeOK'
    BY <1>0, <1>6
    DEF TypeOK, SynIgnored, SynReport, HandleEvents, Again, kernelVars, touchVars
  <2> QED
    BY <1>0, <2>1, <2>2, CountCoversUnchanged DEF IInv, KernelAgreement, UnseenUntouched
<1>7. ASSUME PostProcess PROVE IInv'
  <2>1. UNCHANGED <<contact, unseen, pressed, reported, clicked, fingers_down, slot,
                    buttons_state, fd_changes>>
    BY <1>7 DEF PostProcess, kernelVars
  <2>2. /\ state' \in [Touch -> TouchStates]
        /\ dirty' \in [Touch -> BOOLEAN]
        /\ queued' = {} /\ pc' = "read"
    BY <1>0, <1>7 DEF PostProcess, TypeOK, TouchStates
  <2>3. TypeOK'
    BY <1>0, <2>1, <2>2 DEF TypeOK
  <2>4. Live' = Live
    BY <1>0, <1>7 DEF PostProcess, TypeOK, Live, TouchStates
  <2>5. UnseenUntouched'
    BY <1>0, <1>7, <2>1 DEF PostProcess, UnseenUntouched
  <2> QED
    BY <1>0, <2>1, <2>3, <2>4, <2>5 DEF IInv, KernelAgreement, CountCovers
<1>8. ASSUME ChangeFd PROVE IInv'
  <2>1. TypeOK'
    BY <1>0, <1>8, FdChangesAssumption DEF ChangeFd, TypeOK, TouchStates
  <2>2. Live' = {} /\ fd_changes' # 0
    BY <1>0, <1>8 DEF ChangeFd, Live, TypeOK
  <2>3. KernelAgreement' /\ UnseenUntouched'
    BY <1>8, <2>2 DEF ChangeFd, KernelAgreement, UnseenUntouched
  <2>4. CountCovers'
    BY <2>1, <2>2, FS_EmptySet DEF CountCovers, TypeOK
  <2> QED
    BY <2>1, <2>3, <2>4 DEF IInv
<1>9. ASSUME UNCHANGED vars PROVE IInv'
  <2>1. UNCHANGED <<contact, unseen, state, fingers_down, fd_changes>>
    BY <1>9 DEF vars, kernelVars, touchVars
  <2>2. TypeOK'
    BY <1>0, <1>9 DEF TypeOK, vars, kernelVars, touchVars
  <2> QED
    BY <1>0, <2>1, <2>2, CountCoversUnchanged DEF IInv, KernelAgreement, UnseenUntouched
<1> QED
  BY <1>1, <1>2, <1>3, <1>4, <1>5, <1>6, <1>7, <1>8, <1>9 DEF Next

(* The inductive invariant holds in every reachable state. *)
THEOREM Inductive == Spec => []IInv
BY InitInv, StepInv, PTL DEF Spec

(* The state of the touches always has its type; in particular the finger   *)
(* counter never falls below zero, whatever the kernel and the caller do.   *)
THEOREM TypeCorrect == Spec => []TypeOK
<1>1. IInv => TypeOK
  BY DEF IInv
<1> QED
  BY <1>1, Inductive, PTL

(* The finger counter equals the number of touches that are down, and never *)
(* falls below it after the fd has changed.                                 *)
THEOREM CounterIsExact == Spec => []FingersDownCount
<1>1. IInv => FingersDownCount
  BY DEF IInv, CountCovers, FingersDownCount
<1> QED
  BY <1>1, Inductive, PTL

(* The library and the kernel always agree on the fingers of the tracked    *)
(* slots, also after the fd has changed.                                    *)
THEOREM AgreesWithKernel == Spec => []KernelAgreement
<1>1. IInv => KernelAgreement
  BY DEF IInv
<1> QED
  BY <1>1, Inductive, PTL

----------------------------------------------------------------------------
(* Changes are queued; the queue is empty when the library is idle. *)
QInv == TypeOK /\ ChangesAreQueued /\ SettledWhenIdle

LEMMA QueueInit == Init => QInv
<1> SUFFICES ASSUME Init PROVE QInv
  OBVIOUS
<1>1. TypeOK
  BY InitInv DEF IInv
<1> QED
  BY <1>1 DEF Init, QInv, ChangesAreQueued, SettledWhenIdle

LEMMA QueueStep == QInv /\ TypeOK' /\ [Next]_vars => QInv'
<1> SUFFICES ASSUME QInv, TypeOK', [Next]_vars PROVE QInv'
  OBVIOUS
<1>0. TypeOK /\ ChangesAreQueued /\ SettledWhenIdle
  BY DEF QInv
<1>1. ASSUME NEW s \in Slots, AbsMtSlot(s) PROVE QInv'
  BY <1>0, <1>1 DEF QInv, AbsMtSlot, ChangesAreQueued, SettledWhenIdle, touchVars
<1>2. ASSUME AbsMtPosition PROVE QInv'
  BY <1>0, <1>2 DEF QInv, AbsMtPosition, ChangesAreQueued, SettledWhenIdle, TypeOK
<1>3. ASSUME AbsMtTrackingIdBegin PROVE QInv'
  <2>1. pc' = "read"
    BY <1>3 DEF AbsMtTrackingIdBegin
  <2>2. ChangesAreQueued'
    BY <1>0, <1>3
    DEF AbsMtTrackingIdBegin, BeginTouch, NoTouch, ChangesAreQueued, TypeOK, touchVars
  <2> QED
    BY <2>1, <2>2 DEF QInv, SettledWhenIdle
<1>4. ASSUME AbsMtTrackingIdEnd PROVE QInv'
  <2>1. pc' = "read"
    BY <1>4 DEF AbsMtTrackingIdEnd
  <2>2. ChangesAreQueued'
    BY <1>0, <1>4
    DEF AbsMtTrackingIdEnd, EndTouch, NoTouch, ChangesAreQueued, TypeOK, touchVars
  <2> QED
    BY <2>1, <2>2 DEF QInv, SettledWhenIdle
<1>5. ASSUME NEW b \in Buttons, ButtonPress(b) \/ ButtonRelease(b) PROVE QInv'
  BY <1>0, <1>5 DEF QInv, ButtonPress, ButtonRelease, ChangesAreQueued, SettledWhenIdle
<1>6. ASSUME SynIgnored \/ SynReport \/ HandleEvents PROVE QInv'
  BY <1>0, <1>6
  DEF QInv, SynIgnored, SynReport, HandleEvents, ChangesAreQueued, SettledWhenIdle, touchVars
<1>7. ASSUME Again PROVE QInv'
  BY <1>0, <1>7
  DEF QInv, Again, ChangesAreQueued, SettledWhenIdle, touchVars, TypeOK, TouchStates
<1>8. ASSUME PostProcess PROVE QInv'
  BY <1>0, <1>8
  DEF QInv, PostProcess, ChangesAreQueued, SettledWhenIdle, TypeOK, TouchStates
<1>9. ASSUME ChangeFd PROVE QInv'
  BY <1>0, <1>9 DEF QInv, ChangeFd, ChangesAreQueued, SettledWhenIdle
<1>10. ASSUME UNCHANGED vars PROVE QInv'
  BY <1>0, <1>10 DEF QInv, vars, ChangesAreQueued, SettledWhenIdle, touchVars
<1> QED
  BY <1>1, <1>2, <1>3, <1>4, <1>5, <1>6, <1>7, <1>8, <1>9, <1>10 DEF Next

(* A touch that begins or ends is always dirty and queued, so SYN_REPORT    *)
(* never skips it.                                                          *)
THEOREM NothingSkipped == Spec => []ChangesAreQueued
<1>1. QInv => ChangesAreQueued
  BY DEF QInv
<1> QED
  BY <1>1, QueueInit, QueueStep, TypeCorrect, PTL DEF Spec

(* Whenever the library waits in poll every touch is settled and nothing is *)
(* queued.                                                                  *)
THEOREM IdleIsSettled == Spec => []SettledWhenIdle
<1>1. QInv => SettledWhenIdle
  BY DEF QInv
<1> QED
  BY <1>1, QueueInit, QueueStep, TypeCorrect, PTL DEF Spec
=============================================================================
