------------------------------ MODULE MtuLinkProofs ------------------------------
(***************************************************************************)
(* Proofs about MtuLink, for every set of adapters and sizes.               *)
(***************************************************************************)
EXTENDS MtuLink, TLAPS

-----------------------------------------------------------------------------
LEMMA ReturnType == Return => (pc' = "idle" /\ target' = None /\ todo' = {} /\ at' = None
                               /\ entries' \in Archives /\ In(entries') = {} /\ dirty' = FALSE)
  BY DEF Return, Empty, Archives, In

LEMMA InitTyped == Init => TypeOK
<1> SUFFICES ASSUME Init PROVE TypeOK
  OBVIOUS
<1>1. live \in [Adapter -> Mtu]
  BY MtuAssumption DEF Init, Value, Effective
<1>2. Empty \in Archives
  BY DEF Empty, Archives
<1>3. archive \in Archives /\ saved \in Archives /\ entries \in Archives
  BY <1>2 DEF Init
<1> QED
  BY <1>1, <1>3, MtuAssumption DEF Init, TypeOK

LEMMA NextTyped == TypeOK /\ [Next]_vars => TypeOK'
<1> SUFFICES ASSUME TypeOK, [Next]_vars PROVE TypeOK'
  OBVIOUS
<1> USE MtuAssumption
<1> USE DEF TypeOK, Value, Archives
<1>1. ASSUME NEW t \in Target, ApplyBegin(t) PROVE TypeOK'
  BY <1>1 DEF ApplyBegin, files
<1>2. ASSUME NEW a \in Adapter, Skip(a) PROVE TypeOK'
  BY <1>2 DEF Skip
<1>3. ASSUME NEW a \in Adapter, ReadFails(a) PROVE TypeOK'
  BY <1>3, ReturnType DEF ReadFails, files
<1>4. ASSUME NEW a \in Adapter, Write(a) PROVE TypeOK'
  BY <1>4 DEF Write
<1>5. ASSUME NEW a \in Adapter, Restore(a) PROVE TypeOK'
  <2>1. entries[a] \in Value
    BY <1>5 DEF Restore, In
  <2> QED
    BY <1>5, <2>1 DEF Restore, In
<1>6. ASSUME NEW a \in Adapter, RestoreFails(a) PROVE TypeOK'
  BY <1>6 DEF RestoreFails, files
<1>7. ASSUME NEW a \in Adapter, Relink(a) PROVE TypeOK'
  <2>1. entries[a] \in Value
    BY <1>7 DEF Relink, In
  <2>2. Relinked(entries[a]) \in Mtu
    BY <2>1 DEF Relinked
  <2>3. live' \in [Adapter -> Mtu]
    BY <1>7, <2>2 DEF Relink
  <2>4. reg' \in [Adapter -> Value]
    BY <1>7, <2>1 DEF Relink
  <2>5. odd' \subseteq Adapter /\ todo' \subseteq Adapter
    BY <1>7 DEF Relink
  <2>6. In(entries') = In(entries) /\ todo' \subseteq In(entries)
    BY <1>7 DEF Relink
  <2> QED
    BY <1>7, <2>3, <2>4, <2>5, <2>6 DEF Relink, files
<1>8. ASSUME NEW a \in Adapter, RelinkFails(a) PROVE TypeOK'
  BY <1>8 DEF RelinkFails, files
<1>9. ASSUME NEW a \in Adapter, Others(a) PROVE TypeOK'
  BY <1>9 DEF Others, files, locals
<1>10. CASE Link
  BY <1>10 DEF Link, files
<1>11. CASE LinkFails
  BY <1>11 DEF LinkFails, files
<1>12. CASE ApplyEnd
  BY <1>12, ReturnType DEF ApplyEnd
<1>13. CASE RevertBegin
  BY <1>13 DEF RevertBegin, files, In
<1>14. CASE RestoreEnd
  BY <1>14 DEF RestoreEnd, files, locals
<1>15. CASE Save
  BY <1>15 DEF Save, ToRelink, In
<1>16. CASE SaveFails
  BY <1>16, ReturnType DEF SaveFails, files, In
<1>17. CASE RevertEnd
  BY <1>17, ReturnType DEF RevertEnd, files
<1>18. CASE Restart
  BY <1>18, ReturnType DEF Restart, Pending, In
<1>19. CASE Reboot
  BY <1>19, ReturnType DEF Reboot, Effective
<1>20. CASE Plug
  BY <1>20 DEF Plug, files, locals
<1>21. CASE UNCHANGED vars
  BY <1>21 DEF vars, files, locals
<1> QED
  BY <1>1, <1>2, <1>3, <1>4, <1>5, <1>6, <1>7, <1>8, <1>9, <1>10, <1>11, <1>12,
     <1>13, <1>14, <1>15, <1>16, <1>17, <1>18, <1>19, <1>20, <1>21 DEF Next

\* The variables keep their types, whatever fails and whenever the process dies
\* (apply, revert).
THEOREM TypeCorrect == Spec => []TypeOK
<1>1. TypeOK /\ [Next]_vars => TypeOK'
  BY NextTyped
<1> QED
  BY <1>1, InitTyped, PTL DEF Spec

-----------------------------------------------------------------------------
\* One adapter suffices: a step keeps the link of an adapter that is neither
\* odd nor pending with its registry value.
LEMMA NextFollows == TypeOK /\ LinkFollows /\ [Next]_vars => LinkFollows'
<1> SUFFICES ASSUME TypeOK, LinkFollows, [Next]_vars,
                    NEW b \in Adapter, b \notin odd', b \notin Pending'
             PROVE  live'[b] = Effective(reg[b])'
  BY DEF LinkFollows
<1> USE MtuAssumption
<1> DEFINE Calm == b \notin odd /\ b \notin Pending
<1>0. Calm => live[b] = Effective(reg[b])
  BY DEF LinkFollows
<1> USE DEF TypeOK, Value, Archives, Effective, Pending, In
<1>1. ASSUME NEW t \in Target, ApplyBegin(t) PROVE live'[b] = Effective(reg[b])'
  BY <1>0, <1>1 DEF ApplyBegin, files
<1>2. ASSUME NEW a \in Adapter, Skip(a) PROVE live'[b] = Effective(reg[b])'
  BY <1>0, <1>2 DEF Skip
<1>3. ASSUME NEW a \in Adapter, ReadFails(a) PROVE live'[b] = Effective(reg[b])'
  BY <1>0, <1>3 DEF ReadFails, Return, files
<1>4. ASSUME NEW a \in Adapter, Write(a) PROVE live'[b] = Effective(reg[b])'
  BY <1>0, <1>4 DEF Write
<1>5. ASSUME NEW a \in Adapter, Restore(a) PROVE live'[b] = Effective(reg[b])'
  <2>1. b # a
    BY <1>5 DEF Restore
  <2> QED
    BY <1>0, <1>5, <2>1 DEF Restore
<1>6. ASSUME NEW a \in Adapter, RestoreFails(a) PROVE live'[b] = Effective(reg[b])'
  BY <1>0, <1>6 DEF RestoreFails, files
<1>7. ASSUME NEW a \in Adapter, Relink(a) PROVE live'[b] = Effective(reg[b])'
  <2>1. entries[a] \in Value /\ pc = "relink" /\ pc' = "relink" /\ a \in Adapter
    BY <1>7 DEF Relink
  <2>2. CASE b = a
    <3>1. live'[a] = Relinked(entries[a])
      BY <1>7 DEF Relink
    <3>2. reg'[a] = entries[a]
      BY <1>7, <2>2 DEF Relink
    <3> QED
      BY <2>2, <3>1, <3>2 DEF Relinked
  <2>3. CASE b # a
    <3>1. live'[b] = live[b] /\ reg'[b] = reg[b]
      BY <1>7, <2>3 DEF Relink
    <3>2. Calm
      BY <1>7, <2>1, <2>3 DEF Relink
    <3> QED
      BY <1>0, <3>1, <3>2
  <2> QED
    BY <2>2, <2>3
<1>8. ASSUME NEW a \in Adapter, RelinkFails(a) PROVE live'[b] = Effective(reg[b])'
  BY <1>0, <1>8 DEF RelinkFails, files
<1>9. ASSUME NEW a \in Adapter, Others(a) PROVE live'[b] = Effective(reg[b])'
  BY <1>0, <1>9 DEF Others, files, locals
<1>10. CASE Link
  BY <1>0, <1>10 DEF Link, files
<1>11. CASE LinkFails
  BY <1>0, <1>11 DEF LinkFails, files
<1>12. CASE ApplyEnd
  BY <1>0, <1>12 DEF ApplyEnd, Return
<1>13. CASE RevertBegin
  BY <1>0, <1>13 DEF RevertBegin, files
<1>14. CASE RestoreEnd
  BY <1>0, <1>14 DEF RestoreEnd, files, locals
<1>15. CASE Save
  BY <1>0, <1>15 DEF Save, ToRelink
<1>16. CASE SaveFails
  BY <1>0, <1>16 DEF SaveFails, Return, files
<1>17. CASE RevertEnd
  BY <1>0, <1>17 DEF RevertEnd, Return, files
<1>18. CASE Restart
  BY <1>0, <1>18 DEF Restart, Return
<1>19. CASE Reboot
  BY <1>19 DEF Reboot
<1>20. CASE Plug
  BY <1>0, <1>20 DEF Plug, files, locals
<1>21. CASE UNCHANGED vars
  BY <1>0, <1>21 DEF vars, files, locals
<1> QED
  BY <1>1, <1>2, <1>3, <1>4, <1>5, <1>6, <1>7, <1>8, <1>9, <1>10, <1>11, <1>12,
     <1>13, <1>14, <1>15, <1>16, <1>17, <1>18, <1>19, <1>20, <1>21 DEF Next

LEMMA TypedFollows == Spec => [](TypeOK /\ LinkFollows)
<1>1. Init => LinkFollows
  BY DEF Init, LinkFollows, Effective
<1>2. TypeOK /\ LinkFollows /\ [Next]_vars => (TypeOK /\ LinkFollows)'
  BY NextTyped, NextFollows
<1> QED
  BY <1>1, <1>2, InitTyped, PTL DEF Spec

\* At rest nothing is pending.
\* Only an adapter that the running operation has still to set, where a netsh
\* call failed or was not made, or that others have touched, has a link that is
\* not what its registry value asks for (apply, revert).
THEOREM LinkAlwaysFollows == Spec => []LinkFollows
  BY TypedFollows, PTL

\* What status finds in the registry is true of the links that are not odd
\* (status).
THEOREM StatusTrueOfLinks == Spec => []StatusShowsLink
<1>1. TypeOK /\ LinkFollows => StatusShowsLink
  <2> SUFFICES ASSUME LinkFollows, pc = "idle", NEW t \in Target, Status(t),
                      NEW a \in (listed \cap keyed) \ odd, TypeOK
               PROVE  live[a] = t
    BY DEF StatusShowsLink
  <2> QED
    BY MtuAssumption DEF LinkFollows, Pending, Status, Reports, Effective, TypeOK
<1> QED
  BY <1>1, TypedFollows, PTL

-----------------------------------------------------------------------------
LEMMA NextReturns == TypeOK /\ RevertReturns /\ [Next]_vars => RevertReturns'
<1> SUFFICES ASSUME TypeOK, RevertReturns, [Next]_vars, pc' = "relink",
                    NEW b \in In(entries'), b \notin todo', b \notin odd'
             PROVE  reg'[b] = entries'[b] /\ live'[b] = Effective(entries[b])'
  BY DEF RevertReturns, In
<1> DEFINE Goal == reg'[b] = entries'[b] /\ live'[b] = Effective(entries[b])'
<1> USE DEF TypeOK, In, Effective
<1>1. ASSUME NEW a \in Adapter, Relink(a) PROVE Goal
  <2>1. pc = "relink" /\ entries' = entries /\ b \in Adapter
    BY <1>1 DEF Relink
  <2>2. CASE b = a
    <3>1. live'[a] = Relinked(entries[a])
      BY <1>1 DEF Relink
    <3>2. reg'[a] = entries[a]
      BY <1>1, <2>2 DEF Relink
    <3> QED
      BY <2>1, <2>2, <3>1, <3>2 DEF Relinked
  <2>3. CASE b # a
    <3>1. live'[b] = live[b] /\ reg'[b] = reg[b]
      BY <1>1, <2>3 DEF Relink
    <3>2. b \notin todo /\ b \notin odd
      BY <1>1, <2>3 DEF Relink
    <3> QED
      BY <2>1, <3>1, <3>2 DEF RevertReturns
  <2> QED
    BY <2>2, <2>3
<1>2. ASSUME NEW a \in Adapter, RelinkFails(a) PROVE Goal
  BY <1>2 DEF RelinkFails, RevertReturns, files
<1>3. ASSUME NEW a \in Adapter, Others(a) PROVE Goal
  BY <1>3 DEF Others, RevertReturns, files, locals
<1>4. CASE Save
  BY <1>4 DEF Save, ToRelink
<1>5. CASE Plug
  BY <1>5 DEF Plug, RevertReturns, files, locals
<1>6. CASE UNCHANGED vars
  BY <1>6 DEF vars, RevertReturns, files, locals
<1>7. CASE \/ \E t \in Target : ApplyBegin(t)
           \/ \E a \in Adapter : Skip(a) \/ ReadFails(a) \/ Write(a) \/ Restore(a) \/ RestoreFails(a)
           \/ Link \/ LinkFails \/ ApplyEnd \/ RevertBegin \/ RestoreEnd \/ SaveFails
           \/ RevertEnd \/ Restart \/ Reboot
  BY <1>7
     DEF ApplyBegin, Skip, ReadFails, Write, Restore, RestoreFails, Link, LinkFails, ApplyEnd,
         RevertBegin, RestoreEnd, SaveFails, RevertEnd, Restart, Reboot, Return
<1> QED
  BY <1>1, <1>2, <1>3, <1>4, <1>5, <1>6, <1>7 DEF Next

\* A revert leaves every adapter it could reach with the archived registry value
\* and the link that goes with it (revert).
THEOREM RevertGivesBack == Spec => []RevertReturns
<1>1. Init => RevertReturns
  BY DEF Init, RevertReturns
<1>2. TypeOK /\ RevertReturns /\ [Next]_vars => RevertReturns'
  BY NextReturns
<1> QED
  BY <1>1, <1>2, TypeCorrect, PTL DEF Spec

=============================================================================
