-------------------------- MODULE ExclusionProofs --------------------------
(***************************************************************************)
(* Proofs about the two places where a new owner replaces an old one whose *)
(* work may still be running: the attempts of a unit behind the holder     *)
(* fence (Attempts) and the drivers of a component behind its activation   *)
(* slot (HostActivation).  The two parts share nothing but the question;   *)
(* each is for any values of its constants.                                *)
(***************************************************************************)
EXTENDS Attempts, HostActivation, TLAPS

-----------------------------------------------------------------------------
(* The attempts of a unit, for any sets of runs, work items, units and     *)
(* holders and any counter width.                                          *)

USE CountAssumption

(***************************************************************************)
(* What a dispatch does to the attempt rows.                               *)
(***************************************************************************)

\* Superseding the current row (Plan::Dispatch) changes no row's key, stamp,
\* authority or holder, and removes no row.
LEMMA SupersededRows ==
    ASSUME TypeOK, NEW u \in Units
    PROVE  /\ Superseded(u) \subseteq AttemptRows
           /\ \A s \in Superseded(u) : \E a \in attempts :
                /\ s.unit = a.unit /\ s.epoch = a.epoch /\ s.stamp = a.stamp
                /\ s.authority = a.authority /\ s.holder = a.holder
                /\ s = IF a.unit = u /\ a.epoch = units[u].epoch
                       THEN [a EXCEPT !.status = "superseded"] ELSE a
           /\ \A a \in attempts : \E s \in Superseded(u) :
                /\ s.unit = a.unit /\ s.epoch = a.epoch
<1> DEFINE Sup(a) == IF a.unit = u /\ a.epoch = units[u].epoch
                     THEN [a EXCEPT !.status = "superseded"] ELSE a
<1>1. ASSUME NEW a \in attempts
      PROVE  /\ Sup(a) \in AttemptRows
             /\ Sup(a).unit = a.unit /\ Sup(a).epoch = a.epoch
             /\ Sup(a).stamp = a.stamp /\ Sup(a).authority = a.authority
             /\ Sup(a).holder = a.holder
  <2>1. a \in AttemptRows
    BY DEF TypeOK
  <2>2. CASE a.unit = u /\ a.epoch = units[u].epoch
    BY <2>1, <2>2 DEF AttemptRows
  <2>3. CASE ~(a.unit = u /\ a.epoch = units[u].epoch)
    BY <2>1, <2>3
  <2>4. QED
    BY <2>2, <2>3
<1>2. Superseded(u) = {Sup(a) : a \in attempts}
  BY DEF Superseded
<1> HIDE DEF Sup
<1>3. Superseded(u) \subseteq AttemptRows
  BY <1>1, <1>2
<1>4. ASSUME NEW s \in Superseded(u)
      PROVE  \E a \in attempts :
                /\ s.unit = a.unit /\ s.epoch = a.epoch /\ s.stamp = a.stamp
                /\ s.authority = a.authority /\ s.holder = a.holder
                /\ s = Sup(a)
  <2>1. PICK a \in attempts : s = Sup(a)
    BY <1>2
  <2>2. QED
    BY <1>1, <2>1
<1>5. ASSUME NEW a \in attempts
      PROVE  \E s \in Superseded(u) : s.unit = a.unit /\ s.epoch = a.epoch
  <2>1. Sup(a) \in Superseded(u)
    BY <1>2
  <2>2. QED
    BY <1>1, <2>1
<1>6. QED
  BY <1>3, <1>4, <1>5 DEF Sup

-----------------------------------------------------------------------------
\* Creating a project (Store::create_project) establishes the invariant.
LEMMA InitIInv == Init => IInv
<1> SUFFICES ASSUME Init PROVE IInv
  OBVIOUS
<1>1. TypeOK
  BY DEF Init, TypeOK, UnitRows, LeaseRows, NoUnit, NoLease, Counter
<1>2. AbsentUnitIsEmpty /\ LeaseFollowsUnit /\ HeardNotAhead /\ CurrentAttemptExists
  BY DEF Init, AbsentUnitIsEmpty, LeaseFollowsUnit, HeardNotAhead,
         CurrentAttemptExists, NoUnit, NoLease
<1>3. AttemptsNotAhead /\ AttemptKeyUnique /\ ActiveIsCurrent
  BY DEF Init, AttemptsNotAhead, AttemptKeyUnique, ActiveIsCurrent
<1>4. QED
  BY <1>1, <1>2, <1>3 DEF IInv

-----------------------------------------------------------------------------
(***************************************************************************)
(* Each command preserves the invariant.                                   *)
(***************************************************************************)
\* unit.dispatch keeps the invariant: the new row is the only one at the new
\* epoch, the row it supersedes the only one that stops being current.
LEMMA DispatchIInv ==
    ASSUME IInv, NEW u \in Units, NEW h \in Holders, UnitDispatch(u, h)
    PROVE  IInv'
<1> DEFINE n == NewAttempt(u, h)
<1>0. /\ TypeOK /\ AbsentUnitIsEmpty /\ AttemptsNotAhead /\ AttemptKeyUnique
      /\ ActiveIsCurrent /\ CurrentAttemptExists /\ LeaseFollowsUnit /\ HeardNotAhead
  BY DEF IInv
<1>1. /\ units[u] \in UnitRows /\ leases[u] \in LeaseRows
      /\ authority \in 1..MaxAuthority
  BY <1>0 DEF TypeOK
<1>2. /\ units[u].version > 0
      /\ units[u].version < MaxCount /\ units[u].epoch < MaxCount
      /\ leases[u].version < MaxCount
      /\ units' = [units EXCEPT ![u] =
            [version |-> units[u].version + 1, epoch |-> units[u].epoch + 1,
             stamp |-> units[u].stamp, run |-> units[u].run]]
      /\ leases' = [leases EXCEPT ![u] =
            [epoch |-> units[u].epoch + 1, holder |-> h, version |-> leases[u].version + 1]]
      /\ attempts' = Superseded(u) \cup {n}
      /\ UNCHANGED <<authority, up, workItems, runs, cancelled, heard>>
  BY <1>0, <1>1 DEF UnitDispatch, UnitExists, TypeOK, UnitRows, LeaseRows
<1>3. /\ units'[u] \in UnitRows
      /\ units'[u].version = units[u].version + 1
      /\ units'[u].epoch = units[u].epoch + 1
      /\ units'[u].stamp = units[u].stamp
      /\ units'[u].run = units[u].run
  BY <1>0, <1>1, <1>2 DEF TypeOK, UnitRows, Counter
<1>4. \A v \in Units \ {u} : units'[v] = units[v] /\ leases'[v] = leases[v]
  BY <1>0, <1>2 DEF TypeOK
<1>5. leases'[u] \in LeaseRows /\ leases'[u].epoch = units[u].epoch + 1
  BY <1>0, <1>1, <1>2 DEF TypeOK, LeaseRows, UnitRows, Counter
<1>6. /\ n \in AttemptRows /\ n.unit = u /\ n.epoch = units[u].epoch + 1
      /\ n.stamp = units[u].stamp /\ n.authority = authority /\ n.status = "active"
  BY <1>1, <1>2 DEF NewAttempt, AttemptRows, UnitRows, Counter
<1>7. /\ Superseded(u) \subseteq AttemptRows
      /\ \A s \in Superseded(u) : \E a \in attempts :
            /\ s.unit = a.unit /\ s.epoch = a.epoch /\ s.stamp = a.stamp
            /\ s.authority = a.authority /\ s.holder = a.holder
            /\ s = IF a.unit = u /\ a.epoch = units[u].epoch
                   THEN [a EXCEPT !.status = "superseded"] ELSE a
      /\ \A a \in attempts : \E s \in Superseded(u) :
            s.unit = a.unit /\ s.epoch = a.epoch
  BY <1>0, SupersededRows
<1> HIDE DEF n
<1>8. TypeOK'
  <2>1. units' \in [Units -> UnitRows]
    BY <1>0, <1>2, <1>3 DEF TypeOK
  <2>2. leases' \in [Units -> LeaseRows]
    BY <1>0, <1>2, <1>5 DEF TypeOK
  <2>3. attempts' \subseteq AttemptRows
    BY <1>2, <1>6, <1>7
  <2>4. QED
    BY <1>0, <1>2, <2>1, <2>2, <2>3 DEF TypeOK
<1>9. AbsentUnitIsEmpty'
  BY <1>0, <1>1, <1>2, <1>3, <1>4 DEF AbsentUnitIsEmpty, UnitExists, UnitRows, Counter
<1>10. AttemptsNotAhead'
  <2> SUFFICES ASSUME NEW s \in attempts'
               PROVE  /\ UnitExists(s.unit)'
                      /\ s.epoch <= units'[s.unit].epoch
                      /\ s.stamp <= units'[s.unit].stamp
                      /\ s.authority <= authority'
    BY DEF AttemptsNotAhead
  <2>1. CASE s = n
    BY <1>1, <1>2, <1>3, <1>6, <2>1 DEF UnitExists, UnitRows, Counter
  <2>2. CASE s \in Superseded(u)
    <3>1. PICK a \in attempts : s.unit = a.unit /\ s.epoch = a.epoch
                                /\ s.stamp = a.stamp /\ s.authority = a.authority
      BY <1>7, <2>2
    <3>2. a \in AttemptRows /\ UnitExists(a.unit) /\ a.epoch <= units[a.unit].epoch
          /\ a.stamp <= units[a.unit].stamp /\ a.authority <= authority
      BY <1>0 DEF AttemptsNotAhead, TypeOK
    <3>3. CASE a.unit = u
      BY <1>1, <1>2, <1>3, <3>1, <3>2, <3>3 DEF UnitExists, UnitRows, AttemptRows, Counter
    <3>4. CASE a.unit # u
      BY <1>2, <1>4, <3>1, <3>2, <3>4 DEF UnitExists, AttemptRows
    <3>5. QED
      BY <3>3, <3>4
  <2>3. QED
    BY <1>2, <2>1, <2>2
<1>11. AttemptKeyUnique'
  <2> SUFFICES ASSUME NEW s \in attempts', NEW t \in attempts',
                      s.unit = t.unit, s.epoch = t.epoch
               PROVE  s = t
    BY DEF AttemptKeyUnique
  <2>1. ASSUME NEW x \in Superseded(u), x.unit = u PROVE x.epoch # n.epoch
    <3>1. PICK a \in attempts : x.unit = a.unit /\ x.epoch = a.epoch
      BY <1>7
    <3>2. a \in AttemptRows /\ a.epoch <= units[u].epoch
      BY <1>0, <2>1, <3>1 DEF AttemptsNotAhead, TypeOK
    <3>3. QED
      BY <1>1, <1>6, <3>1, <3>2 DEF UnitRows, AttemptRows, Counter
  <2>2. CASE s \in Superseded(u) /\ t \in Superseded(u)
    <3>1. PICK a \in attempts :
            /\ s.unit = a.unit /\ s.epoch = a.epoch
            /\ s = IF a.unit = u /\ a.epoch = units[u].epoch
                   THEN [a EXCEPT !.status = "superseded"] ELSE a
      BY <1>7, <2>2
    <3>2. PICK b \in attempts :
            /\ t.unit = b.unit /\ t.epoch = b.epoch
            /\ t = IF b.unit = u /\ b.epoch = units[u].epoch
                   THEN [b EXCEPT !.status = "superseded"] ELSE b
      BY <1>7, <2>2
    <3>3. a = b
      BY <1>0, <3>1, <3>2 DEF AttemptKeyUnique
    <3>4. QED
      BY <3>1, <3>2, <3>3
  <2>3. QED
    BY <1>2, <1>6, <2>1, <2>2
<1>12. ActiveIsCurrent'
  <2> SUFFICES ASSUME NEW s \in attempts'
               PROVE  s.status = "active" <=> s.epoch = units'[s.unit].epoch
    BY DEF ActiveIsCurrent
  <2>1. CASE s = n
    BY <1>3, <1>6, <2>1
  <2>2. CASE s \in Superseded(u)
    <3>1. PICK a \in attempts :
            /\ s.unit = a.unit /\ s.epoch = a.epoch
            /\ s = IF a.unit = u /\ a.epoch = units[u].epoch
                   THEN [a EXCEPT !.status = "superseded"] ELSE a
      BY <1>7, <2>2
    <3>2. /\ a \in AttemptRows /\ a.epoch <= units[a.unit].epoch
          /\ a.status = "active" <=> a.epoch = units[a.unit].epoch
      BY <1>0 DEF AttemptsNotAhead, ActiveIsCurrent, TypeOK
    <3>3. CASE a.unit = u /\ a.epoch = units[u].epoch
      <4>1. s.status = "superseded"
        BY <3>1, <3>2, <3>3 DEF AttemptRows
      <4>2. s.epoch # units'[s.unit].epoch
        BY <1>1, <1>3, <3>1, <3>3 DEF UnitRows, Counter
      <4>3. QED
        BY <4>1, <4>2
    <3>4. CASE a.unit = u /\ a.epoch # units[u].epoch
      BY <1>1, <1>3, <3>1, <3>2, <3>4 DEF UnitRows, AttemptRows, Counter
    <3>5. CASE a.unit # u
      BY <1>4, <3>1, <3>2, <3>5 DEF AttemptRows
    <3>6. QED
      BY <3>3, <3>4, <3>5
  <2>3. QED
    BY <1>2, <2>1, <2>2
<1>13. CurrentAttemptExists'
  <2> SUFFICES ASSUME NEW v \in Units, units'[v].epoch > 0
               PROVE  \E s \in attempts' : s.unit = v /\ s.epoch = units'[v].epoch
    BY DEF CurrentAttemptExists
  <2>1. CASE v = u
    BY <1>2, <1>3, <1>6, <2>1
  <2>2. CASE v # u
    <3>1. PICK a \in attempts : a.unit = v /\ a.epoch = units[v].epoch
      BY <1>0, <1>4, <2>2 DEF CurrentAttemptExists
    <3>2. QED
      BY <1>2, <1>4, <1>7, <2>2, <3>1
  <2>3. QED
    BY <2>1, <2>2
<1>14. LeaseFollowsUnit'
  BY <1>0, <1>3, <1>4, <1>5 DEF LeaseFollowsUnit
<1>15. HeardNotAhead'
  <2> SUFFICES ASSUME NEW v \in Units PROVE heard'[v] <= units'[v].epoch
    BY DEF HeardNotAhead
  <2>1. heard[v] \in Counter /\ heard[v] <= units[v].epoch
    BY <1>0 DEF HeardNotAhead, TypeOK
  <2>2. QED
    BY <1>1, <1>2, <1>3, <1>4, <2>1 DEF UnitRows, Counter
<1>16. QED
  BY <1>8, <1>9, <1>10, <1>11, <1>12, <1>13, <1>14, <1>15 DEF IInv

\* unit.admit keeps the invariant: the unit it creates had no attempts.
LEMMA AdmitIInv ==
    ASSUME IInv, NEW u \in Units, NEW r \in Runs, NEW w \in WorkItems, UnitAdmit(u, r, w)
    PROVE  IInv'
<1>0. /\ TypeOK /\ AbsentUnitIsEmpty /\ AttemptsNotAhead /\ AttemptKeyUnique
      /\ ActiveIsCurrent /\ CurrentAttemptExists /\ LeaseFollowsUnit /\ HeardNotAhead
  BY DEF IInv
<1>1. /\ ~UnitExists(u) /\ units[u] = NoUnit /\ leases[u] = NoLease
      /\ units' = [units EXCEPT ![u] = [version |-> 1, epoch |-> 0, stamp |-> 0, run |-> r]]
      /\ UNCHANGED <<authority, up, workItems, runs, attempts, leases, cancelled, heard>>
  BY <1>0 DEF UnitAdmit, AbsentUnitIsEmpty
<1>2. /\ units'[u] = [version |-> 1, epoch |-> 0, stamp |-> 0, run |-> r]
      /\ \A v \in Units \ {u} : units'[v] = units[v]
      /\ units' \in [Units -> UnitRows]
  BY <1>0, <1>1 DEF TypeOK, UnitRows, Counter
<1>3. \A a \in attempts : a \in AttemptRows /\ a.unit \in Units \ {u}
  BY <1>0, <1>1 DEF TypeOK, AttemptsNotAhead, AttemptRows
<1>4. TypeOK'
  BY <1>0, <1>1, <1>2 DEF TypeOK
<1>5. AbsentUnitIsEmpty'
  BY <1>0, <1>1, <1>2 DEF AbsentUnitIsEmpty, UnitExists
<1>6. AttemptsNotAhead' /\ AttemptKeyUnique' /\ ActiveIsCurrent'
  BY <1>0, <1>1, <1>2, <1>3 DEF AttemptsNotAhead, AttemptKeyUnique, ActiveIsCurrent, UnitExists
<1>7. CurrentAttemptExists'
  BY <1>0, <1>1, <1>2 DEF CurrentAttemptExists
<1>8. LeaseFollowsUnit' /\ HeardNotAhead'
  BY <1>0, <1>1, <1>2 DEF LeaseFollowsUnit, HeardNotAhead, NoUnit
<1>9. QED
  BY <1>4, <1>5, <1>6, <1>7, <1>8 DEF IInv

\* unit.stamp_bump keeps the invariant: it moves the unit's stamp away from
\* the stamps sealed in its tokens and touches nothing else.
LEMMA StampBumpIInv ==
    ASSUME IInv, NEW u \in Units, StampBump(u)
    PROVE  IInv'
<1>0. /\ TypeOK /\ AbsentUnitIsEmpty /\ AttemptsNotAhead /\ AttemptKeyUnique
      /\ ActiveIsCurrent /\ CurrentAttemptExists /\ LeaseFollowsUnit /\ HeardNotAhead
  BY DEF IInv
<1>1. /\ units[u] \in UnitRows
      /\ units[u].version > 0 /\ units[u].version < MaxCount /\ units[u].stamp < MaxCount
      /\ units' = [units EXCEPT ![u] =
            [version |-> units[u].version + 1, epoch |-> units[u].epoch,
             stamp |-> units[u].stamp + 1, run |-> units[u].run]]
      /\ UNCHANGED <<authority, up, workItems, runs, attempts, leases, cancelled, heard>>
  BY <1>0 DEF StampBump, UnitExists, TypeOK
<1>2. /\ units'[u].version = units[u].version + 1 /\ units'[u].epoch = units[u].epoch
      /\ units'[u].stamp = units[u].stamp + 1
      /\ \A v \in Units \ {u} : units'[v] = units[v]
      /\ units' \in [Units -> UnitRows]
  BY <1>0, <1>1 DEF TypeOK, UnitRows, Counter
<1>3. TypeOK'
  BY <1>0, <1>1, <1>2 DEF TypeOK
<1>4. AbsentUnitIsEmpty'
  BY <1>0, <1>1, <1>2 DEF AbsentUnitIsEmpty, UnitExists, UnitRows, Counter
<1>5. AttemptsNotAhead'
  <2> SUFFICES ASSUME NEW a \in attempts
               PROVE  /\ UnitExists(a.unit)'
                      /\ a.epoch <= units'[a.unit].epoch
                      /\ a.stamp <= units'[a.unit].stamp
                      /\ a.authority <= authority'
    BY <1>1 DEF AttemptsNotAhead
  <2>1. /\ a \in AttemptRows /\ UnitExists(a.unit) /\ a.epoch <= units[a.unit].epoch
        /\ a.stamp <= units[a.unit].stamp /\ a.authority <= authority
    BY <1>0 DEF AttemptsNotAhead, TypeOK
  <2>2. QED
    BY <1>1, <1>2, <2>1 DEF UnitExists, AttemptRows, UnitRows, Counter
<1>6. \A v \in Units : units'[v].epoch = units[v].epoch
  BY <1>2
<1>7. AttemptKeyUnique' /\ ActiveIsCurrent'
  BY <1>0, <1>1, <1>6 DEF AttemptKeyUnique, ActiveIsCurrent, TypeOK, AttemptRows
<1>8. CurrentAttemptExists' /\ LeaseFollowsUnit' /\ HeardNotAhead'
  BY <1>0, <1>1, <1>6 DEF CurrentAttemptExists, LeaseFollowsUnit, HeardNotAhead
<1>9. QED
  BY <1>3, <1>4, <1>5, <1>7, <1>8 DEF IInv

\* Every step of the kernel keeps the invariant.
LEMMA NextIInv == IInv /\ [Next]_vars => IInv'
<1> SUFFICES ASSUME IInv, [Next]_vars PROVE IInv'
  OBVIOUS
<1>0. /\ TypeOK /\ AbsentUnitIsEmpty /\ AttemptsNotAhead /\ AttemptKeyUnique
      /\ ActiveIsCurrent /\ CurrentAttemptExists /\ LeaseFollowsUnit /\ HeardNotAhead
  BY DEF IInv
<1> DEFINE Rows == /\ AbsentUnitIsEmpty /\ AttemptKeyUnique /\ ActiveIsCurrent
                   /\ CurrentAttemptExists /\ LeaseFollowsUnit
<1>1. ASSUME UNCHANGED <<units, attempts, leases>> PROVE Rows'
  BY <1>0, <1>1 DEF AbsentUnitIsEmpty, AttemptKeyUnique, ActiveIsCurrent,
         CurrentAttemptExists, LeaseFollowsUnit, UnitExists
<1>2. ASSUME UNCHANGED <<authority, units, attempts, leases>> PROVE Rows' /\ AttemptsNotAhead'
  BY <1>0, <1>1, <1>2 DEF AttemptsNotAhead, UnitExists
<1>3. ASSUME UNCHANGED <<units, heard>> PROVE HeardNotAhead'
  BY <1>0, <1>3 DEF HeardNotAhead
<1>4. ASSUME NEW r \in Runs, RunOpen(r) PROVE IInv'
  <2>1. TypeOK'
    BY <1>0, <1>4 DEF RunOpen, TypeOK
  <2>2. QED
    BY <1>2, <1>3, <1>4, <2>1 DEF RunOpen, IInv
<1>5. ASSUME NEW w \in WorkItems, WorkItemCreate(w) PROVE IInv'
  <2>1. TypeOK'
    BY <1>0, <1>5 DEF WorkItemCreate, TypeOK
  <2>2. QED
    BY <1>2, <1>3, <1>5, <2>1 DEF WorkItemCreate, IInv
<1>6. ASSUME NEW root \in Roots, CancelRequest(root) PROVE IInv'
  <2>1. TypeOK'
    BY <1>0, <1>6 DEF CancelRequest, TypeOK, graph
  <2>2. QED
    BY <1>2, <1>3, <1>6, <2>1 DEF CancelRequest, IInv, graph
<1>7. ASSUME NEW t \in attempts, ProgressReport(t) PROVE IInv'
  <2>1. t \in AttemptRows /\ t.epoch = units[t.unit].epoch
    BY <1>0, <1>7 DEF ProgressReport, FencePasses, TypeOK
  <2>2. heard' = [heard EXCEPT ![t.unit] = t.epoch]
    BY <1>7 DEF ProgressReport
  <2>3. TypeOK'
    BY <1>0, <1>7, <2>1, <2>2 DEF ProgressReport, TypeOK, graph, AttemptRows, Counter
  <2>4. HeardNotAhead'
    BY <1>0, <1>7, <2>1, <2>2
       DEF ProgressReport, HeardNotAhead, TypeOK, AttemptRows, graph, UnitRows, Counter
  <2>5. QED
    BY <1>2, <1>7, <2>3, <2>4 DEF ProgressReport, IInv, graph
<1>8. CASE Crash
  <2>1. TypeOK'
    BY <1>0, <1>8 DEF Crash, TypeOK, graph
  <2>2. QED
    BY <1>2, <1>3, <1>8, <2>1 DEF Crash, IInv, graph
<1>9. CASE Recover
  <2>1. TypeOK'
    BY <1>0, <1>9 DEF Recover, TypeOK, graph
  <2>2. AttemptsNotAhead'
    BY <1>0, <1>9 DEF Recover, AttemptsNotAhead, UnitExists, graph, TypeOK, AttemptRows
  <2>3. QED
    BY <1>1, <1>3, <1>9, <2>1, <2>2 DEF Recover, IInv, graph
<1>10. CASE UNCHANGED vars
  <2>1. TypeOK'
    BY <1>0, <1>10 DEF vars, TypeOK, graph
  <2>2. QED
    BY <1>2, <1>3, <1>10, <2>1 DEF vars, IInv, graph
<1>11. QED
  BY <1>4, <1>5, <1>6, <1>7, <1>8, <1>9, <1>10, AdmitIInv, DispatchIInv, StampBumpIInv DEF Next

\* IInv is an invariant of the control graph.
THEOREM Inductive == Spec => []IInv
<1>1. QED
  BY InitIInv, NextIInv, PTL DEF Spec

-----------------------------------------------------------------------------
(***************************************************************************)
(* What the invariant gives.                                               *)
(***************************************************************************)

\* The rows keep the shape of the store's schema, and no u64 counter
\* overflows.
THEOREM TypeCorrect == Spec => []TypeOK
<1>1. IInv => TypeOK
  BY DEF IInv
<1>2. QED
  BY Inductive, <1>1, PTL

\* However often a unit is dispatched, bumped and recovered, and however
\* late its agents are, at most one token passes the holder fence.
THEOREM FenceAdmitsOne == Spec => []OneLiveToken
<1>1. IInv => OneLiveToken
  BY DEF IInv, OneLiveToken, LiveTokens, FencePasses, AttemptKeyUnique
<1>2. QED
  BY Inductive, <1>1, PTL

\* The token that passes the fence is the active attempt's, and the lease
\* agrees: the fence needs to read neither the nonce nor the row's status.
THEOREM FenceAdmitsCurrent == Spec => []LiveTokenIsCurrent
<1>1. IInv => LiveTokenIsCurrent
  BY DEF IInv, LiveTokenIsCurrent, LiveTokens, FencePasses, ActiveIsCurrent, LeaseFollowsUnit
<1>2. QED
  BY Inductive, <1>1, PTL

\* A dispatched unit has exactly one active attempt row, the current one.
THEOREM ActiveAttemptUnique == Spec => []OneActiveAttempt
<1>1. ASSUME IInv, NEW u \in Units
      PROVE  {a.epoch : a \in {b \in attempts : b.unit = u /\ b.status = "active"}}
                = {units[u].epoch} \ {0}
  <2> DEFINE Active == {b \in attempts : b.unit = u /\ b.status = "active"}
  <2>1. \A a \in Active : a.epoch = units[u].epoch /\ a.epoch # 0
    BY <1>1 DEF IInv, ActiveIsCurrent, TypeOK, AttemptRows
  <2>2. units[u].epoch # 0 => \E a \in Active : a.epoch = units[u].epoch
    BY <1>1 DEF IInv, CurrentAttemptExists, ActiveIsCurrent, TypeOK, UnitRows, Counter
  <2> HIDE DEF Active
  <2>3. {a.epoch : a \in Active} = {units[u].epoch} \ {0}
    BY <2>1, <2>2
  <2>4. QED
    BY <2>3 DEF Active
<1>2. IInv => OneActiveAttempt
  BY <1>1 DEF OneActiveAttempt
<1>3. QED
  BY Inductive, <1>2, PTL

-----------------------------------------------------------------------------
(***************************************************************************)
(* Action properties.                                                      *)
(***************************************************************************)

\* Reports are accepted in the order of the attempts they come from.
THEOREM ReportsInOrder == Spec => HeardInOrder
<1>1. IInv /\ [Next]_vars => [\A u \in Units : heard[u] <= heard'[u]]_vars
  <2> SUFFICES ASSUME IInv, Next, NEW u \in Units PROVE heard[u] <= heard'[u]
    BY DEF vars
  <2>1. heard \in [Units -> Counter] /\ heard[u] <= units[u].epoch
    BY DEF IInv, TypeOK, HeardNotAhead
  <2>2. CASE \E t \in attempts : ProgressReport(t)
    BY <2>1, <2>2 DEF ProgressReport, FencePasses, Counter
  <2>3. CASE heard' = heard
    BY <2>1, <2>3 DEF Counter
  <2>4. QED
    BY <2>2, <2>3 DEF Next, RunOpen, WorkItemCreate, UnitAdmit, UnitDispatch,
       StampBump, CancelRequest, Crash, Recover
<1>2. QED
  BY Inductive, <1>1, PTL DEF Spec, HeardInOrder

\* No step changes the claims sealed in a row, and none creates a second
\* row for the key of one that exists.
LEMMA ClaimsKept ==
    ASSUME IInv, Next, NEW t \in attempts, NEW s \in attempts',
           s.unit = t.unit, s.epoch = t.epoch
    PROVE  s.stamp = t.stamp /\ s.authority = t.authority /\ s.holder = t.holder
<1>1. TypeOK /\ AttemptKeyUnique /\ AttemptsNotAhead
  BY DEF IInv
<1>2. CASE attempts' = attempts
  BY <1>1, <1>2 DEF AttemptKeyUnique
<1>3. ASSUME NEW u \in Units, NEW h \in Holders, UnitDispatch(u, h)
      PROVE  s.stamp = t.stamp /\ s.authority = t.authority /\ s.holder = t.holder
  <2>1. attempts' = Superseded(u) \cup {NewAttempt(u, h)}
    BY <1>3 DEF UnitDispatch
  <2>2. s # NewAttempt(u, h)
    BY <1>1 DEF NewAttempt, AttemptsNotAhead, TypeOK, AttemptRows, UnitRows, Counter
  <2>3. PICK a \in attempts : /\ s.unit = a.unit /\ s.epoch = a.epoch /\ s.stamp = a.stamp
                              /\ s.authority = a.authority /\ s.holder = a.holder
    BY <1>1, <2>1, <2>2, SupersededRows
  <2>4. a = t
    BY <1>1, <2>3 DEF AttemptKeyUnique
  <2>5. QED
    BY <2>3, <2>4
<1>4. QED
  BY <1>2, <1>3 DEF Next, RunOpen, WorkItemCreate, UnitAdmit, StampBump,
     CancelRequest, ProgressReport, Crash, Recover, graph

\* Epochs, stamps and the authority epoch only grow, and while a unit's epoch
\* stands still its lease does.
LEMMA FenceAxesGrow ==
    ASSUME IInv, Next, NEW u \in Units, UnitExists(u)
    PROVE  /\ authority <= authority'
           /\ units[u].epoch <= units'[u].epoch
           /\ units[u].stamp <= units'[u].stamp
           /\ units'[u].epoch = units[u].epoch => leases'[u] = leases[u]
<1>1. TypeOK
  BY DEF IInv
<1>2. /\ units[u].epoch \in Nat /\ units[u].stamp \in Nat /\ authority \in Nat
      /\ units \in [Units -> UnitRows] /\ leases \in [Units -> LeaseRows]
  BY <1>1 DEF TypeOK, UnitRows, Counter
<1>3. ASSUME NEW v \in Units, NEW h \in Holders, UnitDispatch(v, h)
      PROVE  /\ authority' = authority
             /\ units[u].epoch <= units'[u].epoch
             /\ units[u].stamp <= units'[u].stamp
             /\ units'[u].epoch = units[u].epoch => leases'[u] = leases[u]
  BY <1>2, <1>3 DEF UnitDispatch
<1>4. ASSUME NEW v \in Units, StampBump(v)
      PROVE  /\ authority' = authority /\ leases' = leases
             /\ units[u].epoch <= units'[u].epoch
             /\ units[u].stamp <= units'[u].stamp
  BY <1>2, <1>4 DEF StampBump
<1>5. ASSUME NEW v \in Units, NEW r \in Runs, NEW w \in WorkItems, UnitAdmit(v, r, w)
      PROVE  authority' = authority /\ leases' = leases /\ units'[u] = units[u]
  BY <1>2, <1>5 DEF UnitAdmit
<1>6. CASE UNCHANGED <<units, leases>> /\ authority <= authority'
  BY <1>2, <1>6
<1>7. QED
  BY <1>2, <1>3, <1>4, <1>5, <1>6 DEF Next, RunOpen, WorkItemCreate, CancelRequest,
     ProgressReport, Crash, Recover, graph

\* A fence refusal never heals, so storing it and replaying it to every retry
\* (holder_gate persists FenceRejected) answers no retry wrongly.
THEOREM RefusalIsFinal == Spec => RefusedTokenStaysRefused
<1> DEFINE A == \A t \in attempts : ~FencePasses(t) => \A s \in attempts' :
                    (s.unit = t.unit /\ s.epoch = t.epoch) => ~FencePasses(s)'
<1>1. IInv /\ [Next]_vars => [A]_vars
  <2> SUFFICES ASSUME IInv, Next, NEW t \in attempts, NEW s \in attempts',
                      s.unit = t.unit, s.epoch = t.epoch, FencePasses(s)'
               PROVE  FencePasses(t)
    OBVIOUS
  <2>1. s.stamp = t.stamp /\ s.authority = t.authority /\ s.holder = t.holder
    BY ClaimsKept
  <2>2. /\ t \in AttemptRows /\ UnitExists(t.unit) /\ authority \in 1..MaxAuthority
        /\ units[t.unit] \in UnitRows
        /\ t.epoch <= units[t.unit].epoch
        /\ t.stamp <= units[t.unit].stamp /\ t.authority <= authority
    BY DEF IInv, TypeOK, AttemptsNotAhead, AttemptRows
  <2>3. IInv'
    BY NextIInv
  <2>4. authority' \in Nat /\ units'[t.unit].epoch \in Nat /\ units'[t.unit].stamp \in Nat
    BY <2>2, <2>3 DEF IInv, TypeOK, UnitRows, AttemptRows, Counter
  <2>5. /\ s.authority = authority' /\ s.epoch = units'[s.unit].epoch
        /\ s.stamp = units'[s.unit].stamp
        /\ leases'[s.unit].version > 0 /\ s.holder = leases'[s.unit].holder
    BY DEF FencePasses
  <2>6. /\ authority <= authority' /\ units[t.unit].epoch <= units'[t.unit].epoch
        /\ units[t.unit].stamp <= units'[t.unit].stamp
        /\ units'[t.unit].epoch = units[t.unit].epoch => leases'[t.unit] = leases[t.unit]
    BY <2>2, FenceAxesGrow DEF AttemptRows
  <2>7. /\ t.authority = authority /\ t.epoch = units[t.unit].epoch
        /\ t.stamp = units[t.unit].stamp
    BY <2>1, <2>2, <2>4, <2>5, <2>6 DEF AttemptRows, UnitRows, Counter
  <2>8. QED
    BY <2>1, <2>2, <2>5, <2>6, <2>7 DEF FencePasses
<1>2. QED
  BY Inductive, <1>1, PTL DEF Spec, RefusedTokenStaysRefused

\* Once a root's cancellation is committed nothing is admitted below it.
THEOREM CancelledTreeIsClosed == Spec => NothingAdmittedBelowCancelled
<1>1. IInv /\ [Next]_vars => [\A root \in cancelled : Below(root)' \subseteq Below(root)]_vars
  <2> SUFFICES ASSUME IInv, Next, NEW root \in cancelled
               PROVE  Below(root)' \subseteq Below(root)
    BY DEF vars
  <2>1. TypeOK /\ AttemptsNotAhead
    BY DEF IInv
  <2>2. units \in [Units -> UnitRows] /\ attempts \subseteq AttemptRows
    BY <2>1 DEF TypeOK
  <2> DEFINE Gone == \A v \in Units : (units'[v].run # units[v].run) =>
                        /\ ~UnitExists(v)
                        /\ RunRoot(units'[v].run) \notin cancelled
             New == \A s \in attempts' :
                        \/ \E a \in attempts : s.unit = a.unit /\ s.epoch = a.epoch
                        \/ /\ s.unit \in Units
                           /\ units'[s.unit].run = units[s.unit].run
                           /\ RunRoot(units[s.unit].run) \notin cancelled
                           /\ UnitRoot(s.unit) \notin cancelled
  <2>3. Gone /\ New
    <3>1. ASSUME NEW u \in Units, NEW r \in Runs, NEW w \in WorkItems, UnitAdmit(u, r, w)
          PROVE  Gone /\ New
      BY <2>2, <3>1 DEF UnitAdmit, Barred
    <3>2. ASSUME NEW u \in Units, NEW h \in Holders, UnitDispatch(u, h)
          PROVE  Gone /\ New
      <4>1. Gone
        BY <2>2, <3>2 DEF UnitDispatch
      <4>2. units'[u].run = units[u].run
        BY <2>2, <3>2 DEF UnitDispatch
      <4>3. RunRoot(units[u].run) \notin cancelled /\ UnitRoot(u) \notin cancelled
        BY <3>2 DEF UnitDispatch, Barred, AttemptLineage
      <4>4. \A s \in Superseded(u) : \E a \in attempts : s.unit = a.unit /\ s.epoch = a.epoch
        BY <2>1, SupersededRows
      <4>5. NewAttempt(u, h).unit = u
        BY DEF NewAttempt
      <4>6. attempts' = Superseded(u) \cup {NewAttempt(u, h)}
        BY <3>2 DEF UnitDispatch
      <4>7. New
        BY <4>2, <4>3, <4>4, <4>5, <4>6
      <4>8. QED
        BY <4>1, <4>7
    <3>3. ASSUME NEW u \in Units, StampBump(u) PROVE Gone /\ New
      BY <2>2, <3>3 DEF StampBump
    <3>4. CASE UNCHANGED <<units, attempts>>
      BY <2>2, <3>4
    <3>5. QED
      BY <3>1, <3>2, <3>3, <3>4 DEF Next, RunOpen, WorkItemCreate, CancelRequest,
         ProgressReport, Crash, Recover, graph
  <2> HIDE DEF Gone, New
  <2>4. root \in Roots
    BY <2>1 DEF TypeOK
  <2>5. ASSUME NEW r \in Runs, root = RunRoot(r) PROVE Below(root)' \subseteq Below(root)
    <3>1. root.kind = "run" /\ root.run = r
      BY <2>5 DEF RunRoot
    <3>2. \A v \in Units : units'[v].run = r => units[v].run = r
      BY <2>3, <2>5 DEF Gone
    <3>3. \A s \in attempts' : s.unit \in Units /\ units'[s.unit].run = r =>
                \E a \in attempts : /\ s.unit = a.unit /\ s.epoch = a.epoch
                                    /\ units[a.unit].run = r
      BY <2>3, <2>5, <3>2 DEF New
    <3>4. \A s \in attempts' : s.unit \in Units
      BY <2>2, <2>3 DEF New, AttemptRows
    <3>5. QED
      BY <3>1, <3>2, <3>3, <3>4 DEF Below
  <2>6. ASSUME NEW u \in Units, root = UnitRoot(u) PROVE Below(root)' \subseteq Below(root)
    <3>1. root.kind = "execution_unit" /\ root.unit = u
      BY <2>6 DEF UnitRoot
    <3>2. \A s \in attempts' : s.unit = u =>
                \E a \in attempts : s.unit = a.unit /\ s.epoch = a.epoch
      BY <2>3, <2>6 DEF New
    <3>3. QED
      BY <3>1, <3>2 DEF Below
  <2>7. ASSUME NEW u \in Units, NEW e \in 1..MaxCount, root = AttemptRoot(u, e)
        PROVE  Below(root)' \subseteq Below(root)
    <3>1. root.kind = "attempt"
      BY <2>7 DEF AttemptRoot
    <3>2. QED
      BY <3>1 DEF Below
  <2>8. QED
    BY <2>4, <2>5, <2>6, <2>7 DEF Roots
<1>2. QED
  BY Inductive, <1>1, PTL DEF Spec, NothingAdmittedBelowCancelled

-----------------------------------------------------------------------------
(* Host activations, for every set of revisions and providers and any      *)
(* bounds: the two invariants of the driver's resources, and what a        *)
(* component may become active on.                                         *)
(*                                                                         *)
(* The argument goes through Owner, the epoch of the activation that the   *)
(* slot keeps.  It is always the newest epoch; a driver that is prepared,  *)
(* live or closing belongs to it, and a stuck one to it or to an abandoned *)
(* one.  A fresh epoch is made only while there is no owner.               *)

Assignments == Providers \cup {NoProvider}
Pendings == [state : {"pending"}, rev : Revisions]
Lives == [state : {"starting", "active"}, rev : Revisions, epoch : Nat,
          assign : Assignments, effects : BOOLEAN]
Stoppings == [state : {"stopping"}, rev : Revisions, epoch : Nat, assign : Assignments,
              effects : BOOLEAN, target : {"pending", "removed"}, blocked : BOOLEAN]

Owner == IF IsMounted /\ mounted.state # "pending" THEN {mounted.epoch} ELSE {}
Blocked == mounted.state = "stopping" /\ mounted.blocked

\* The slot keeps the newest activation, or none.
SlotInv ==
    /\ lastEpoch \in Nat
    /\ mounted = Unmounted \/ mounted \in Pendings \/ mounted \in Lives \/ mounted \in Stoppings
    /\ Owner \subseteq {lastEpoch}

Guards == [epoch : Nat, start : {"prepared", "running", "ready", "failed"}]
Drivers == {"none", "prepared", "live", "closing", "down", "stuck"}

\* The driver of an activation the slot no longer keeps is down, unless it was
\* abandoned; a guard whose start may still run finds it not yet closing.
HostInv ==
    /\ guard = NoGuard \/ guard \in Guards
    /\ driver \in [1..MaxEpoch -> Drivers]
    /\ \A e \in 1..MaxEpoch :
          /\ driver[e] \in {"prepared", "live", "closing"} => e \in Owner
          /\ driver[e] = "stuck" => e \in abandoned \/ e \in Owner
          /\ driver[e] # "none" => e <= lastEpoch
          /\ Blocked /\ e \in Owner => driver[e] \in {"none", "down", "stuck"}
          /\ guard.start \in {"prepared", "running"} /\ guard.epoch = e
                => driver[e] \in {"none", "prepared", "live"}

\* The inductive invariant.
ActivationIInv == SlotInv /\ HostInv

-----------------------------------------------------------------------------
(* What the calls on the slot do to its owner *)

\* The epoch that require_epoch lets pass is that of the owner.
LEMMA OwnerIsCurrent == \A e : Current(e) <=> e \in Owner
  BY DEF Current, Owner

\* The state of the mounted component tells which record it is.
LEMMA StateTellsShape ==
    ASSUME SlotInv
    PROVE  /\ mounted.state = "absent" <=> mounted = Unmounted
           /\ mounted.state = "pending" <=> mounted \in Pendings
           /\ mounted.state \in {"starting", "active"} <=> mounted \in Lives
           /\ mounted.state = "stopping" <=> mounted \in Stoppings
           /\ mounted.state \in {"absent", "pending", "starting", "active", "stopping"}
  BY DEF SlotInv, Unmounted, Pendings, Lives, Stoppings

\* Every assignment the slot can hold, or be asked for, is of a known provider
\* or none.
LEMMA SnapshotShape ==
    ASSUME NEW d \in Snapshots, d.want = "enabled"
    PROVE  d.rev \in Revisions /\ d.assign \in Assignments
  BY DEF Snapshots, Assignments

\* begin_stop keeps the epoch and blocks nothing.
LEMMA StoppingOfLive ==
    ASSUME NEW m \in Lives, NEW target \in {"pending", "removed"}
    PROVE  /\ Stopping(m, target) \in Stoppings
           /\ Stopping(m, target).state = "stopping"
           /\ Stopping(m, target).epoch = m.epoch
           /\ Stopping(m, target).blocked = FALSE
  BY DEF Stopping, Lives, Stoppings

\* The slot's owner is what it was.
Kept == lastEpoch' = lastEpoch /\ Owner' = Owner

\* A stop of the live owner keeps it.
LEMMA StopKeepsOwner ==
    ASSUME SlotInv, mounted \in Lives, lastEpoch' = lastEpoch,
           NEW target \in {"pending", "removed"}, mounted' = Stopping(mounted, target)
    PROVE  SlotInv' /\ Kept /\ ~Blocked' /\ mounted'.state = "stopping"
  <1>1. /\ mounted' \in Stoppings
        /\ mounted'.state = "stopping"
        /\ mounted'.epoch = mounted.epoch
        /\ mounted'.blocked = FALSE
    BY StoppingOfLive
  <1>2. Owner' = Owner
    BY <1>1, StateTellsShape DEF Owner, IsMounted, Lives
  <1> QED
    BY <1>1, <1>2 DEF SlotInv, Kept, Blocked

\* The slot takes a fresh epoch for an owner; it had none.
Renewed == Owner = {} /\ lastEpoch' = lastEpoch + 1 /\ Owner' = {lastEpoch'}

\* reconcile_pending starts under a fresh epoch, or leaves nobody to own one.
LEMMA StartedOwner ==
    ASSUME SlotInv, mounted.state \in {"absent", "pending"},
           NEW rev \in Revisions, NEW assign \in Assignments,
           mounted' = Started(rev, assign),
           lastEpoch' = IF mounted'.state = "starting" THEN lastEpoch + 1 ELSE lastEpoch
    PROVE  SlotInv' /\ (Kept \/ Renewed) /\ ~Blocked' /\ mounted'.state # "active"
  <1>1. Owner = {}
    BY DEF Owner, IsMounted
  <1>2. CASE KeysValid(rev, assign) /\ Ready(rev, assign)
    <2>1. mounted' \in Lives /\ mounted'.state = "starting" /\ mounted'.epoch = lastEpoch + 1
      BY <1>2 DEF Started, Starting, Lives, SlotInv
    <2>2. lastEpoch' = lastEpoch + 1 /\ lastEpoch' \in Nat
      BY <2>1 DEF SlotInv
    <2>3. Owner' = {lastEpoch'}
      BY <2>1, <2>2 DEF Owner, IsMounted
    <2> QED
      BY <1>1, <2>1, <2>2, <2>3 DEF SlotInv, Renewed, Blocked
  <1>3. CASE ~(KeysValid(rev, assign) /\ Ready(rev, assign))
    <2>1. mounted' \in Pendings /\ mounted'.state = "pending"
      BY <1>3 DEF Started, Pending, Pendings
    <2>2. Owner' = {} /\ lastEpoch' = lastEpoch
      BY <2>1 DEF Owner
    <2> QED
      BY <1>1, <2>1, <2>2 DEF SlotInv, Kept, Blocked
  <1> QED
    BY <1>2, <1>3

\* What a reconciliation may do: keep the owner, or make one where there was
\* none.  It activates nothing, and blocks nothing.
LEMMA ReconcileOwner ==
    ASSUME SlotInv, NEW d \in Snapshots, Reconcile(d)
    PROVE  /\ SlotInv'
           /\ Kept \/ Renewed
           /\ Blocked' => Blocked
           /\ mounted'.state = "active" => mounted.state = "active"
  <1> USE DEF Reconcile
  <1> DEFINE Same == mounted' = mounted /\ lastEpoch' = lastEpoch
  <1>0. Same => SlotInv' /\ Kept /\ (Blocked' => Blocked)
                /\ (mounted'.state = "active" => mounted.state = "active")
    BY DEF SlotInv, Kept, Blocked, Owner, IsMounted
  <1>1. CASE ~IsMounted
    <2>1. mounted = Unmounted /\ mounted.state = "absent"
      BY <1>1, StateTellsShape DEF IsMounted
    <2>2. CASE d.want = "enabled" /\ KeysValid(d.rev, d.assign)
      <3>1. mounted' = Started(d.rev, d.assign)
        BY <1>1, <2>2 DEF Converged
      <3>2. lastEpoch' = IF mounted'.state = "starting" THEN lastEpoch + 1 ELSE lastEpoch
        BY <1>1
      <3> QED
        BY <2>1, <2>2, <3>1, <3>2, SnapshotShape, StartedOwner
    <2>3. CASE ~(d.want = "enabled" /\ KeysValid(d.rev, d.assign))
      <3>1. mounted' = Unmounted
        BY <1>1, <2>3 DEF Converged
      <3>2. Same
        BY <2>1, <3>1
      <3> QED
        BY <1>0, <3>2
    <2> QED
      BY <2>2, <2>3
  <1>2. CASE IsMounted /\ d.want = "enabled" /\ d.rev = mounted.rev
    <2>1. mounted' = Reconciled(mounted, d.assign)
      BY <1>2 DEF Converged
    <2>2. CASE mounted.state = "pending"
      <3>1. mounted' = Started(mounted.rev, d.assign)
        BY <2>1, <2>2 DEF Reconciled, Live
      <3>2. lastEpoch' = IF mounted'.state = "starting" THEN lastEpoch + 1 ELSE lastEpoch
        BY <2>2
      <3> QED
        BY <1>2, <2>2, <3>1, <3>2, SnapshotShape, StartedOwner
    <2>3. CASE /\ mounted.state # "pending"
               /\ Live(mounted) /\ KeysValid(mounted.rev, d.assign)
               /\ d.assign # mounted.assign \/ ~Ready(mounted.rev, d.assign)
      <3>1. mounted' = Stopping(mounted, "pending")
        BY <2>1, <2>3 DEF Reconciled
      <3>2. mounted \in Lives
        BY <2>3, StateTellsShape DEF Live
      <3>3. mounted'.state = "stopping"
        BY <3>1, <3>2, StoppingOfLive
      <3>4. lastEpoch' = lastEpoch
        BY <3>3
      <3> QED
        BY <3>1, <3>2, <3>3, <3>4, StopKeepsOwner
    <2>4. CASE /\ mounted.state # "pending"
               /\ ~(/\ Live(mounted) /\ KeysValid(mounted.rev, d.assign)
                    /\ d.assign # mounted.assign \/ ~Ready(mounted.rev, d.assign))
      <3>1. mounted' = mounted
        BY <2>1, <2>4 DEF Reconciled
      <3>2. Same
        BY <1>2, <2>4, <3>1
      <3> QED
        BY <1>0, <3>2
    <2> QED
      BY <2>2, <2>3, <2>4
  <1>3. CASE IsMounted /\ ~(d.want = "enabled" /\ d.rev = mounted.rev)
    <2>1. mounted' = StopRequested(mounted)
      BY <1>3 DEF Converged
    <2>2. CASE mounted.state = "pending"
      <3>1. mounted' = Unmounted
        BY <2>1, <2>2 DEF StopRequested, Live
      <3>2. mounted'.state = "absent" /\ lastEpoch' = lastEpoch
        BY <3>1 DEF Unmounted
      <3>3. Owner = {} /\ Owner' = {}
        BY <2>2, <3>2 DEF Owner, IsMounted
      <3> QED
        BY <3>1, <3>2, <3>3 DEF SlotInv, Kept, Blocked
    <2>3. CASE Live(mounted)
      <3>1. mounted' = Stopping(mounted, "removed")
        BY <2>1, <2>3 DEF StopRequested, Live
      <3>2. mounted \in Lives
        BY <2>3, StateTellsShape DEF Live
      <3>3. mounted'.state = "stopping"
        BY <3>1, <3>2, StoppingOfLive
      <3>4. lastEpoch' = lastEpoch
        BY <3>3
      <3> QED
        BY <3>1, <3>2, <3>3, <3>4, StopKeepsOwner
    <2>4. CASE mounted.state # "pending" /\ ~Live(mounted)
      <3>1. mounted' = mounted
        BY <2>1, <2>4 DEF StopRequested
      <3>2. Same
        BY <1>3, <2>4, <3>1
      <3> QED
        BY <1>0, <3>2
    <2> QED
      BY <2>2, <2>3, <2>4
  <1> QED
    BY <1>1, <1>2, <1>3

\* A start that is completed leaves the owner active, or stopping.
LEMMA CompleteStartOwner ==
    ASSUME SlotInv, NEW e, CompleteStart(e)
    PROVE  SlotInv' /\ Kept /\ ~Blocked'
  <1>1. mounted \in Lives /\ lastEpoch' = lastEpoch
    BY StateTellsShape DEF CompleteStart
  <1>2. CASE mounted' = Stopping(mounted, "pending")
    BY <1>1, <1>2, StopKeepsOwner
  <1>3. CASE mounted' = Activated(mounted)
    <2>1. mounted' \in Lives /\ mounted'.state = "active" /\ mounted'.epoch = mounted.epoch
      BY <1>1, <1>3 DEF Activated, Lives
    <2>2. Owner' = Owner
      BY <1>1, <2>1 DEF Owner, IsMounted, Lives
    <2> QED
      BY <1>1, <2>1, <2>2 DEF SlotInv, Kept, Blocked
  <1> QED
    BY <1>2, <1>3 DEF CompleteStart, StartOutcome

\* A failure stops the activation, which still owns its epoch.
LEMMA FailActivationOwner ==
    ASSUME SlotInv, NEW e, FailActivation(e)
    PROVE  SlotInv' /\ Kept /\ ~Blocked' /\ mounted'.state = "stopping"
  <1>1. mounted \in Lives
    BY StateTellsShape DEF FailActivation, Live
  <1> QED
    BY <1>1, StopKeepsOwner DEF FailActivation

\* Something to undo was admitted; the rest of the component is as it was.
LEMMA EffectsOwner ==
    ASSUME SlotInv, mounted \in Lives, lastEpoch' = lastEpoch,
           mounted' = [mounted EXCEPT !.effects = TRUE]
    PROVE  SlotInv' /\ Kept /\ ~Blocked' /\ mounted'.state = mounted.state
  <1>1. /\ mounted' \in Lives
        /\ mounted'.state = mounted.state
        /\ mounted'.epoch = mounted.epoch
    BY DEF Lives
  <1>2. Owner' = Owner
    BY <1>1 DEF Owner, IsMounted
  <1>3. mounted.state # "stopping"
    BY DEF Lives
  <1> QED
    BY <1>1, <1>2, <1>3 DEF SlotInv, Kept, Blocked

\* An effect that is admitted changes neither owner nor state.
LEMMA AdmitEffectOwner ==
    ASSUME SlotInv, NEW e, AdmitEffect(e)
    PROVE  SlotInv' /\ Kept /\ ~Blocked' /\ mounted'.state = mounted.state
  <1>1. mounted \in Lives
    BY StateTellsShape DEF AdmitEffect, Live
  <1> QED
    BY <1>1, EffectsOwner DEF AdmitEffect

\* A completed stop leaves the slot without an owner.
LEMMA StoppedOwner ==
    ASSUME SlotInv, mounted \in Stoppings, lastEpoch' = lastEpoch,
           mounted' = Recorded(Stopped(mounted))
    PROVE  SlotInv' /\ Owner' = {} /\ ~Blocked' /\ mounted'.state # "active"
  <1>1. CASE mounted.target = "pending"
    <2>1. mounted' \in Pendings /\ mounted'.state = "pending"
      BY <1>1 DEF Recorded, Stopped, Pending, Pendings, Stoppings
    <2> QED
      BY <2>1 DEF SlotInv, Owner, Blocked
  <1>2. CASE mounted.target # "pending"
    <2>1. mounted' = Unmounted /\ mounted'.state = "absent"
      BY <1>2 DEF Recorded, Stopped, Unmounted
    <2> QED
      BY <2>1 DEF SlotInv, Owner, IsMounted, Blocked
  <1> QED
    BY <1>1, <1>2

\* A clean stop gives up the epoch, a failed one keeps it.
LEMMA FinishStopOwner ==
    ASSUME SlotInv, NEW e, NEW clean \in BOOLEAN, FinishStop(e, clean)
    PROVE  /\ SlotInv'
           /\ lastEpoch' = lastEpoch
           /\ Owner = {e}
           /\ IF clean THEN Owner' = {} /\ ~Blocked' ELSE Owner' = Owner
           /\ mounted'.state # "active"
  <1>1. mounted \in Stoppings /\ lastEpoch' = lastEpoch
    BY StateTellsShape DEF FinishStop
  <1>2. Owner = {e}
    BY DEF FinishStop, Owner, Current
  <1>3. CASE clean
    <2>1. mounted' = Recorded(Stopped(mounted))
      BY <1>3 DEF FinishStop, TornDown
    <2> QED
      BY <1>1, <1>2, <1>3, <2>1, StoppedOwner
  <1>4. CASE ~clean
    <2>1. mounted' = [mounted EXCEPT !.blocked = TRUE]
      <3>1. [mounted EXCEPT !.blocked = TRUE].state = "stopping"
        BY <1>1 DEF Stoppings
      <3> QED
        BY <1>4, <3>1 DEF FinishStop, TornDown, Recorded
    <2>2. mounted' \in Stoppings /\ mounted'.state = "stopping" /\ mounted'.epoch = mounted.epoch
      BY <1>1, <2>1 DEF Stoppings
    <2>3. Owner' = Owner
      BY <1>1, <2>2 DEF Owner, IsMounted, Stoppings
    <2> QED
      BY <1>1, <1>2, <1>4, <2>2, <2>3 DEF SlotInv
  <1> QED
    BY <1>3, <1>4

\* Only a blocked teardown is abandoned, and then nobody owns its epoch.
LEMMA AbandonOwner ==
    ASSUME SlotInv, NEW e, AbandonFailedCleanup(e)
    PROVE  /\ SlotInv'
           /\ lastEpoch' = lastEpoch
           /\ Owner = {e} /\ Blocked
           /\ Owner' = {} /\ ~Blocked'
           /\ mounted'.state # "active"
  <1>1. mounted \in Stoppings /\ lastEpoch' = lastEpoch
    BY StateTellsShape DEF AbandonFailedCleanup
  <1>2. Owner = {e} /\ Blocked
    BY DEF AbandonFailedCleanup, Owner, Current, Blocked
  <1> QED
    BY <1>1, <1>2, StoppedOwner DEF AbandonFailedCleanup

-----------------------------------------------------------------------------
(* What the calls of the host do to the driver *)

\* The guard is as it was, or its start is over.
GuardStep ==
    \/ guard' = guard
    \/ /\ guard' = NoGuard \/ guard' \in Guards
       /\ guard'.start \notin {"prepared", "running"}

\* The start of the guard tells whether there is a guard.
LEMMA GuardShape ==
    ASSUME HostInv
    PROVE  /\ guard.start = "none" <=> guard = NoGuard
           /\ guard.start # "none" => guard \in Guards
           /\ guard.start \in {"none", "prepared", "running", "ready", "failed"}
  BY DEF HostInv, NoGuard, Guards

\* A start that ends cannot run any more.
LEMMA StartEnds ==
    ASSUME HostInv, guard # NoGuard,
           NEW s \in {"ready", "failed"}, guard' = [guard EXCEPT !.start = s]
    PROVE  GuardStep
  BY DEF HostInv, GuardStep, Guards

\* Neither can one that is discarded after a seal.
LEMMA DiscardEnds ==
    ASSUME HostInv, guard' = IF Guarded THEN Discarded(guard) ELSE guard
    PROVE  GuardStep
  BY StartEnds DEF Guarded, Discarded, GuardStep

\* Nor one whose guard is gone.
LEMMA GuardGone == guard' = NoGuard => GuardStep
  BY DEF GuardStep, NoGuard

\* A step that leaves the driver alone, whoever owns the slot after it.
LEMMA DriverKept ==
    ASSUME ActivationIInv, Kept \/ Renewed, Blocked' => Blocked, GuardStep,
           UNCHANGED <<driver, abandoned>>
    PROVE  HostInv'
  <1>1. guard' = NoGuard \/ guard' \in Guards
    BY DEF ActivationIInv, HostInv, GuardStep
  <1>2. Blocked => Owner # {}
    BY DEF Blocked, Owner, IsMounted
  <1>3. ASSUME NEW e \in 1..MaxEpoch
        PROVE  /\ driver'[e] \in {"prepared", "live", "closing"} => e \in Owner'
               /\ driver'[e] = "stuck" => e \in abandoned' \/ e \in Owner'
               /\ driver'[e] # "none" => e <= lastEpoch'
               /\ Blocked' /\ e \in Owner' => driver'[e] \in {"none", "down", "stuck"}
    <2>1. CASE Kept
      BY <2>1 DEF ActivationIInv, HostInv, Kept
    <2>2. CASE Renewed
      BY <1>2, <2>2 DEF ActivationIInv, HostInv, SlotInv, Renewed
    <2> QED
      BY <2>1, <2>2
  <1>4. ASSUME NEW e \in 1..MaxEpoch
        PROVE  guard'.start \in {"prepared", "running"} /\ guard'.epoch = e
                  => driver'[e] \in {"none", "prepared", "live"}
    BY DEF ActivationIInv, HostInv, GuardStep
  <1> QED
    BY <1>1, <1>3, <1>4 DEF ActivationIInv, HostInv

\* A step that moves the driver of the owner.
LEMMA DriverMoves ==
    ASSUME ActivationIInv, NEW x, NEW s \in Drivers, Owner = {x}, Kept,
           driver' = [driver EXCEPT ![x] = s], abandoned' = abandoned,
           Blocked' /\ x \in 1..MaxEpoch => s \in {"down", "stuck"},
           guard' = NoGuard \/ guard' \in Guards,
           guard'.start \in {"prepared", "running"} => s \in {"prepared", "live"} /\ guard'.epoch = x
    PROVE  HostInv'
  <1>1. driver' \in [1..MaxEpoch -> Drivers]
    BY DEF ActivationIInv, HostInv
  <1>2. x = lastEpoch /\ lastEpoch \in Nat
    BY DEF ActivationIInv, SlotInv
  <1>3. ASSUME NEW e \in 1..MaxEpoch
        PROVE  /\ driver'[e] \in {"prepared", "live", "closing"} => e \in Owner'
               /\ driver'[e] = "stuck" => e \in abandoned' \/ e \in Owner'
               /\ driver'[e] # "none" => e <= lastEpoch'
               /\ Blocked' /\ e \in Owner' => driver'[e] \in {"none", "down", "stuck"}
               /\ guard'.start \in {"prepared", "running"} /\ guard'.epoch = e
                     => driver'[e] \in {"none", "prepared", "live"}
    <2>1. CASE e = x
      <3>1. driver'[e] = s /\ e \in Owner' /\ e <= lastEpoch'
        BY <1>2, <2>1 DEF ActivationIInv, HostInv, Kept
      <3> QED
        BY <2>1, <3>1
    <2>2. CASE e # x
      <3>1. driver'[e] = driver[e] /\ e \notin Owner' /\ e \notin Owner /\ lastEpoch' = lastEpoch
        BY <2>2 DEF ActivationIInv, HostInv, Kept
      <3> QED
        BY <2>2, <3>1 DEF ActivationIInv, HostInv
    <2> QED
      BY <2>1, <2>2
  <1> QED
    BY <1>1, <1>3 DEF HostInv

\* The slot is left alone.
LEMMA SlotKept ==
    ASSUME SlotInv, UNCHANGED <<mounted, lastEpoch>>
    PROVE  SlotInv' /\ Kept /\ (Blocked' <=> Blocked) /\ mounted'.state = mounted.state
  BY DEF SlotInv, Kept, Owner, Blocked, IsMounted

\* Preparation: the epoch is the newest one, and nothing holds its driver.
LEMMA PreparePreserves ==
    ASSUME ActivationIInv, NEW e \in Epochs, Prepare(e)
    PROVE  ActivationIInv'
  <1>1. mounted \in Lives /\ Owner = {e}
    BY StateTellsShape DEF ActivationIInv, Prepare, Current, Owner
  <1>2. SlotInv' /\ Kept /\ ~Blocked'
    BY <1>1, EffectsOwner DEF ActivationIInv, Prepare
  <1>3. guard' \in Guards /\ guard'.start = "prepared" /\ guard'.epoch = e
    BY DEF Prepare, Guards, Epochs
  <1> QED
    BY <1>1, <1>2, <1>3, DriverMoves DEF ActivationIInv, Prepare, Drivers

\* The first poll of a start.
LEMMA CallStartPreserves ==
    ASSUME ActivationIInv, NEW panics \in BOOLEAN, CallStart(panics)
    PROVE  ActivationIInv'
  <1>1. mounted \in Lives /\ Owner = {guard.epoch}
    BY StateTellsShape DEF ActivationIInv, CallStart, Sealed, SealedIn, Live, Owner, IsMounted
  <1>2. guard \in Guards
    BY GuardShape DEF ActivationIInv, CallStart
  <1>3. CASE panics
    <2>1. SlotInv' /\ Kept /\ ~Blocked'
      BY <1>3, FailActivationOwner DEF ActivationIInv, CallStart
    <2>2. guard' \in Guards /\ guard'.start = "failed"
      BY <1>2, <1>3 DEF CallStart, Guards
    <2> QED
      BY <1>1, <2>1, <2>2, DriverMoves DEF ActivationIInv, CallStart, Drivers
  <1>4. CASE ~panics
    <2>1. UNCHANGED <<mounted, lastEpoch>>
      BY <1>4 DEF CallStart, slotVars
    <2>2. SlotInv' /\ Kept /\ ~Blocked'
      BY <1>1, <2>1, SlotKept DEF ActivationIInv, Blocked, Lives
    <2>3. guard' \in Guards /\ guard'.epoch = guard.epoch
      BY <1>2, <1>4 DEF CallStart, Guards
    <2> QED
      BY <1>1, <2>2, <2>3, DriverMoves DEF ActivationIInv, CallStart, Drivers
  <1> QED
    BY <1>3, <1>4

\* A closing step finds the owner stopping, and leaves no start behind.
LEMMA ClosingFacts ==
    ASSUME ActivationIInv, NEW e, Closing(e)
    PROVE  /\ Owner = {e}
           /\ GuardStep
           /\ guard' = NoGuard \/ guard' \in Guards
           /\ guard'.start \notin {"prepared", "running"}
  <1>1. Owner = {e}
    BY DEF Closing, Current, Owner
  <1>2. CASE Guarded
    <2>1. guard \in Guards /\ guard' = [guard EXCEPT !.start = "failed"]
      BY <1>2 DEF ActivationIInv, HostInv, Guarded, Closing, Discarded
    <2> QED
      BY <1>1, <2>1 DEF GuardStep, Guards
  <1>3. CASE ~Guarded
    BY <1>1, <1>3 DEF Closing, Guarded, GuardStep, NoGuard
  <1> QED
    BY <1>2, <1>3

\* The deactivation of a driver, from its call to its end.
LEMMA DeactivationPreserves ==
    ASSUME ActivationIInv, NEW e,
           BeginDeactivation(e) \/ \E ok \in BOOLEAN : EndDeactivation(e, ok)
    PROVE  ActivationIInv'
  <1>1. Closing(e) /\ UNCHANGED <<mounted, lastEpoch, abandoned>>
    BY DEF BeginDeactivation, EndDeactivation, slotVars
  <1>2. SlotInv' /\ Kept /\ (Blocked' <=> Blocked)
    BY <1>1, SlotKept DEF ActivationIInv
  <1>3. CASE BeginDeactivation(e)
    <2>1. Blocked' => e \notin 1..MaxEpoch
      BY <1>1, <1>2, <1>3, ClosingFacts DEF ActivationIInv, HostInv, BeginDeactivation
    <2> QED
      BY <1>1, <1>2, <1>3, <2>1, ClosingFacts, DriverMoves DEF ActivationIInv, BeginDeactivation, Drivers
  <1>4. ASSUME NEW ok \in BOOLEAN, EndDeactivation(e, ok)
        PROVE  ActivationIInv'
    <2>1. PICK s \in {"down", "stuck"} : driver' = [driver EXCEPT ![e] = s]
      BY <1>4 DEF EndDeactivation
    <2> QED
      BY <1>1, <1>2, <2>1, ClosingFacts, DriverMoves DEF ActivationIInv, Drivers
  <1> QED
    BY <1>3, <1>4

\* The last poll of a stop: the driver of the owner is not up any more.
LEMMA FinishPreserves ==
    ASSUME ActivationIInv, NEW e, NEW clean \in BOOLEAN, HostFinishStop(e, clean)
    PROVE  ActivationIInv'
  <1>1. /\ SlotInv'
        /\ lastEpoch' = lastEpoch
        /\ Owner = {e}
        /\ IF clean THEN Owner' = {} /\ ~Blocked' ELSE Owner' = Owner
    BY FinishStopOwner DEF ActivationIInv, HostFinishStop
  <1>2. /\ guard' = NoGuard \/ guard' \in Guards
        /\ guard'.start \notin {"prepared", "running"}
    BY ClosingFacts DEF HostFinishStop
  <1>3. /\ driver' = driver /\ abandoned' = abandoned
        /\ driver[e] \in {"none", "down", "stuck"}
        /\ clean => driver[e] # "stuck"
    BY DEF HostFinishStop
  <1>4. ASSUME NEW f \in 1..MaxEpoch
        PROVE  /\ driver[f] \in {"prepared", "live", "closing"} => f \in Owner'
               /\ driver[f] = "stuck" => f \in abandoned \/ f \in Owner'
               /\ Blocked' /\ f \in Owner' => driver[f] \in {"none", "down", "stuck"}
    <2>1. CASE f = e
      BY <1>1, <1>3, <2>1
    <2>2. CASE f # e
      BY <1>1, <2>2 DEF ActivationIInv, HostInv
    <2> QED
      BY <2>1, <2>2
  <1> QED
    BY <1>1, <1>2, <1>3, <1>4 DEF ActivationIInv, HostInv

\* A failed cleanup that is abandoned is on record.
LEMMA AbandonPreserves ==
    ASSUME ActivationIInv, NEW e, HostAbandon(e)
    PROVE  ActivationIInv'
  <1>1. /\ SlotInv'
        /\ lastEpoch' = lastEpoch
        /\ Owner = {e} /\ Blocked
        /\ Owner' = {} /\ ~Blocked'
    BY AbandonOwner DEF ActivationIInv, HostAbandon
  <1>2. driver' = driver /\ guard' = guard /\ abandoned' = abandoned \cup {e}
    BY DEF HostAbandon
  <1>3. ASSUME NEW f \in 1..MaxEpoch
        PROVE  /\ driver[f] \notin {"prepared", "live", "closing"}
               /\ driver[f] = "stuck" => f \in abandoned'
    <2>1. CASE f = e
      BY <1>1, <1>2, <2>1 DEF ActivationIInv, HostInv
    <2>2. CASE f # e
      BY <1>1, <1>2, <2>2 DEF ActivationIInv, HostInv
    <2> QED
      BY <2>1, <2>2
  <1> QED
    BY <1>1, <1>2, <1>3 DEF ActivationIInv, HostInv

\* Steps that leave the driver alone, action by action.
LEMMA OthersPreserve ==
    ASSUME ActivationIInv,
           \/ \E d \in Snapshots : HostReconcile(d)
           \/ \E S \in SUBSET Providers : ProvidersChange(S) /\ UNCHANGED hostVars
           \/ StartReady \/ StartFails
           \/ \E e \in Epochs : HostFail(e) \/ SlotOnly(e)
           \/ ReleaseActive \/ DropGuard
    PROVE  ActivationIInv'
  <1>0. SlotInv /\ HostInv
    BY DEF ActivationIInv
  <1> SUFFICES /\ SlotInv' /\ (Kept \/ Renewed) /\ (Blocked' => Blocked)
               /\ GuardStep /\ UNCHANGED <<driver, abandoned>>
    BY DriverKept DEF ActivationIInv
  <1>1. ASSUME NEW d \in Snapshots, HostReconcile(d)
        PROVE  /\ SlotInv' /\ (Kept \/ Renewed) /\ (Blocked' => Blocked)
               /\ GuardStep /\ UNCHANGED <<driver, abandoned>>
    <2>1. SlotInv' /\ (Kept \/ Renewed) /\ (Blocked' => Blocked)
      BY <1>0, <1>1, ReconcileOwner DEF HostReconcile
    <2>2. guard' = guard \/ (guard # NoGuard /\ guard' = [guard EXCEPT !.start = "failed"])
      BY <1>1 DEF HostReconcile, AfterSeal, Guarded, Discarded
    <2>3. GuardStep
      BY <1>0, <2>2, StartEnds DEF GuardStep
    <2> QED
      BY <1>1, <2>1, <2>3 DEF HostReconcile
  <1>2. ASSUME NEW S \in SUBSET Providers, ProvidersChange(S), UNCHANGED hostVars
        PROVE  /\ SlotInv' /\ (Kept \/ Renewed) /\ (Blocked' => Blocked)
               /\ GuardStep /\ UNCHANGED <<driver, abandoned>>
    <2>1. UNCHANGED <<mounted, lastEpoch, guard, driver, abandoned>>
      BY <1>2 DEF ProvidersChange, hostVars
    <2> QED
      BY <1>0, <2>1, SlotKept DEF GuardStep
  <1>3. CASE StartReady
    <2>1. SlotInv' /\ Kept /\ ~Blocked'
      BY <1>0, <1>3, CompleteStartOwner DEF StartReady
    <2>2. guard # NoGuard
      BY <1>3 DEF StartReady, NoGuard
    <2>3. PICK s \in {"ready", "failed"} : guard' = [guard EXCEPT !.start = s]
      BY <1>3 DEF StartReady
    <2> QED
      BY <1>0, <1>3, <2>1, <2>2, <2>3, StartEnds DEF StartReady
  <1>4. CASE StartFails
    <2>1. SlotInv' /\ Kept /\ ~Blocked'
      BY <1>0, <1>4, FailActivationOwner DEF StartFails
    <2>2. guard # NoGuard
      BY <1>4 DEF StartFails, NoGuard
    <2> QED
      BY <1>0, <1>4, <2>1, <2>2, StartEnds DEF StartFails
  <1>5. ASSUME NEW e \in Epochs, HostFail(e)
        PROVE  /\ SlotInv' /\ (Kept \/ Renewed) /\ (Blocked' => Blocked)
               /\ GuardStep /\ UNCHANGED <<driver, abandoned>>
    <2>1. SlotInv' /\ Kept /\ ~Blocked'
      BY <1>0, <1>5, FailActivationOwner DEF HostFail
    <2> QED
      BY <1>0, <1>5, <2>1, DiscardEnds DEF HostFail
  <1>6. ASSUME NEW e \in Epochs, SlotOnly(e)
        PROVE  /\ SlotInv' /\ (Kept \/ Renewed) /\ (Blocked' => Blocked)
               /\ GuardStep /\ UNCHANGED <<driver, abandoned>>
    <2>1. SlotInv' /\ Kept /\ ~Blocked'
      BY <1>0, <1>6, CompleteStartOwner, AdmitEffectOwner DEF SlotOnly
    <2> QED
      BY <1>6, <2>1 DEF SlotOnly, hostVars, GuardStep
  <1>7. CASE ReleaseActive
    <2>1. UNCHANGED <<mounted, lastEpoch, driver, abandoned>> /\ guard' = NoGuard
      BY <1>7 DEF ReleaseActive, slotVars
    <2> QED
      BY <1>0, <2>1, SlotKept, GuardGone
  <1>8. CASE DropGuard
    <2>1. CASE Sealed(guard.epoch)
      <3>1. UNCHANGED <<mounted, lastEpoch, driver, abandoned>> /\ guard' = NoGuard
        BY <1>8, <2>1 DEF DropGuard, slotVars
      <3> QED
        BY <1>0, <3>1, SlotKept, GuardGone
    <2>2. CASE ~Sealed(guard.epoch)
      <3>1. SlotInv' /\ Kept /\ ~Blocked'
        BY <1>0, <1>8, <2>2, FailActivationOwner DEF DropGuard
      <3> QED
        BY <1>8, <3>1, GuardGone DEF DropGuard
    <2> QED
      BY <2>1, <2>2
  <1> QED
    BY <1>1, <1>2, <1>3, <1>4, <1>5, <1>6, <1>7, <1>8

-----------------------------------------------------------------------------
(* The theorems *)

\* The inductive invariant holds in every reachable state.
THEOREM ActivationInvariantHolds == ActivationSpec => []ActivationIInv
  <1>1. ActivationInit => ActivationIInv
    BY SlotAssumption DEF ActivationInit, InitSlot, ActivationIInv, SlotInv, HostInv, Owner, IsMounted, Unmounted,
                          Blocked, NoGuard, Drivers
  <1>2. ActivationIInv /\ [ActivationNext]_activationVars => ActivationIInv'
    <2> SUFFICES ASSUME ActivationIInv, [ActivationNext]_activationVars PROVE ActivationIInv'
      OBVIOUS
    <2>1. CASE \E e \in Epochs : Prepare(e)
      BY <2>1, PreparePreserves
    <2>2. CASE \E panics \in BOOLEAN : CallStart(panics)
      BY <2>2, CallStartPreserves
    <2>3. CASE \E e \in Epochs : PollStop(e)
      BY <2>3, DeactivationPreserves, FinishPreserves DEF PollStop
    <2>4. CASE \E e \in Epochs : HostAbandon(e)
      BY <2>4, AbandonPreserves
    <2>5. CASE UNCHANGED activationVars
      BY <2>5 DEF activationVars, slotVars, hostVars, ActivationIInv, SlotInv, HostInv, Owner, IsMounted, Blocked
    <2> QED
      BY <2>1, <2>2, <2>3, <2>4, <2>5, OthersPreserve DEF ActivationNext, PollActivate
  <1> QED
    BY <1>1, <1>2, PTL DEF ActivationSpec

\* For every instance: two activations of a slot never hold driver resources at
\* the same time, unless the cleanup of the earlier one was abandoned
\* (ReconciledComponent::finish_stop, abandon_failed_cleanup).
THEOREM DriversExclusive == ActivationSpec => []OneDriverAtATime
  <1>1. ActivationIInv => OneDriverAtATime
    <2> SUFFICES ASSUME ActivationIInv, NEW e \in 1..MaxEpoch, NEW f \in 1..MaxEpoch,
                        e < f, Holds(e), Holds(f), e \notin abandoned
                 PROVE  FALSE
      BY DEF OneDriverAtATime
    <2>1. e \in Owner
      BY DEF ActivationIInv, HostInv, Holds
    <2>2. e = lastEpoch
      BY <2>1 DEF ActivationIInv, SlotInv
    <2>3. f <= lastEpoch /\ lastEpoch \in Nat
      BY DEF ActivationIInv, HostInv, SlotInv, Holds
    <2> QED
      BY <2>2, <2>3
  <1> QED
    BY <1>1, ActivationInvariantHolds, PTL

\* For every instance: no deactivation while the start may still run, and no
\* driver that is prepared, live or closing behind the slot's back
\* (HostPluginActivation::finish_stop, discard_after_seal).
THEOREM StartsEndFirst == ActivationSpec => []StartEndsFirst
  <1>1. ActivationIInv => StartEndsFirst
    <2> SUFFICES ASSUME ActivationIInv, NEW e \in 1..MaxEpoch
                 PROVE  /\ driver[e] \in {"prepared", "live", "closing"} => Current(e)
                        /\ driver[e] \in {"closing", "down", "stuck"} /\ Guarded /\ guard.epoch = e
                              => guard.start \notin {"prepared", "running"}
      BY DEF StartEndsFirst
    <2> QED
      BY OwnerIsCurrent DEF ActivationIInv, HostInv
  <1> QED
    BY <1>1, ActivationInvariantHolds, PTL

\* The newest desired state and the registry agree with the selection of the
\* component, which the slot froze when it began the start.
SelectionCurrent ==
    /\ desired.want = "enabled"
    /\ desired.rev = mounted.rev
    /\ desired.assign = mounted.assign
    /\ mounted.rev \in Requiring => mounted.assign \in available

\* complete_start succeeds only on the desired assignment, with its provider there.
LEMMA CompletedOnSelection ==
    ASSUME SlotInv, NEW e, CompleteStart(e), mounted'.state = "active"
    PROVE  SelectionCurrent
  <1>1. mounted \in Lives
    BY StateTellsShape DEF CompleteStart
  <1>2. Stopping(mounted, "pending").state = "stopping"
    BY <1>1, StoppingOfLive
  <1> QED
    BY <1>2 DEF CompleteStart, StartOutcome, ActiveRevision, Ready, SelectionCurrent

\* For every instance: a component becomes active only on the newest desired
\* assignment and with its provider there (ReconciledComponent::complete_start,
\* reached through poll_activate).
THEOREM ActiveOnSelection == ActivationSpec => ActiveOnCurrentSelection
  <1>1. ActivationIInv /\ [ActivationNext]_activationVars =>
          [mounted'.state = "active" /\ mounted.state # "active" =>
              /\ desired.want = "enabled"
              /\ desired.rev = mounted.rev
              /\ desired.assign = mounted.assign
              /\ mounted.rev \in Requiring => mounted.assign \in available]_activationVars
    <2> SUFFICES ASSUME ActivationIInv, ActivationNext, mounted'.state = "active", mounted.state # "active"
                 PROVE  SelectionCurrent
      BY DEF SelectionCurrent
    <2>0. SlotInv
      BY DEF ActivationIInv
    <2>1. ASSUME NEW d \in Snapshots, HostReconcile(d) PROVE FALSE
      BY <2>0, <2>1, ReconcileOwner DEF HostReconcile
    <2>2. ASSUME UNCHANGED mounted PROVE FALSE
      BY <2>2
    <2>3. ASSUME NEW e, FailActivation(e) PROVE FALSE
      BY <2>0, <2>3, FailActivationOwner
    <2>4. ASSUME NEW e, CompleteStart(e) PROVE SelectionCurrent
      BY <2>0, <2>4, CompletedOnSelection
    <2>5. ASSUME NEW e, Prepare(e) PROVE FALSE
      <3>1. mounted \in Lives
        BY <2>0, <2>5, StateTellsShape DEF Prepare
      <3> QED
        BY <2>0, <2>5, <3>1, EffectsOwner DEF Prepare
    <2>6. ASSUME NEW e, SlotOnly(e) PROVE SelectionCurrent
      BY <2>0, <2>4, <2>6, AdmitEffectOwner DEF SlotOnly
    <2>7. CASE PollActivate
      <3>1. ASSUME NEW panics \in BOOLEAN, CallStart(panics) PROVE FALSE
        BY <2>2, <2>3, <3>1 DEF CallStart, slotVars
      <3> QED
        BY <2>3, <2>4, <2>7, <3>1 DEF PollActivate, StartReady, StartFails
    <2>8. CASE DropGuard
      BY <2>2, <2>3, <2>8 DEF DropGuard, slotVars
    <2>9. ASSUME NEW e, PollStop(e) PROVE FALSE
      <3>1. ASSUME NEW clean \in BOOLEAN, HostFinishStop(e, clean) PROVE FALSE
        BY <2>0, <3>1, FinishStopOwner DEF HostFinishStop
      <3>2. ASSUME BeginDeactivation(e) \/ \E ok \in BOOLEAN : EndDeactivation(e, ok) PROVE FALSE
        BY <2>2, <3>2 DEF BeginDeactivation, EndDeactivation, slotVars
      <3> QED
        BY <2>9, <3>1, <3>2 DEF PollStop
    <2>10. ASSUME NEW e, HostAbandon(e) PROVE FALSE
      BY <2>0, <2>10, AbandonOwner DEF HostAbandon
    <2>11. ASSUME NEW S, ProvidersChange(S) PROVE FALSE
      BY <2>2, <2>11 DEF ProvidersChange
    <2>12. ASSUME NEW e, HostFail(e) PROVE FALSE
      BY <2>3, <2>12 DEF HostFail
    <2>13. CASE ReleaseActive
      BY <2>2, <2>13 DEF ReleaseActive, slotVars
    <2> QED
      BY <2>1, <2>5, <2>6, <2>7, <2>8, <2>9, <2>10, <2>11, <2>12, <2>13 DEF ActivationNext
  <1> QED
    BY <1>1, ActivationInvariantHolds, PTL DEF ActivationSpec, ActiveOnCurrentSelection
=============================================================================
