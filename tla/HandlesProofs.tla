---------------------------- MODULE HandlesProofs ----------------------------
(***************************************************************************)
(* Proofs about scopes, services and capabilities, for every tree of       *)
(* scopes and any number of callers, services and registrations: no        *)
(* cleanup runs under a borrowed operation, the broker's book is right     *)
(* although its owners remove their entries twice, and a scope undoes what *)
(* it admitted in the reverse order.                                       *)
(*                                                                         *)
(* The argument for the first: a latch is set only on a revoked gate that  *)
(* nobody holds, such a gate admits nobody, nothing is undone before the   *)
(* latch is set, and a running operation holds every gate it needs.  The   *)
(* last needs that the place of a service does not move while a handle to  *)
(* it exists.                                                              *)
(***************************************************************************)
EXTENDS Handles, SequenceTheorems, TLAPS

Fields(x) == [state |-> x.state, entries |-> x.entries, current |-> x.current, steps |-> x.steps]

\* A latch is set for good, on a gate nobody holds or will hold.
LatchInv ==
    /\ scopes = [s \in Scopes |-> Fields(scopes[s])]
    /\ held \in [Callers -> SUBSET Scopes]
    /\ \A g \in drained : g \in revoked /\ Holders(g) = {}
    /\ \A s \in Scopes : Undoing(s) => s \in drained

ServiceRecords == [state : {"unused"}] \cup [state : {"published", "withdrawn"}, in : Homes]
Calls == {Asleep} \cup [pc : {"admit", "run", "leave"}, on : bound]

\* A call goes through a handle to a service that has its place, and holds the
\* gates it needs while the operation runs.
CallInv ==
    /\ service \in [Services -> ServiceRecords]
    /\ \A h \in bound : h.to \in Services => service[h.to].state # "unused"
    /\ call \in [Callers -> Calls]
    /\ \A t \in Callers : call[t].pc = "run" => Needs(call[t].on) \subseteq held[t]

Owners == {"unused", "holds", "withdrawing", "dropping", "gone"}

\* A dropped broker has forgotten its registrations.
BrokerInv ==
    /\ grant \in [Grants -> [owner : Owners, open : BOOLEAN, listed : BOOLEAN]]
    /\ ListedIsActive
    /\ ~broker => active = NoGrant

\* The inductive invariant.
IInv == LatchInv /\ CallInv /\ BrokerInv

-----------------------------------------------------------------------------
(* The scopes *)

\* What a step may do to the scopes, the latches and the gates.
LatchStep ==
    /\ scopes' = [s \in Scopes |-> Fields(scopes'[s])]
    /\ drained \subseteq drained'
    /\ \A s \in Scopes : Undoing(s)' => Undoing(s) \/ s \in drained

\* Such a step keeps the latches right if the gates it leaves are.
LEMMA LatchStepKeeps ==
    ASSUME LatchInv, LatchStep, held' \in [Callers -> SUBSET Scopes],
           \A g \in drained' : g \in revoked' /\ Holders(g)' = {}
    PROVE  LatchInv'
  BY DEF LatchInv, LatchStep

\* The gates are left alone, or more of them are revoked.
RevokeStep ==
    /\ held' = held
    /\ \/ UNCHANGED <<revoked, drained>>
       \/ \E S : Revoke(S)

\* A step that only revokes gates, or none, keeps the latches right.
LEMMA RevokeKeeps ==
    ASSUME LatchInv, RevokeStep, LatchStep
    PROVE  LatchInv'
  <1>1. \A g : Holders(g)' = Holders(g)
    BY DEF RevokeStep, Holders
  <1>2. \A g \in drained' : g \in revoked' /\ Holders(g) = {}
    BY DEF RevokeStep, Revoke, LatchInv
  <1> QED
    BY <1>1, <1>2, LatchStepKeeps DEF RevokeStep, LatchInv

\* The scopes are left alone.
LEMMA ScopesKept ==
    ASSUME LatchInv, UNCHANGED scopeVars
    PROVE  LatchInv' /\ held' = held
  <1>1. LatchStep /\ RevokeStep
    BY DEF LatchInv, LatchStep, RevokeStep, Undoing, scopeVars
  <1> QED
    BY <1>1, RevokeKeeps DEF scopeVars

\* A scope whose teardown the step does not touch.
Untouched(d) ==
    /\ scopes'[d].steps = scopes[d].steps
    /\ scopes'[d].current = scopes[d].current
    /\ scopes'[d].state = "closed" => scopes[d].state = "closed"

\* A step that tears down drained scopes only.
LEMMA TeardownStep ==
    ASSUME scopes' = [s \in Scopes |-> Fields(scopes'[s])], drained \subseteq drained',
           \A d \in Scopes : Untouched(d) \/ ~Undoing(d)' \/ d \in drained
    PROVE  LatchStep
  BY DEF LatchStep, Untouched, Undoing

\* A scope that does not exist or was just opened undoes nothing.
LEMMA BlankIsQuiet ==
    ASSUME NEW state \in {"absent", "open"}
    PROVE  /\ Blank(state) = Fields(Blank(state))
           /\ Blank(state).steps = <<>>
           /\ Blank(state).current = None
           /\ Blank(state).state # "closed"
  BY DEF Blank, Fields

\* The root scope of a new activation.
LEMMA NewKeeps ==
    ASSUME LatchInv, NEW s \in Scopes, New(s)
    PROVE  LatchStep /\ RevokeStep
  <1>1. ASSUME NEW d \in Scopes
        PROVE  scopes'[d] = IF d = s THEN Blank("open") ELSE scopes[d]
    BY DEF New, LatchInv
  <1>2. scopes' = [d \in Scopes |-> Fields(scopes'[d])]
    BY <1>1, BlankIsQuiet DEF New, LatchInv
  <1>3. ASSUME NEW d \in Scopes
        PROVE  Untouched(d) \/ ~Undoing(d)'
    BY <1>1, BlankIsQuiet DEF Untouched, Undoing
  <1> QED
    BY <1>2, <1>3, TeardownStep DEF New, RevokeStep

\* A scope nested in another one.
LEMMA NewChildKeeps ==
    ASSUME LatchInv, NEW p \in Scopes, NEW s \in Scopes, NewChild(p, s)
    PROVE  LatchStep /\ RevokeStep
  <1>1. ASSUME NEW d \in Scopes
        PROVE  scopes'[d] = IF d = p THEN [scopes[p] EXCEPT !.entries = Append(@, Child(s))]
                            ELSE IF d = s THEN Blank("open") ELSE scopes[d]
    BY DEF NewChild, LatchInv, IsParent
  <1>2. ASSUME NEW d \in Scopes
        PROVE  scopes'[d] = Fields(scopes'[d])
    <2>1. CASE d = p
      BY <1>1, <2>1 DEF LatchInv, Fields
    <2>2. CASE d # p /\ d = s
      BY <1>1, <2>2, BlankIsQuiet
    <2>3. CASE d # p /\ d # s
      BY <1>1, <2>3 DEF LatchInv
    <2> QED
      BY <2>1, <2>2, <2>3
  <1>3. scopes' = [d \in Scopes |-> Fields(scopes'[d])]
    BY <1>2, Zenon DEF NewChild, LatchInv
  <1>4. ASSUME NEW d \in Scopes
        PROVE  Untouched(d) \/ ~Undoing(d)'
    <2>1. CASE d = p
      BY <1>1, <2>1 DEF Untouched, LatchInv, Fields
    <2>2. CASE d # p
      BY <1>1, <2>2, BlankIsQuiet DEF Untouched, Undoing
    <2> QED
      BY <2>1, <2>2
  <1> QED
    BY <1>3, <1>4, TeardownStep DEF NewChild, RevokeStep

\* A cleanup that is registered.
LEMMA DeferKeeps ==
    ASSUME LatchInv, NEW s, NEW entry, Defer(s, entry)
    PROVE  LatchStep /\ RevokeStep
  <1>1. ASSUME NEW d \in Scopes
        PROVE  scopes'[d] = IF d = s THEN [scopes[d] EXCEPT !.entries = Append(@, entry)]
                            ELSE scopes[d]
    BY Zenon DEF Defer, LatchInv
  <1>2. ASSUME NEW d \in Scopes
        PROVE  scopes'[d] = Fields(scopes'[d]) /\ Untouched(d)
    BY <1>1, Zenon DEF LatchInv, Fields, Untouched
  <1>3. scopes' = [d \in Scopes |-> Fields(scopes'[d])]
    BY <1>2, Zenon DEF Defer, LatchInv
  <1> QED
    BY <1>2, <1>3, TeardownStep DEF Defer, RevokeStep

\* Revoking gates sets latches and clears none.
LEMMA RevokeLatches == \A S : Revoke(S) => drained \subseteq drained'
  BY DEF Revoke

\* A close that begins: the gates of the subtree are revoked.
LEMMA BeginCloseKeeps ==
    ASSUME LatchInv, NEW s \in Scopes, BeginClose(s)
    PROVE  LatchStep /\ RevokeStep
  <1>1. ASSUME NEW d \in Scopes
        PROVE  scopes'[d] = IF d = s THEN [scopes[d] EXCEPT !.state = "closing"] ELSE scopes[d]
    BY DEF BeginClose, LatchInv
  <1>2. ASSUME NEW d \in Scopes
        PROVE  scopes'[d] = Fields(scopes'[d]) /\ Untouched(d)
    BY <1>1, Zenon DEF LatchInv, Fields, Untouched
  <1>3. scopes' = [d \in Scopes |-> Fields(scopes'[d])]
    BY <1>2 DEF BeginClose, LatchInv
  <1> QED
    BY <1>2, <1>3, TeardownStep, RevokeLatches DEF BeginClose, RevokeStep

\* A scope that is dropped by its owner.
LEMMA DropScopeKeeps ==
    ASSUME LatchInv, NEW s \in Scopes, DropScope(s)
    PROVE  LatchStep /\ RevokeStep
  <1>1. ASSUME NEW d \in Scopes
        PROVE  scopes'[d] = [scopes[d] EXCEPT !.state = "dropped"] \/ scopes'[d] = scopes[d]
    BY DEF DropScope
  <1>2. ASSUME NEW d \in Scopes
        PROVE  scopes'[d] = Fields(scopes'[d]) /\ Untouched(d)
    BY <1>1, Zenon DEF LatchInv, Fields, Untouched
  <1>3. scopes' = [d \in Scopes |-> Fields(scopes'[d])]
    BY <1>2 DEF DropScope
  <1> QED
    BY <1>2, <1>3, TeardownStep, RevokeLatches, Zenon DEF DropScope, RevokeStep

\* The steps of a poll change the teardown of the polled scope, which is
\* drained, and seal at most one child.
LEMMA PollKeeps ==
    ASSUME LatchInv, NEW s \in Scopes, Poll(s)
    PROVE  LatchStep /\ RevokeStep
  <1>0. scopes = [d \in Scopes |-> Fields(scopes[d])] /\ s \in drained
    BY DEF LatchInv, Poll, RunCleanup, RunEntry, StartAsync, FinishAsync, StartChild,
           FinishChild, FinishClose, Cleans
  <1>1. RevokeStep /\ drained \subseteq drained'
    BY RevokeLatches DEF Poll, RunCleanup, RunEntry, StartAsync, FinishAsync, StartChild,
                         FinishChild, FinishClose, RevokeStep
  <1>2. SUFFICES /\ scopes' = [d \in Scopes |-> Fields(scopes'[d])]
                 /\ \A d \in Scopes : d = s \/ Untouched(d)
    BY <1>0, <1>1, TeardownStep
  <1>3. CASE RunCleanup(s)
    <2>1. \A d \in Scopes : scopes'[d] =
             IF d = s THEN [scopes[d] EXCEPT !.entries = Popped(s), !.steps = Append(@, LastEntry(s))]
             ELSE scopes[d]
      BY <1>0, <1>3, Zenon DEF RunCleanup, RunEntry
    <2>2. \A d \in Scopes : scopes'[d] = Fields(scopes'[d]) /\ (d = s \/ Untouched(d))
      BY <1>0, <2>1, Zenon DEF Fields, Untouched
    <2> QED
      BY <1>0, <1>3, <2>2 DEF RunCleanup, RunEntry
  <1>4. CASE StartAsync(s)
    <2>1. \A d \in Scopes : scopes'[d] =
             IF d = s THEN [scopes[d] EXCEPT !.entries = Popped(s), !.current = LastEntry(s)]
             ELSE scopes[d]
      BY <1>0, <1>4, Zenon DEF StartAsync
    <2>2. \A d \in Scopes : scopes'[d] = Fields(scopes'[d]) /\ (d = s \/ Untouched(d))
      BY <1>0, <2>1, Zenon DEF Fields, Untouched
    <2> QED
      BY <1>0, <1>4, <2>2 DEF StartAsync
  <1>5. CASE FinishAsync(s)
    <2>1. \A d \in Scopes : scopes'[d] =
             IF d = s THEN [scopes[d] EXCEPT !.current = None, !.steps = Append(@, scopes[s].current)]
             ELSE scopes[d]
      BY <1>0, <1>5, Zenon DEF FinishAsync
    <2>2. \A d \in Scopes : scopes'[d] = Fields(scopes'[d]) /\ (d = s \/ Untouched(d))
      BY <1>0, <2>1, Zenon DEF Fields, Untouched
    <2> QED
      BY <1>0, <1>5, <2>2 DEF FinishAsync
  <1>6. CASE StartChild(s)
    <2> DEFINE c == LastEntry(s).of
    <2>1. /\ scopes' = [d \in Scopes |-> scopes'[d]]
          /\ \A d \in Scopes : scopes'[d] =
               IF d = s THEN [scopes[d] EXCEPT !.entries = Popped(s), !.current = Child(c)]
               ELSE IF d = c /\ scopes[c].state = "open" THEN [scopes[d] EXCEPT !.state = "closing"]
               ELSE scopes[d]
      BY <1>6, Zenon DEF StartChild
    <2> HIDE DEF c
    <2>2. \A d \in Scopes : scopes'[d] = Fields(scopes'[d])
      BY <1>0, <2>1, Zenon DEF Fields
    <2>3. ASSUME NEW d \in Scopes, d # s PROVE Untouched(d)
      <3>1. CASE d = c /\ scopes[c].state = "open"
        <4>1. scopes'[d] = [scopes[d] EXCEPT !.state = "closing"] /\ scopes[d] = Fields(scopes[d])
          BY <1>0, <2>1, <2>3, <3>1, Zenon
        <4> QED
          BY <4>1, Zenon DEF Untouched, Fields
      <3>2. CASE ~(d = c /\ scopes[c].state = "open")
        BY <2>1, <2>3, <3>2, Zenon DEF Untouched
      <3> QED
        BY <3>1, <3>2
    <2> QED
      BY <2>1, <2>2, <2>3
  <1>7. CASE FinishChild(s)
    <2>1. \A d \in Scopes : scopes'[d] =
             IF d = s THEN [scopes[d] EXCEPT !.current = None,
                                             !.steps = Append(@, Child(scopes[s].current.of))]
             ELSE scopes[d]
      BY <1>0, <1>7, Zenon DEF FinishChild
    <2>2. \A d \in Scopes : scopes'[d] = Fields(scopes'[d]) /\ (d = s \/ Untouched(d))
      BY <1>0, <2>1, Zenon DEF Fields, Untouched
    <2> QED
      BY <1>0, <1>7, <2>2 DEF FinishChild
  <1>8. CASE FinishClose(s)
    <2>1. \A d \in Scopes : scopes'[d] =
             IF d = s THEN [scopes[d] EXCEPT !.state = "closed"] ELSE scopes[d]
      BY <1>0, <1>8 DEF FinishClose
    <2>2. \A d \in Scopes : scopes'[d] = Fields(scopes'[d]) /\ (d = s \/ Untouched(d))
      BY <1>0, <2>1, Zenon DEF Fields, Untouched
    <2> QED
      BY <1>0, <1>8, <2>2 DEF FinishClose
  <1> QED
    BY <1>3, <1>4, <1>5, <1>6, <1>7, <1>8 DEF Poll

\* A gate that is not revoked has no latch, so that another holder does no harm.
LEMMA AdmitLocalKeeps ==
    ASSUME LatchInv, NEW t \in Callers, NEW g \in Scopes, AdmitLocal(t, g)
    PROVE  LatchInv' /\ \A u \in Callers : held[u] \subseteq held'[u]
  <1>1. held' \in [Callers -> SUBSET Scopes]
    BY DEF LatchInv, AdmitLocal
  <1>2. \A u \in Callers : held[u] \subseteq held'[u] /\ held'[u] \subseteq held[u] \cup {g}
    BY DEF LatchInv, AdmitLocal
  <1>3. ASSUME NEW x \in drained PROVE x \in revoked' /\ Holders(x)' = {}
    <2>1. x # g /\ x \in revoked /\ Holders(x) = {}
      BY DEF LatchInv, AdmitLocal
    <2> QED
      BY <1>2, <2>1 DEF Holders, AdmitLocal
  <1>4. LatchStep
    BY DEF AdmitLocal, LatchInv, LatchStep, Undoing
  <1> QED
    BY <1>1, <1>2, <1>3, <1>4, LatchStepKeeps DEF AdmitLocal

\* A call that leaves a gate, and sets its latch if it was the last.
LEMMA ReleaseKeeps ==
    ASSUME LatchInv, NEW t \in Callers, NEW g \in Scopes, Release(t, g)
    PROVE  LatchInv' /\ \A u \in Callers : u # t => held'[u] = held[u]
  <1>1. held' \in [Callers -> SUBSET Scopes]
    BY DEF LatchInv, Release
  <1>2. \A u \in Callers : held'[u] = IF u = t THEN held[u] \ {g} ELSE held[u]
    BY Zenon DEF LatchInv, Release
  <1>3. ASSUME NEW x \in drained' PROVE x \in revoked' /\ Holders(x)' = {}
    <2>1. CASE x \in drained
      <3>1. x \in revoked /\ Holders(x) = {}
        BY <2>1 DEF LatchInv
      <3> QED
        BY <1>2, <3>1 DEF Holders, Release
    <2>2. CASE x \notin drained
      <3>1. x = g /\ g \in revoked /\ Holders(g) = {t}
        BY <2>2 DEF Release
      <3> QED
        BY <1>2, <3>1 DEF Holders, Release
    <2> QED
      BY <2>1, <2>2
  <1>4. LatchStep
    BY DEF Release, LatchInv, LatchStep, Undoing
  <1> QED
    BY <1>1, <1>2, <1>3, <1>4, LatchStepKeeps

-----------------------------------------------------------------------------
(* Services and calls *)

\* Steps outside the calls keep what is known of the calls.
LEMMA CallKept ==
    ASSUME CallInv, UNCHANGED <<service, bound, call>>,
           \A u \in Callers : held[u] \subseteq held'[u]
    PROVE  CallInv'
  <1>1. \A h : Needs(h)' = Needs(h)
    BY DEF Needs, Lent
  <1> QED
    BY <1>1 DEF CallInv, Calls

\* A record that is in use keeps its place.
LEMMA ServiceMoves ==
    ASSUME CallInv, service' \in [Services -> ServiceRecords],
           \A p \in Services : service[p].state # "unused" =>
              service'[p].state # "unused" /\ service'[p].in = service[p].in,
           UNCHANGED <<bound, call, held>>
    PROVE  CallInv'
  <1>1. ASSUME NEW t \in Callers, call[t].pc = "run" PROVE Needs(call[t].on)' \subseteq held[t]
    <2>1. call[t].on \in bound
      BY <1>1 DEF CallInv, Calls, Asleep
    <2>2. Needs(call[t].on)' = Needs(call[t].on)
      BY <2>1 DEF CallInv, Needs, Lent
    <2> QED
      BY <1>1, <2>2 DEF CallInv
  <1>2. \A t \in Callers : call'[t].pc = "run" => Needs(call[t].on)' \subseteq held'[t]
    BY <1>1
  <1> QED
    BY <1>2 DEF CallInv, Calls

\* A service that is withdrawn keeps its place.
LEMMA WithdrawnMoves ==
    ASSUME CallInv, NEW S, service' = Withdrawn(S)
    PROVE  /\ service' \in [Services -> ServiceRecords]
           /\ \A p \in Services : service[p].state # "unused" =>
                 service'[p].state # "unused" /\ service'[p].in = service[p].in
  <1>1. ASSUME NEW p \in Services
        PROVE  /\ service'[p] \in ServiceRecords
               /\ service[p].state # "unused" =>
                     service'[p].state # "unused" /\ service'[p].in = service[p].in
    <2>1. CASE p \in S /\ service[p].state = "published"
      <3>1. service'[p] = [service[p] EXCEPT !.state = "withdrawn"]
        BY <2>1 DEF Withdrawn
      <3>2. service[p] \in [state : {"published", "withdrawn"}, in : Homes]
        BY <2>1 DEF CallInv, ServiceRecords
      <3> QED
        BY <3>1, <3>2 DEF ServiceRecords
    <2>2. CASE ~(p \in S /\ service[p].state = "published")
      BY <2>2 DEF Withdrawn, CallInv
    <2> QED
      BY <2>1, <2>2
  <1> QED
    BY <1>1 DEF Withdrawn

\* A service that is published had no handle before.
LEMMA ProvideMoves ==
    ASSUME CallInv, NEW p \in Services, NEW s \in Homes, Provide(p, s)
    PROVE  CallInv'
  <1>1. service' \in [Services -> ServiceRecords]
    BY DEF Provide, CallInv, ServiceRecords
  <1>2. \A q \in Services : service[q].state # "unused" => service'[q] = service[q]
    BY DEF Provide, CallInv
  <1> QED
    BY <1>1, <1>2, ServiceMoves DEF Provide, Defer

\* Another handle is handed out.
LEMMA BoundGrows ==
    ASSUME CallInv, NEW h, bound' = bound \cup {h}, UNCHANGED <<service, call, held>>,
           h.to \in Services => service[h.to].state # "unused"
    PROVE  CallInv'
  <1>1. Calls \subseteq Calls'
    BY DEF Calls
  <1>2. \A k : Needs(k)' = Needs(k)
    BY DEF Needs, Lent
  <1> QED
    BY <1>1, <1>2 DEF CallInv

\* A caller moves on to k.
LEMMA CallMoves ==
    ASSUME CallInv, NEW t \in Callers, NEW k \in Calls, call' = [call EXCEPT ![t] = k],
           k.pc = "run" => Needs(k.on) \subseteq held'[t],
           \A u \in Callers : u # t => held'[u] = held[u],
           UNCHANGED <<service, bound>>
    PROVE  CallInv'
  <1>1. \A h : Needs(h)' = Needs(h)
    BY DEF Needs, Lent
  <1>2. call' \in [Callers -> Calls]
    BY DEF CallInv
  <1>3. \A u \in Callers : call'[u] = IF u = t THEN k ELSE call[u]
    BY DEF CallInv
  <1> QED
    BY <1>1, <1>2, <1>3 DEF CallInv, Calls

\* A call that is under way goes through a handle.
LEMMA AwakeCall ==
    ASSUME CallInv, NEW t \in Callers, call[t].pc \in {"admit", "run", "leave"}
    PROVE  call[t] \in [pc : {"admit", "run", "leave"}, on : bound]
  BY DEF CallInv, Calls, Asleep

\* A call that is refused or returns is not running any more.
LEMMA LeavingMoves ==
    ASSUME CallInv, NEW t \in Callers, call[t].pc \in {"admit", "run"}, Leaving(t),
           UNCHANGED <<service, bound, held>>
    PROVE  CallInv'
  <1> DEFINE k == IF held[t] = {} THEN Asleep ELSE [call[t] EXCEPT !.pc = "leave"]
  <1>1. k \in Calls /\ k.pc # "run"
    BY AwakeCall DEF Calls, Asleep
  <1>2. call' = [call EXCEPT ![t] = k]
    BY DEF Leaving
  <1> HIDE DEF k
  <1> QED
    BY <1>1, <1>2, CallMoves, Zenon

\* A call that has begun: it runs only behind all its gates, and lets go of
\* them only afterwards.
LEMMA ProceedKeeps ==
    ASSUME LatchInv, CallInv, NEW t \in Callers, Proceed(t)
    PROVE  LatchInv' /\ CallInv'
  <1>1. ASSUME NEW g \in Scopes, Admit(t, g) PROVE LatchInv' /\ CallInv'
    BY <1>1, AdmitLocalKeeps, CallKept DEF Admit, handleVars
  <1>2. CASE Refused(t)
    BY <1>2, ScopesKept, LeavingMoves DEF Refused
  <1>3. CASE Enter(t)
    <2>1. LatchInv' /\ held' = held /\ UNCHANGED <<service, bound>>
      BY <1>3, ScopesKept DEF Enter
    <2>2. CASE Available(call[t].on)
      <3> DEFINE k == [call[t] EXCEPT !.pc = "run"]
      <3>1. call[t] \in [pc : {"admit", "run", "leave"}, on : bound]
        BY <1>3, AwakeCall DEF Enter
      <3>2. k \in Calls /\ k.on = call[t].on
        BY <3>1 DEF Calls
      <3>3. call' = [call EXCEPT ![t] = k]
        BY <1>3, <2>2 DEF Enter
      <3>4. Needs(k.on) \subseteq held'[t]
        BY <1>3, <2>1, <3>2 DEF Enter
      <3> HIDE DEF k
      <3> QED
        BY <2>1, <3>2, <3>3, <3>4, CallMoves, Zenon
    <2>3. CASE ~Available(call[t].on)
      BY <1>3, <2>1, <2>3, LeavingMoves DEF Enter
    <2> QED
      BY <2>2, <2>3
  <1>4. CASE Return(t)
    BY <1>4, ScopesKept, LeavingMoves DEF Return
  <1>5. ASSUME NEW g \in Scopes, Leave(t, g) PROVE LatchInv' /\ CallInv'
    <2>1. LatchInv' /\ (\A u \in Callers : u # t => held'[u] = held[u]) /\ UNCHANGED <<service, bound>>
      BY <1>5, ReleaseKeeps DEF Leave
    <2>2. CASE held[t] = {g}
      <3>1. Asleep \in Calls /\ Asleep.pc # "run"
        BY DEF Calls, Asleep
      <3> QED
        BY <1>5, <2>1, <2>2, <3>1, CallMoves, Zenon DEF Leave
    <2>3. CASE held[t] # {g}
      <3>1. call[t] \in Calls /\ call[t].pc # "run"
        BY <1>5 DEF CallInv, Leave
      <3>2. call' = [call EXCEPT ![t] = call[t]]
        BY <1>5, <2>3 DEF CallInv, Leave
      <3> QED
        BY <2>1, <3>1, <3>2, CallMoves, Zenon
    <2> QED
      BY <2>2, <2>3
  <1> QED
    BY <1>1, <1>2, <1>3, <1>4, <1>5 DEF Proceed

-----------------------------------------------------------------------------
(* The broker *)

\* Steps outside the broker.
LEMMA BrokerKept == BrokerInv /\ UNCHANGED <<grant, active, broker>> => BrokerInv'
  BY DEF BrokerInv, ListedIsActive

\* Registrations, withdrawals, drops and the end of the broker.
LEMMA BrokerKeeps ==
    ASSUME BrokerInv,
           \/ \E r \in Grants : Register(r) \/ RemoveGrant(r)
           \/ \E r \in Grants, next \in {"withdrawing", "dropping"} : RevokeGrant(r, next)
           \/ DropBroker
    PROVE  BrokerInv'
  <1> DEFINE Records == [owner : Owners, open : BOOLEAN, listed : BOOLEAN]
  <1>0. grant \in [Grants -> Records]
    BY DEF BrokerInv
  <1>1. ASSUME NEW r \in Grants, Register(r) PROVE BrokerInv'
    <2>1. grant' \in [Grants -> Records]
      BY <1>0, <1>1 DEF Register, Owners
    <2>2. \A q \in Grants : grant'[q].listed <=> q = r
      BY <1>0, <1>1, RegistrationsAssumption DEF Register, BrokerInv, ListedIsActive
    <2> QED
      BY <1>1, <2>1, <2>2 DEF Register, BrokerInv, ListedIsActive
  <1>2. ASSUME NEW r \in Grants, RemoveGrant(r) PROVE BrokerInv'
    <2>1. grant' \in [Grants -> Records]
      BY <1>0, <1>2 DEF RemoveGrant, Owners
    <2>2. \A q \in Grants : grant'[q].listed <=> q # r /\ grant[q].listed
      BY <1>0, <1>2 DEF RemoveGrant
    <2>3. \A q \in Grants : active' = q <=> q # r /\ active = q
      BY <1>2, RegistrationsAssumption
         DEF RemoveGrant, ActiveAfterRemove, BrokerInv, ListedIsActive
    <2>4. ~broker' => active' = NoGrant
      BY <1>2 DEF RemoveGrant, ActiveAfterRemove, BrokerInv
    <2> QED
      BY <2>1, <2>2, <2>3, <2>4 DEF BrokerInv, ListedIsActive
  <1>3. ASSUME NEW r \in Grants, NEW next \in {"withdrawing", "dropping"}, RevokeGrant(r, next)
        PROVE  BrokerInv'
    <2>1. grant' \in [Grants -> Records]
      BY <1>0, <1>3 DEF RevokeGrant, Owners
    <2>2. \A q \in Grants : grant'[q].listed = grant[q].listed
      BY <1>0, <1>3 DEF RevokeGrant
    <2> QED
      BY <1>3, <2>1, <2>2 DEF RevokeGrant, BrokerInv, ListedIsActive
  <1>4. CASE DropBroker
    <2>1. grant' \in [Grants -> Records] /\ \A q \in Grants : grant'[q].listed = FALSE
      BY <1>0, <1>4, Zenon DEF DropBroker
    <2> QED
      BY <1>4, <2>1, RegistrationsAssumption, Zenon DEF DropBroker, BrokerInv, ListedIsActive
  <1> QED
    BY <1>1, <1>2, <1>3, <1>4

-----------------------------------------------------------------------------
(* The theorems *)

\* A step of the scopes alone.
LEMMA ScopeStepKeeps ==
    ASSUME IInv, LatchStep, RevokeStep, UNCHANGED handleVars
    PROVE  IInv'
  <1>1. LatchInv'
    BY RevokeKeeps DEF IInv
  <1>2. CallInv'
    BY CallKept DEF IInv, RevokeStep, handleVars
  <1>3. BrokerInv'
    BY BrokerKept DEF IInv, handleVars
  <1> QED
    BY <1>1, <1>2, <1>3 DEF IInv

\* One poll of a closing scope, whichever part of the teardown it does.
LEMMA PollPreserves ==
    ASSUME IInv, NEW s \in Scopes, Poll(s)
    PROVE  IInv'
  <1>1. LatchStep /\ RevokeStep
    BY PollKeeps DEF IInv
  <1>2. CASE UNCHANGED handleVars
    BY <1>1, <1>2, ScopeStepKeeps
  <1>3. CASE RunCleanup(s)
    <2>1. LatchInv' /\ UNCHANGED <<bound, call, held>>
      BY <1>1, <1>3, RevokeKeeps DEF IInv, RunCleanup, RunEntry
    <2>2. BrokerInv'
      BY <1>3, BrokerKept DEF IInv, RunCleanup
    <2>3. CallInv'
      <3>1. CASE service' = service
        BY <2>1, <3>1, CallKept DEF IInv
      <3>2. CASE service' = Withdrawn({LastEntry(s).of})
        BY <2>1, <3>2, WithdrawnMoves, ServiceMoves, Zenon DEF IInv
      <3> QED
        BY <1>3, <3>1, <3>2 DEF RunCleanup
    <2> QED
      BY <2>1, <2>2, <2>3 DEF IInv
  <1> QED
    BY <1>2, <1>3 DEF Poll

\* Publishing, binding, and the beginning of a call.
LEMMA LendingPreserves ==
    ASSUME IInv,
           \/ \E p \in Services, s \in Homes : Provide(p, s)
           \/ \E p \in Services, c \in Borrowers : Bind(p, c)
           \/ DropRegistry
           \/ \E r \in Grants, a \in Borrowers : PrepareBinding(r, a) \/ Resolve(r, a)
           \/ \E t \in Callers, h \in bound : Call(t, h)
    PROVE  IInv'
  <1>0. BrokerInv'
    BY BrokerKept, Zenon DEF IInv, Provide, Bind, DropRegistry, PrepareBinding, Resolve, Call
  <1>1. ASSUME NEW p \in Services, NEW s \in Homes, Provide(p, s) PROVE IInv'
    <2>1. LatchInv'
      BY <1>1, DeferKeeps, RevokeKeeps DEF IInv, Provide
    <2> QED
      BY <1>0, <1>1, <2>1, ProvideMoves DEF IInv
  <1>2. ASSUME NEW p \in Services, NEW c \in Borrowers, Bind(p, c) PROVE IInv'
    <2>1. LatchInv' /\ held' = held
      BY <1>2, ScopesKept DEF IInv, Bind
    <2>2. service[p].state # "unused"
      BY <1>2 DEF Bind, ServiceAvailable
    <2> DEFINE h == [to |-> p, by |-> c]
    <2>3. bound' = bound \cup {h} /\ h.to = p /\ UNCHANGED <<service, call>>
      BY <1>2 DEF Bind
    <2> HIDE DEF h
    <2>4. CallInv'
      BY <2>1, <2>2, <2>3, BoundGrows DEF IInv
    <2> QED
      BY <1>0, <2>1, <2>4 DEF IInv
  <1>3. CASE DropRegistry
    <2>1. LatchInv' /\ held' = held
      BY <1>3, ScopesKept DEF IInv, DropRegistry
    <2>2. CallInv'
      BY <1>3, <2>1, WithdrawnMoves, ServiceMoves DEF IInv, DropRegistry
    <2> QED
      BY <1>0, <2>1, <2>2 DEF IInv
  <1>4. ASSUME NEW r \in Grants, NEW a \in Borrowers, PrepareBinding(r, a) PROVE IInv'
    <2>1. LatchInv' /\ held' = held
      BY <1>4, ScopesKept DEF IInv, PrepareBinding
    <2>2. CallInv'
      BY <1>4, <2>1, CallKept DEF IInv, PrepareBinding
    <2> QED
      BY <1>0, <2>1, <2>2 DEF IInv
  <1>5. ASSUME NEW r \in Grants, NEW a \in Borrowers, Resolve(r, a) PROVE IInv'
    <2>1. LatchInv' /\ held' = held
      BY <1>5, ScopesKept DEF IInv, Resolve
    <2> DEFINE h == [to |-> r, by |-> a]
    <2>2. bound' = bound \cup {h} /\ h.to = r /\ UNCHANGED <<service, call>>
      BY <1>5 DEF Resolve
    <2> HIDE DEF h
    <2>3. CallInv'
      BY <2>1, <2>2, BoundGrows, RegistrationsAssumption DEF IInv
    <2> QED
      BY <1>0, <2>1, <2>3 DEF IInv
  <1>6. ASSUME NEW t \in Callers, NEW h \in bound, Call(t, h) PROVE IInv'
    <2>1. LatchInv' /\ held' = held
      BY <1>6, ScopesKept DEF IInv, Call
    <2> DEFINE k == [pc |-> "admit", on |-> h]
    <2>2. k \in Calls /\ k.pc # "run" /\ call' = [call EXCEPT ![t] = k]
      BY <1>6 DEF Call, Calls
    <2> HIDE DEF k
    <2>3. CallInv'
      BY <1>6, <2>1, <2>2, CallMoves, Zenon DEF IInv, Call
    <2> QED
      BY <1>0, <2>1, <2>3 DEF IInv
  <1> QED
    BY <1>1, <1>2, <1>3, <1>4, <1>5, <1>6

\* The inductive invariant holds in every reachable state.
THEOREM InvariantHolds == Spec => []IInv
  <1>1. Init => IInv
    <2> SUFFICES ASSUME Init PROVE IInv
      OBVIOUS
    <2>1. scopes = [s \in Scopes |-> Fields(scopes[s])] /\ \A s \in Scopes : ~Undoing(s)
      BY BlankIsQuiet DEF Init, InitScopes, Undoing
    <2>2. LatchInv
      BY <2>1 DEF Init, InitScopes, LatchInv
    <2>3. CallInv
      BY DEF Init, CallInv, ServiceRecords, Calls, Asleep
    <2>4. BrokerInv
      BY RegistrationsAssumption DEF Init, BrokerInv, ListedIsActive, Owners
    <2> QED
      BY <2>2, <2>3, <2>4 DEF IInv
  <1>2. IInv /\ [Next]_vars => IInv'
    <2> SUFFICES ASSUME IInv, [Next]_vars PROVE IInv'
      OBVIOUS
    <2>0. LatchInv /\ CallInv /\ BrokerInv
      BY DEF IInv
    <2>1. CASE \E s \in Scopes : (New(s) \/ BeginClose(s) \/ DropScope(s)) /\ UNCHANGED handleVars
      BY <2>0, <2>1, NewKeeps, BeginCloseKeeps, DropScopeKeeps, ScopeStepKeeps
    <2>2. CASE \E p, s \in Scopes : NewChild(p, s) /\ UNCHANGED handleVars
      BY <2>0, <2>2, NewChildKeeps, ScopeStepKeeps
    <2>3. CASE \E s \in Borrowers, e \in Effects : Defer(s, Async(e)) /\ UNCHANGED handleVars
      BY <2>0, <2>3, DeferKeeps, ScopeStepKeeps
    <2>4. CASE \E s \in Scopes : Poll(s)
      BY <2>4, PollPreserves
    <2>5. CASE \/ \E r \in Grants : Register(r) \/ RemoveGrant(r)
               \/ \E r \in Grants, next \in {"withdrawing", "dropping"} : RevokeGrant(r, next)
               \/ DropBroker
      <3>1. UNCHANGED scopeVars /\ UNCHANGED <<service, bound, call>>
        BY <2>5, Zenon DEF Register, RemoveGrant, RevokeGrant, DropBroker
      <3>2. BrokerInv'
        BY <2>0, <2>5, BrokerKeeps
      <3> QED
        BY <2>0, <3>1, <3>2, ScopesKept, CallKept DEF IInv
    <2>6. CASE \E t \in Callers : Proceed(t)
      <3>1. UNCHANGED <<grant, active, broker>>
        BY <2>6 DEF Proceed, Admit, Refused, Enter, Return, Leave, handleVars
      <3> QED
        BY <2>0, <2>6, <3>1, ProceedKeeps, BrokerKept DEF IInv
    <2>7. CASE UNCHANGED vars
      BY <2>0, <2>7, ScopesKept, CallKept, BrokerKept DEF IInv, vars, handleVars
    <2> QED
      BY <2>1, <2>2, <2>3, <2>4, <2>5, <2>6, <2>7, LendingPreserves DEF Next
  <1> QED
    BY <1>1, <1>2, PTL DEF Spec

\* For every tree of scopes and any callers: no cleanup of a scope starts while
\* an operation borrowed from its subtree runs (ActivityGate, poll_quiescence,
\* ServiceHandle::call, CapabilityHandle::call).
THEOREM CleanupAfterCalls == Spec => []QuietBeforeCleanup
  <1>1. IInv => QuietBeforeCleanup
    <2> SUFFICES ASSUME IInv, NEW s \in Scopes, NEW t \in Callers,
                        Undoing(s), call[t].pc = "run", s \in Needs(call[t].on)
                 PROVE  FALSE
      BY DEF QuietBeforeCleanup
    <2>1. s \in drained
      BY DEF IInv, LatchInv
    <2>2. Holders(s) = {}
      BY <2>1 DEF IInv, LatchInv
    <2>3. s \in held[t]
      BY DEF IInv, CallInv
    <2> QED
      BY <2>2, <2>3 DEF Holders
  <1> QED
    BY <1>1, InvariantHolds, PTL

\* For any number of registrations: the broker lists the one that answers for
\* the capability and no other (BrokerCore::register, remove, Drop).
THEOREM BookIsRight == Spec => []ListedIsActive
  <1>1. IInv => ListedIsActive
    BY DEF IInv, BrokerInv
  <1> QED
    BY <1>1, InvariantHolds, PTL
-----------------------------------------------------------------------------
(* Cleanups are undone in the reverse order of their admission.  What the   *)
(* property looks at is one sequence per scope, and the steps of a poll move *)
(* an entry from one part of it to the next.                                 *)

Cleanups == [kind : {"sync", "async", "child"}, of : Effects \cup Services \cup Scopes]

Reversed(k) == [i \in DOMAIN k |-> k[Len(k) + 1 - i]]

\* The reverse of a sequence, place by place.
LEMMA ReversedSeq ==
    ASSUME NEW S, NEW k \in Seq(S)
    PROVE  /\ Reversed(k) \in Seq(S) /\ Len(Reversed(k)) = Len(k)
           /\ \A i \in 1..Len(k) : Reversed(k)[i] = k[Len(k) + 1 - i]
  BY DEF Reversed

\* A sequence of one element.
LEMMA OneElement ==
    ASSUME NEW S, NEW x \in S
    PROVE  \E one \in Seq(S) : one = <<x>> /\ Len(one) = 1 /\ one[1] = x
  <1>1. <<x>> \in Seq(S) /\ Len(<<x>>) = 1 /\ <<x>>[1] = x
    OBVIOUS
  <1> QED
    BY <1>1, Zenon

\* All but the last element of a sequence, and the last.
LEMMA FrontAndLast ==
    ASSUME NEW S, NEW e \in Seq(S), e # <<>>
    PROVE  /\ Len(e) \in Nat \ {0} /\ e[Len(e)] \in S
           /\ SubSeq(e, 1, Len(e) - 1) \in Seq(S)
           /\ e = SubSeq(e, 1, Len(e) - 1) \o <<e[Len(e)]>>
  <1>1. Len(e) \in Nat \ {0}
    BY EmptySeq
  <1>2. \A i \in 1..Len(e) : e[i] \in S
    BY ElementOfSeq
  <1>3. SubSeq(e, 1, Len(e) - 1) \in Seq(S)
    BY <1>1, <1>2, SubSeqProperties
  <1>4. 1 \in 1..Len(e) /\ Len(e) \in 1..Len(e)
    BY <1>1
  <1>5. e = SubSeq(e, 1, Len(e))
    BY SubSeqFull, Zenon
  <1>6. SubSeq(e, 1, Len(e)) = SubSeq(e, 1, Len(e) - 1) \o <<e[Len(e)]>>
    BY <1>4, SubSeqRecursiveSecond, Zenon
  <1> QED
    BY <1>1, <1>2, <1>3, <1>4, <1>5, <1>6, Zenon

\* The last step taken comes first in the reverse.
LEMMA ReversedAppend ==
    ASSUME NEW S, NEW k \in Seq(S), NEW x \in S
    PROVE  Reversed(Append(k, x)) = <<x>> \o Reversed(k)
  <1>1. PICK l \in Seq(S) : l = Append(k, x)
    BY AppendProperties
  <1>2. Len(l) = Len(k) + 1 /\ l[Len(k) + 1] = x /\ \A i \in 1..Len(k) : l[i] = k[i]
    BY <1>1, AppendProperties
  <1>3. PICK r \in Seq(S) : r = Reversed(k)
    BY ReversedSeq
  <1>4. Len(r) = Len(k) /\ \A i \in 1..Len(k) : r[i] = k[Len(k) + 1 - i]
    BY <1>3, ReversedSeq
  <1>5. PICK q \in Seq(S) : q = Reversed(l)
    BY <1>1, ReversedSeq
  <1>6. Len(q) = Len(k) + 1 /\ \A i \in 1..(Len(k) + 1) : q[i] = l[Len(k) + 2 - i]
    <2>1. Len(q) = Len(l) /\ \A i \in 1..Len(l) : q[i] = l[Len(l) + 1 - i]
      BY <1>1, <1>5, ReversedSeq
    <2> QED
      BY <1>2, <2>1
  <1>7. PICK one \in Seq(S) : one = <<x>> /\ Len(one) = 1 /\ one[1] = x
    BY OneElement, Zenon
  <1>8. PICK u \in Seq(S) : u = one \o r
    BY <1>3, <1>7, ConcatProperties
  <1>9. Len(u) = 1 + Len(k) /\ \A i \in 1..(1 + Len(k)) : u[i] = IF i <= 1 THEN one[i] ELSE r[i - 1]
    BY <1>3, <1>4, <1>7, <1>8, ConcatProperties
  <1>10. Len(k) \in Nat
    BY LenProperties
  <1>11. ASSUME NEW i \in 1..(Len(k) + 1) PROVE q[i] = u[i]
    <2>1. CASE i = 1
      BY <1>2, <1>6, <1>7, <1>9, <1>10, <2>1
    <2>2. CASE i # 1
      <3>1. i - 1 \in 1..Len(k) /\ Len(k) + 2 - i \in 1..Len(k) /\ Len(k) + 1 - (i - 1) = Len(k) + 2 - i
        BY <1>10, <2>2
      <3>2. q[i] = l[Len(k) + 2 - i] /\ u[i] = r[i - 1]
        BY <1>6, <1>9, <1>10, <2>2
      <3>3. l[Len(k) + 2 - i] = k[Len(k) + 2 - i] /\ r[i - 1] = k[Len(k) + 1 - (i - 1)]
        BY <1>2, <1>4, <3>1
      <3> QED
        BY <3>1, <3>2, <3>3
    <2> QED
      BY <2>1, <2>2
  <1>12. q = u
    BY <1>5, <1>6, <1>8, <1>9, <1>10, <1>11, SeqEqual
  <1> QED
    BY <1>1, <1>3, <1>5, <1>7, <1>8, <1>12

\* An element between two sequences belongs to either.
LEMMA BetweenTwo ==
    ASSUME NEW S, NEW e \in Seq(S), NEW x \in S, NEW r \in Seq(S)
    PROVE  e \o (<<x>> \o r) = (e \o <<x>>) \o r
  <1>1. PICK one \in Seq(S) : one = <<x>>
    BY OneElement, Zenon
  <1>2. e \o (one \o r) = (e \o one) \o r
    BY <1>1, ConcatAssociative
  <1> QED
    BY <1>1, <1>2

\* A cleanup that runs to its end in one step.
LEMMA RunKeepsOrder ==
    ASSUME NEW S, NEW e \in Seq(S), NEW k \in Seq(S), e # <<>>
    PROVE  SubSeq(e, 1, Len(e) - 1) \o <<>> \o Reversed(Append(k, e[Len(e)])) = e \o <<>> \o Reversed(k)
  <1>2. PICK x \in S : x = e[Len(e)]
    BY FrontAndLast
  <1>3. PICK f \in Seq(S) : f = SubSeq(e, 1, Len(e) - 1)
    BY FrontAndLast, Zenon
  <1>4. PICK one \in Seq(S) : one = <<x>>
    BY <1>2, OneElement, Zenon
  <1>5. PICK r \in Seq(S) : r = Reversed(k)
    BY ReversedSeq
  <1>6. e = f \o one
    BY <1>2, <1>3, <1>4, FrontAndLast, Zenon
  <1>7. Reversed(Append(k, x)) = one \o r
    BY <1>2, <1>4, <1>5, ReversedAppend
  <1>8. f \o <<>> = f /\ e \o <<>> = e
    BY <1>3, ConcatEmptySeq
  <1>9. f \o (one \o r) = (f \o one) \o r
    <2>1. x \in S /\ f \in Seq(S) /\ r \in Seq(S)
      BY <1>2, <1>3, <1>5
    <2>2. f \o (<<x>> \o r) = (f \o <<x>>) \o r
      BY <2>1, BetweenTwo
    <2> QED
      BY <1>4, <2>2, Zenon
  <1> QED
    BY <1>2, <1>3, <1>5, <1>6, <1>7, <1>8, <1>9, Zenon

\* A cleanup that is started and goes on in a later step.
LEMMA StartKeepsOrder ==
    ASSUME NEW S, NEW e \in Seq(S), NEW k \in Seq(S), e # <<>>
    PROVE  SubSeq(e, 1, Len(e) - 1) \o <<e[Len(e)]>> \o Reversed(k) = e \o <<>> \o Reversed(k)
  <1>1. e = SubSeq(e, 1, Len(e) - 1) \o <<e[Len(e)]>>
    BY FrontAndLast, Zenon
  <1>2. e \o <<>> = e
    BY ConcatEmptySeq, Zenon
  <1> QED
    BY <1>1, <1>2, Zenon

\* A cleanup that was started is over.
LEMMA FinishKeepsOrder ==
    ASSUME NEW S, NEW e \in Seq(S), NEW k \in Seq(S), NEW x \in S
    PROVE  e \o <<>> \o Reversed(Append(k, x)) = e \o <<x>> \o Reversed(k)
  <1>1. PICK r \in Seq(S) : r = Reversed(k)
    BY ReversedSeq
  <1>2. Reversed(Append(k, x)) = <<x>> \o r /\ e \o <<>> = e
    BY <1>1, ReversedAppend, ConcatEmptySeq
  <1>3. e \o (<<x>> \o r) = (e \o <<x>>) \o r
    BY <1>1, BetweenTwo
  <1> QED
    BY <1>1, <1>2, <1>3, Zenon

\* A scope that has undone nothing, before and after an admission.
LEMMA AdmitAppends ==
    ASSUME NEW S, NEW e \in Seq(S), NEW x \in S
    PROVE  /\ e \o <<>> \o Reversed(<<>>) = e
           /\ Append(e, x) \o <<>> \o Reversed(<<>>) = Append(e, x)
           /\ Len(Append(e, x)) = Len(e) + 1 /\ SubSeq(Append(e, x), 1, Len(e)) = e
           /\ Len(e) \in Nat
  <1>1. Reversed(<<>>) = <<>>
    BY DEF Reversed
  <1>2. PICK f \in Seq(S) : f = Append(e, x)
    BY AppendProperties
  <1>3. Len(f) = Len(e) + 1 /\ (\A i \in 1..Len(e) : f[i] = e[i]) /\ Len(e) \in Nat
    BY <1>2, AppendProperties
  <1>4. e \o <<>> = e /\ f \o <<>> = f
    BY <1>2, ConcatEmptySeq
  <1>5. SubSeq(f, 1, Len(e)) = e
    BY <1>2, <1>3
  <1> QED
    BY <1>1, <1>2, <1>3, <1>4, <1>5, Zenon

\* The parts of a scope are sequences of cleanups, a scope that does not exist
\* has none, and a scope that was sealed is never open again.
TearInv ==
    /\ \A s \in Scopes :
          /\ scopes[s].entries \in Seq(Cleanups) /\ scopes[s].steps \in Seq(Cleanups)
          /\ scopes[s].current \in Cleanups \cup {None}
          /\ scopes[s].state = "absent" =>
                scopes[s].entries = <<>> /\ scopes[s].steps = <<>> /\ scopes[s].current = None
          /\ s \in revoked => scopes[s].state \notin {"absent", "open"}

Rests(s) ==
    /\ scopes'[s].entries = scopes[s].entries
    /\ scopes'[s].current = scopes[s].current
    /\ scopes'[s].steps = scopes[s].steps

Admits(s) ==
    /\ scopes[s].state = "open"
    /\ \E x \in Cleanups : scopes'[s].entries = Append(scopes[s].entries, x)
    /\ scopes'[s].current = scopes[s].current
    /\ scopes'[s].steps = scopes[s].steps

Undoes(s) ==
    /\ Idle(s) /\ scopes[s].entries # <<>> /\ scopes[s].state = "closing"
    /\ scopes'[s].entries = Popped(s)
    /\ \/ /\ scopes'[s].current = None
          /\ scopes'[s].steps = Append(scopes[s].steps, LastEntry(s))
       \/ /\ scopes'[s].current = LastEntry(s)
          /\ scopes'[s].steps = scopes[s].steps

Undid(s) ==
    /\ ~Idle(s) /\ scopes[s].state = "closing"
    /\ scopes'[s].entries = scopes[s].entries
    /\ scopes'[s].current = None
    /\ scopes'[s].steps = Append(scopes[s].steps, scopes[s].current)

\* Only a scope that is absent and not sealed opens, and none becomes absent.
Moves(s) ==
    /\ scopes'[s].state = "absent" => scopes[s].state = "absent"
    /\ scopes'[s].state = "open" => scopes[s].state \in {"absent", "open"}
    /\ s \in revoked' \ revoked => scopes'[s].state \notin {"absent", "open"}

\* What a step may do to a scope.
TearStep(s) == Moves(s) /\ (Rests(s) \/ Admits(s) \/ Undoes(s) \/ Undid(s))

\* A cleanup is not the mark for none.
LEMMA CleanupIsSome == \A x \in Cleanups : x # None
  <1>1. \A x \in Cleanups : x.kind # "none"
    BY DEF Cleanups
  <1>2. None.kind = "none"
    BY DEF None
  <1> QED
    BY <1>1, <1>2, Zenon

\* Such a step keeps the parts of the scope in shape.
LEMMA TearStepKeeps ==
    ASSUME TearInv, LatchInv, \A s \in Scopes : TearStep(s)
    PROVE  TearInv'
  <1> SUFFICES ASSUME NEW s \in Scopes
               PROVE  /\ scopes'[s].entries \in Seq(Cleanups) /\ scopes'[s].steps \in Seq(Cleanups)
                      /\ scopes'[s].current \in Cleanups \cup {None}
                      /\ scopes'[s].state = "absent" =>
                            /\ scopes'[s].entries = <<>> /\ scopes'[s].steps = <<>>
                            /\ scopes'[s].current = None
                      /\ s \in revoked' => scopes'[s].state \notin {"absent", "open"}
    BY DEF TearInv
  <1>1. PICK e \in Seq(Cleanups), k \in Seq(Cleanups), c \in Cleanups \cup {None} :
            e = scopes[s].entries /\ k = scopes[s].steps /\ c = scopes[s].current
    BY DEF TearInv
  <1>2. /\ scopes[s].state = "absent" => e = <<>> /\ k = <<>> /\ c = None
        /\ s \in revoked => scopes[s].state \notin {"absent", "open"}
    BY <1>1 DEF TearInv
  <1>3. Moves(s)
    BY DEF TearStep
  <1>4. s \in revoked' => scopes'[s].state \notin {"absent", "open"}
    BY <1>2, <1>3 DEF Moves
  <1>5. CASE Rests(s)
    BY <1>1, <1>2, <1>3, <1>4, <1>5 DEF Rests, Moves
  <1>6. CASE Admits(s)
    <2>1. scopes'[s].state # "absent"
      BY <1>3, <1>6 DEF Admits, Moves
    <2>2. PICK x \in Cleanups : scopes'[s].entries = Append(e, x)
      BY <1>1, <1>6 DEF Admits
    <2>3. Append(e, x) \in Seq(Cleanups)
      BY <1>1, <2>2, AppendProperties
    <2> QED
      BY <1>1, <1>4, <1>6, <2>1, <2>2, <2>3 DEF Admits
  <1>7. CASE Undoes(s)
    <2>1. scopes'[s].state # "absent"
      BY <1>3, <1>7 DEF Undoes, Moves
    <2>2. e # <<>> /\ Popped(s) = SubSeq(e, 1, Len(e) - 1) /\ LastEntry(s) = e[Len(e)]
      BY <1>1, <1>7 DEF Undoes, Popped, LastEntry
    <2>3. Popped(s) \in Seq(Cleanups) /\ LastEntry(s) \in Cleanups
      BY <1>1, <2>2, FrontAndLast
    <2>4. Append(k, LastEntry(s)) \in Seq(Cleanups)
      BY <1>1, <2>3, AppendProperties
    <2> QED
      BY <1>1, <1>4, <1>7, <2>1, <2>3, <2>4 DEF Undoes
  <1>8. CASE Undid(s)
    <2>1. scopes'[s].state # "absent"
      BY <1>3, <1>8 DEF Undid, Moves
    <2>2. c \in Cleanups
      BY <1>1, <1>8 DEF Undid, Idle
    <2>3. Append(k, c) \in Seq(Cleanups)
      BY <1>1, <2>2, AppendProperties
    <2> QED
      BY <1>1, <1>4, <1>8, <2>1, <2>3 DEF Undid
  <1> QED
    BY <1>5, <1>6, <1>7, <1>8 DEF TearStep

\* What the property says of one scope.
InReverse(s) ==
    Admitted(s)' # Admitted(s) =>
        /\ scopes[s].state = "open"
        /\ \E i \in {Len(Admitted(s)) + 1} :
             /\ Len(Admitted(s)') = i
             /\ SubSeq(Admitted(s)', 1, i - 1) = Admitted(s)

\* The sequence the property looks at, by what the scope is doing.
LEMMA AdmittedParts ==
    ASSUME NEW s \in Scopes, NEW e, NEW k, NEW c,
           e = scopes[s].entries, k = scopes[s].steps, c = scopes[s].current
    PROVE  /\ c = None => Admitted(s) = e \o <<>> \o Reversed(k)
           /\ c # None => Admitted(s) = e \o <<c>> \o Reversed(k)
  BY Zenon DEF Admitted, Idle, Reversed

\* The same of the next state.
LEMMA AdmittedNext ==
    ASSUME NEW s \in Scopes, NEW e, NEW k, NEW c,
           e = scopes'[s].entries, k = scopes'[s].steps, c = scopes'[s].current
    PROVE  /\ c = None => Admitted(s)' = e \o <<>> \o Reversed(k)
           /\ c # None => Admitted(s)' = e \o <<c>> \o Reversed(k)
  BY Zenon DEF Admitted, Idle, Reversed

\* A step of a scope undoes its cleanups in reverse.
LEMMA TearStepReverses ==
    ASSUME TearInv, LatchInv, NEW s \in Scopes, TearStep(s)
    PROVE  InReverse(s)
  <1>1. PICK e \in Seq(Cleanups), k \in Seq(Cleanups), c \in Cleanups \cup {None} :
            e = scopes[s].entries /\ k = scopes[s].steps /\ c = scopes[s].current
    BY DEF TearInv
  <1>2. CASE Rests(s)
    <2>1. Admitted(s)' = Admitted(s)
      BY <1>2, Zenon DEF Rests, Admitted, Idle
    <2> QED
      BY <2>1 DEF InReverse
  <1>3. CASE Admits(s)
    <2>1. k = <<>> /\ c = None
      <3>1. ~Undoing(s)
        BY <1>3 DEF LatchInv, TearInv, Admits
      <3> QED
        BY <1>1, <3>1 DEF Undoing
    <2>2. PICK x \in Cleanups : scopes'[s].entries = Append(e, x)
      BY <1>1, <1>3 DEF Admits
    <2>3. scopes'[s].current = None /\ scopes'[s].steps = <<>> /\ scopes[s].state = "open"
      BY <1>1, <1>3, <2>1 DEF Admits
    <2>4. PICK a, b : a = Admitted(s) /\ b = Admitted(s)'
      OBVIOUS
    <2>5. a = e \o <<>> \o Reversed(<<>>)
      BY <1>1, <2>1, <2>4, AdmittedParts, Zenon
    <2>6. b = Append(e, x) \o <<>> \o Reversed(<<>>)
      BY <2>2, <2>3, <2>4, AdmittedNext, Zenon
    <2>7. /\ e \o <<>> \o Reversed(<<>>) = e
          /\ Append(e, x) \o <<>> \o Reversed(<<>>) = Append(e, x)
          /\ Len(Append(e, x)) = Len(e) + 1 /\ SubSeq(Append(e, x), 1, Len(e)) = e
          /\ Len(e) \in Nat
      BY <1>1, <2>2, AdmitAppends
    <2>8. (Len(e) + 1) - 1 = Len(e)
      BY <2>7
    <2>9. a = e /\ b = Append(e, x)
      BY <2>5, <2>6, <2>7, Zenon
    <2> QED
      BY <2>3, <2>4, <2>7, <2>8, <2>9, Zenon DEF InReverse
  <1>4. CASE Undoes(s)
    <2>1. /\ c = None /\ e # <<>> /\ Popped(s) = SubSeq(e, 1, Len(e) - 1) /\ LastEntry(s) = e[Len(e)]
          /\ scopes'[s].entries = Popped(s)
      BY <1>1, <1>4 DEF Undoes, Idle, Popped, LastEntry
    <2>2. Admitted(s) = e \o <<>> \o Reversed(k)
      BY <1>1, <2>1, AdmittedParts, Zenon
    <2>3. CASE scopes'[s].current = None /\ scopes'[s].steps = Append(scopes[s].steps, LastEntry(s))
      <3>1. Admitted(s)' = SubSeq(e, 1, Len(e) - 1) \o <<>> \o Reversed(Append(k, e[Len(e)]))
        <4>1. /\ scopes'[s].entries = SubSeq(e, 1, Len(e) - 1) /\ scopes'[s].current = None
              /\ scopes'[s].steps = Append(k, e[Len(e)])
          BY <1>1, <2>1, <2>3
        <4> QED
          BY <4>1, AdmittedNext, Zenon
      <3>2. Admitted(s)' = Admitted(s)
        BY <1>1, <2>1, <2>2, <3>1, RunKeepsOrder, Zenon
      <3> QED
        BY <3>2 DEF InReverse
    <2>4. CASE scopes'[s].current = LastEntry(s) /\ scopes'[s].steps = scopes[s].steps
      <3>1. e[Len(e)] # None
        BY <1>1, <2>1, FrontAndLast, CleanupIsSome, Zenon
      <3>2. Admitted(s)' = SubSeq(e, 1, Len(e) - 1) \o <<e[Len(e)]>> \o Reversed(k)
        <4>1. scopes'[s].entries = SubSeq(e, 1, Len(e) - 1) /\ scopes'[s].current = e[Len(e)] /\ scopes'[s].steps = k
          BY <1>1, <2>1, <2>4
        <4> QED
          BY <3>1, <4>1, AdmittedNext, Zenon
      <3>3. Admitted(s)' = Admitted(s)
        BY <1>1, <2>1, <2>2, <3>2, StartKeepsOrder, Zenon
      <3> QED
        BY <3>3 DEF InReverse
    <2> QED
      BY <1>4, <2>3, <2>4 DEF Undoes
  <1>5. CASE Undid(s)
    <2>1. /\ c # None /\ c \in Cleanups /\ scopes'[s].entries = e /\ scopes'[s].current = None
          /\ scopes'[s].steps = Append(k, c)
      BY <1>1, <1>5 DEF Undid, Idle
    <2>2. Admitted(s) = e \o <<c>> \o Reversed(k)
      BY <1>1, <2>1, AdmittedParts, Zenon
    <2>3. Admitted(s)' = e \o <<>> \o Reversed(Append(k, c))
      BY <2>1, AdmittedNext, Zenon
    <2>4. Admitted(s)' = Admitted(s)
      <3>1. e \in Seq(Cleanups) /\ k \in Seq(Cleanups) /\ c \in Cleanups
        BY <1>1, <2>1
      <3> QED
        BY <2>2, <2>3, <3>1, FinishKeepsOrder, Zenon
    <2> QED
      BY <2>4 DEF InReverse
  <1> QED
    BY <1>2, <1>3, <1>4, <1>5 DEF TearStep

\* The record of a scope has its four fields and no other.
LEMMA FieldsOf ==
    ASSUME LatchInv, NEW d \in Scopes
    PROVE  scopes[d] = [state |-> scopes[d].state, entries |-> scopes[d].entries,
                        current |-> scopes[d].current, steps |-> scopes[d].steps]
  BY DEF LatchInv, Fields

\* A scope that a step leaves alone, or only seals.
LEMMA SealedRests ==
    ASSUME LatchInv, NEW d \in Scopes, NEW state \in {"closing", "closed", "dropped"},
           \/ scopes'[d] = scopes[d] /\ d \notin revoked' \ revoked
           \/ scopes'[d] = [scopes[d] EXCEPT !.state = state]
    PROVE  TearStep(d)
  <1>1. CASE scopes'[d] = scopes[d] /\ d \notin revoked' \ revoked
    BY <1>1 DEF TearStep, Moves, Rests
  <1>2. CASE scopes'[d] = [scopes[d] EXCEPT !.state = state]
    <2>1. scopes'[d] = [state |-> state, entries |-> scopes[d].entries,
                        current |-> scopes[d].current, steps |-> scopes[d].steps]
      BY <1>2, FieldsOf, Zenon
    <2> QED
      BY <2>1 DEF TearStep, Moves, Rests
  <1> QED
    BY <1>1, <1>2

\* A scope that admits a cleanup.
LEMMA AdmitsStep ==
    ASSUME LatchInv, NEW d \in Scopes, NEW x \in Cleanups, scopes[d].state = "open",
           revoked' = revoked, scopes'[d] = [scopes[d] EXCEPT !.entries = Append(scopes[d].entries, x)]
    PROVE  TearStep(d)
  <1>1. scopes'[d] = [state |-> scopes[d].state, entries |-> Append(scopes[d].entries, x),
                      current |-> scopes[d].current, steps |-> scopes[d].steps]
    BY FieldsOf, Zenon
  <1>2. /\ scopes'[d].state = scopes[d].state /\ scopes'[d].entries = Append(scopes[d].entries, x)
        /\ scopes'[d].current = scopes[d].current /\ scopes'[d].steps = scopes[d].steps
    BY <1>1, Zenon
  <1>3. Admits(d)
    BY <1>2, Zenon DEF Admits
  <1>4. Moves(d)
    BY <1>2 DEF Moves
  <1> QED
    BY <1>3, <1>4 DEF TearStep

\* A scope that is opened.
LEMMA OpensStep ==
    ASSUME TearInv, NEW d \in Scopes, scopes[d].state = "absent", revoked' = revoked,
           scopes'[d] = Blank("open")
    PROVE  TearStep(d)
  <1>1. /\ scopes'[d].state = "open" /\ scopes'[d].entries = <<>>
        /\ scopes'[d].current = None /\ scopes'[d].steps = <<>>
    BY DEF Blank
  <1> QED
    BY <1>1 DEF TearInv, TearStep, Moves, Rests

\* The steps that open, extend or seal scopes.
LEMMA OwnerTears ==
    ASSUME TearInv, LatchInv,
           \/ \E s \in Scopes : New(s) \/ BeginClose(s) \/ DropScope(s)
           \/ \E p, s \in Scopes : NewChild(p, s)
           \/ \E s, x : Defer(s, x) /\ x \in Cleanups
    PROVE  \A d \in Scopes : TearStep(d)
  <1> SUFFICES ASSUME NEW d \in Scopes PROVE TearStep(d)
    OBVIOUS
  <1>0. DOMAIN scopes = Scopes
    BY DEF LatchInv
  <1>1. ASSUME NEW s \in Scopes, New(s) PROVE TearStep(d)
    <2>1. revoked' = revoked /\ scopes[s].state = "absent"
          /\ scopes'[d] = IF d = s THEN Blank("open") ELSE scopes[d]
      BY <1>0, <1>1 DEF New
    <2> QED
      BY <2>1, OpensStep, SealedRests
  <1>2. ASSUME NEW s \in Scopes, BeginClose(s) PROVE TearStep(d)
    <2>1. revoked' = revoked \cup {s}
          /\ scopes'[d] = IF d = s THEN [scopes[d] EXCEPT !.state = "closing"] ELSE scopes[d]
      BY <1>0, <1>2 DEF BeginClose, Revoke
    <2> QED
      BY <2>1, SealedRests
  <1>3. ASSUME NEW s \in Scopes, DropScope(s) PROVE TearStep(d)
    <2>1. PICK tree : /\ revoked' = revoked \cup tree
                      /\ scopes'[d] = IF d \in tree THEN [scopes[d] EXCEPT !.state = "dropped"] ELSE scopes[d]
      BY <1>3 DEF DropScope, Revoke
    <2> QED
      BY <2>1, SealedRests
  <1>4. ASSUME NEW p \in Scopes, NEW s \in Scopes, NewChild(p, s) PROVE TearStep(d)
    <2>1. /\ revoked' = revoked /\ scopes[s].state = "absent" /\ scopes[p].state = "open"
          /\ scopes'[d] = IF d = p THEN [scopes[p] EXCEPT !.entries = Append(@, Child(s))]
                          ELSE IF d = s THEN Blank("open") ELSE scopes[d]
      BY <1>0, <1>4, LineageAssumption DEF NewChild, IsParent, PathOpen
    <2>2. Child(s) \in Cleanups
      BY DEF Child, Cleanups
    <2> QED
      BY <2>1, <2>2, AdmitsStep, OpensStep, SealedRests
  <1>5. ASSUME NEW s, NEW x \in Cleanups, Defer(s, x) PROVE TearStep(d)
    <2>1. /\ revoked' = revoked
          /\ scopes'[d] = IF d = s THEN [scopes[d] EXCEPT !.entries = Append(@, x)] ELSE scopes[d]
      BY <1>0, <1>5, Zenon DEF Defer
    <2>2. d = s => scopes[d].state = "open"
      BY <1>5, LineageAssumption DEF Defer, PathOpen
    <2> QED
      BY <2>1, <2>2, AdmitsStep, SealedRests
  <1> QED
    BY <1>1, <1>2, <1>3, <1>4, <1>5

\* The steps of a poll undo the last entry, or end what was begun.
LEMMA PollTears ==
    ASSUME TearInv, LatchInv, NEW s \in Scopes, Poll(s)
    PROVE  \A d \in Scopes : TearStep(d)
  <1>0. DOMAIN scopes = Scopes /\ scopes[s].state = "closing"
    BY DEF LatchInv, Poll, RunCleanup, RunEntry, StartAsync, FinishAsync, StartChild,
           FinishChild, FinishClose, Cleans
  <1>1. ASSUME \/ Undoes(s) \/ Undid(s), scopes'[s].state = "closing",
               \A d \in Scopes \ {s} :
                  \/ scopes'[d] = scopes[d] /\ d \notin revoked' \ revoked
                  \/ scopes'[d] = [scopes[d] EXCEPT !.state = "closing"]
        PROVE  \A d \in Scopes : TearStep(d)
    <2>1. TearStep(s)
      BY <1>1 DEF TearStep, Moves
    <2> QED
      BY <1>1, <2>1, SealedRests
  <1>2. CASE RunCleanup(s)
    <2>1. /\ revoked' = revoked /\ Idle(s) /\ scopes[s].entries # <<>>
          /\ \A d \in Scopes : scopes'[d] =
                IF d = s THEN [scopes[d] EXCEPT !.entries = Popped(s), !.steps = Append(scopes[d].steps, LastEntry(s))]
                ELSE scopes[d]
      BY <1>0, <1>2, Zenon DEF RunCleanup, RunEntry, Pops
    <2>2. scopes'[s] = [state |-> scopes[s].state, entries |-> Popped(s), current |-> scopes[s].current,
                        steps |-> Append(scopes[s].steps, LastEntry(s))]
      BY <2>1, FieldsOf, Zenon
    <2>3. Undoes(s) /\ scopes'[s].state = "closing"
      BY <1>0, <2>1, <2>2 DEF Undoes, Idle
    <2> QED
      BY <1>1, <2>1, <2>3
  <1>3. CASE StartAsync(s)
    <2>1. /\ revoked' = revoked /\ Idle(s) /\ scopes[s].entries # <<>>
          /\ \A d \in Scopes : scopes'[d] =
                IF d = s THEN [scopes[d] EXCEPT !.entries = Popped(s), !.current = LastEntry(s)]
                ELSE scopes[d]
      BY <1>0, <1>3, Zenon DEF StartAsync, Pops
    <2>2. scopes'[s] = [state |-> scopes[s].state, entries |-> Popped(s), current |-> LastEntry(s),
                        steps |-> scopes[s].steps]
      BY <2>1, FieldsOf, Zenon
    <2>3. Undoes(s) /\ scopes'[s].state = "closing"
      BY <1>0, <2>1, <2>2 DEF Undoes
    <2> QED
      BY <1>1, <2>1, <2>3
  <1>4. CASE FinishAsync(s)
    <2>1. /\ revoked' = revoked /\ scopes[s].current.kind = "async"
          /\ \A d \in Scopes : scopes'[d] =
                IF d = s THEN [scopes[d] EXCEPT !.current = None, !.steps = Append(scopes[d].steps, scopes[s].current)]
                ELSE scopes[d]
      BY <1>0, <1>4, Zenon DEF FinishAsync
    <2>2. scopes'[s] = [state |-> scopes[s].state, entries |-> scopes[s].entries, current |-> None,
                        steps |-> Append(scopes[s].steps, scopes[s].current)]
      BY <2>1, FieldsOf, Zenon
    <2>3. scopes[s].current # None
      <3>1. scopes[s].current.kind # "none" /\ None.kind = "none"
        BY <2>1 DEF None
      <3> QED
        BY <3>1, Zenon
    <2>4. Undid(s) /\ scopes'[s].state = "closing"
      BY <1>0, <2>2, <2>3 DEF Undid, Idle
    <2> QED
      BY <1>1, <2>1, <2>4
  <1>5. CASE StartChild(s)
    <2>1. PICK c : /\ c = LastEntry(s).of
                   /\ Idle(s) /\ scopes[s].entries # <<>> /\ LastEntry(s).kind = "child"
                   /\ \A d \in Scopes : scopes'[d] =
                        IF d = s THEN [scopes[d] EXCEPT !.entries = Popped(s), !.current = Child(c)]
                        ELSE IF d = c /\ scopes[c].state = "open" THEN [scopes[d] EXCEPT !.state = "closing"]
                        ELSE scopes[d]
      BY <1>5, Zenon DEF StartChild, Pops
    <2>2. revoked' = IF scopes[c].state = "open" THEN revoked \cup {c} ELSE revoked
      BY <1>5, <2>1 DEF StartChild, Revoke
    <2>3. LastEntry(s) \in Cleanups
      <3>1. scopes[s].entries \in Seq(Cleanups) /\ scopes[s].entries # <<>>
        BY <2>1 DEF TearInv
      <3> QED
        BY <3>1, FrontAndLast DEF LastEntry
    <2>4. LastEntry(s) = Child(c)
      BY <2>1, <2>3 DEF Cleanups, Child
    <2>5. scopes'[s] = [state |-> scopes[s].state, entries |-> Popped(s), current |-> LastEntry(s),
                        steps |-> scopes[s].steps]
      BY <2>1, <2>4, FieldsOf, Zenon
    <2>6. Undoes(s) /\ scopes'[s].state = "closing"
      <3>1. Idle(s) /\ scopes[s].entries # <<>> /\ scopes[s].state = "closing"
        BY <1>0, <2>1
      <3>2. /\ scopes'[s].state = scopes[s].state /\ scopes'[s].entries = Popped(s)
            /\ scopes'[s].current = LastEntry(s) /\ scopes'[s].steps = scopes[s].steps
        BY <2>5
      <3> QED
        BY <3>1, <3>2 DEF Undoes
    <2> QED
      BY <1>1, <2>1, <2>2, <2>6
  <1>6. CASE FinishChild(s)
    <2>1. PICK c : /\ c = scopes[s].current.of
                   /\ revoked' = revoked /\ scopes[s].current.kind = "child"
                   /\ \A d \in Scopes : scopes'[d] =
                        IF d = s THEN [scopes[d] EXCEPT !.current = None, !.steps = Append(scopes[d].steps, Child(c))]
                        ELSE scopes[d]
      BY <1>0, <1>6, Zenon DEF FinishChild
    <2>2. scopes[s].current # None
      <3>1. scopes[s].current.kind # "none" /\ None.kind = "none"
        BY <2>1 DEF None
      <3> QED
        BY <3>1, Zenon
    <2>3. scopes[s].current \in Cleanups
      BY <2>2 DEF TearInv
    <2>4. scopes[s].current = Child(c)
      BY <2>1, <2>3 DEF Cleanups, Child
    <2>5. scopes'[s] = [state |-> scopes[s].state, entries |-> scopes[s].entries, current |-> None,
                        steps |-> Append(scopes[s].steps, scopes[s].current)]
      BY <2>1, <2>4, FieldsOf, Zenon
    <2>6. Undid(s) /\ scopes'[s].state = "closing"
      BY <1>0, <2>2, <2>5 DEF Undid, Idle
    <2> QED
      BY <1>1, <2>1, <2>6
  <1>7. CASE FinishClose(s)
    <2>1. /\ revoked' = revoked
          /\ \A d \in Scopes : scopes'[d] = IF d = s THEN [scopes[d] EXCEPT !.state = "closed"] ELSE scopes[d]
      BY <1>0, <1>7 DEF FinishClose
    <2> QED
      BY <2>1, SealedRests
  <1> QED
    BY <1>2, <1>3, <1>4, <1>5, <1>6, <1>7 DEF Poll

\* Every step of the system treats every scope so.
LEMMA NextTears ==
    ASSUME TearInv, LatchInv, [Next]_vars
    PROVE  \A d \in Scopes : TearStep(d)
  <1>1. CASE \E s \in Scopes : (New(s) \/ BeginClose(s) \/ DropScope(s)) /\ UNCHANGED handleVars
    BY <1>1, OwnerTears
  <1>2. CASE \E p, s \in Scopes : NewChild(p, s) /\ UNCHANGED handleVars
    BY <1>2, OwnerTears
  <1>3. CASE \E s \in Borrowers, e \in Effects : Defer(s, Async(e)) /\ UNCHANGED handleVars
    <2>1. \A e \in Effects : Async(e) \in Cleanups
      BY DEF Async, Cleanups
    <2> QED
      BY <1>3, <2>1, OwnerTears
  <1>4. CASE \E p \in Services, s \in Homes : Provide(p, s)
    <2>1. \A p \in Services : Sync(p) \in Cleanups
      BY DEF Sync, Cleanups
    <2> QED
      BY <1>4, <2>1, OwnerTears DEF Provide
  <1>5. CASE \E s \in Scopes : Poll(s)
    BY <1>5, PollTears
  <1>6. ASSUME scopes' = scopes, revoked' = revoked PROVE \A d \in Scopes : TearStep(d)
    BY <1>6, SealedRests
  <1>7. CASE UNCHANGED scopeVars
    BY <1>6, <1>7 DEF scopeVars
  <1>8. CASE \E t \in Callers : Proceed(t)
    <2>1. scopes' = scopes /\ revoked' = revoked
      BY <1>8 DEF Proceed, Admit, AdmitLocal, Refused, Enter, Return, Leave, Release, scopeVars
    <2> QED
      BY <1>6, <2>1
  <1>9. CASE \/ \E p \in Services, c \in Borrowers : Bind(p, c)
             \/ DropRegistry
             \/ \E r \in Grants : Register(r) \/ RemoveGrant(r)
             \/ \E r \in Grants, next \in {"withdrawing", "dropping"} : RevokeGrant(r, next)
             \/ DropBroker
             \/ \E r \in Grants, a \in Borrowers : PrepareBinding(r, a) \/ Resolve(r, a)
             \/ \E t \in Callers, h \in bound : Call(t, h)
             \/ UNCHANGED vars
    <2>1. UNCHANGED scopeVars
      BY <1>9, Zenon DEF Bind, DropRegistry, Register, RemoveGrant, RevokeGrant, DropBroker,
                         PrepareBinding, Resolve, Call, vars
    <2> QED
      BY <1>7, <2>1
  <1> QED
    BY <1>1, <1>2, <1>3, <1>4, <1>5, <1>8, <1>9 DEF Next

\* Every scope undoes each of its cleanups at most once and in the reverse order
\* of their admission, whichever polls the teardown is spread over
\* (EffectScope::poll_close).
THEOREM UndoneBackwards == Spec => UndoneInReverse
  <1>1. Init => TearInv
    <2> SUFFICES ASSUME Init PROVE TearInv
      OBVIOUS
    <2>1. <<>> \in Seq(Cleanups)
      BY EmptySeq
    <2>2. ASSUME NEW s \in Scopes
          PROVE  /\ scopes[s].entries = <<>> /\ scopes[s].steps = <<>> /\ scopes[s].current = None
                 /\ s \notin revoked
      BY DEF Init, InitScopes, Blank
    <2> QED
      BY <2>1, <2>2 DEF TearInv
  <1>2. TearInv /\ IInv /\ [Next]_vars => TearInv'
    BY NextTears, TearStepKeeps DEF IInv
  <1>3. TearInv /\ IInv /\ [Next]_vars => [\A s \in Scopes : InReverse(s)]_vars
    BY NextTears, TearStepReverses DEF IInv
  <1>4. (\A s \in Scopes : InReverse(s)) =>
          \A s \in Scopes :
            Admitted(s)' # Admitted(s) =>
               /\ scopes[s].state = "open"
               /\ \E i \in {Len(Admitted(s)) + 1} :
                    /\ Len(Admitted(s)') = i
                    /\ SubSeq(Admitted(s)', 1, i - 1) = Admitted(s)
    BY Zenon DEF InReverse
  <1> QED
    BY <1>1, <1>2, <1>3, <1>4, InvariantHolds, PTL DEF Spec, UndoneInReverse

=============================================================================
