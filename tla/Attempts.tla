------------------------------ MODULE Attempts ------------------------------
(***************************************************************************)
(* The control graph of one project: runs, work items, execution units,    *)
(* the attempts dispatched for a unit, and the lease that names the holder *)
(* of its current attempt (crates/yah-kernel/src/funnel/validate.rs,       *)
(* funnel/mod.rs, store/mod.rs).                                           *)
(*                                                                         *)
(* Funnel.tla models how ONE command reaches the disk.  Here a command is  *)
(* one atomic step, and the subject is what a sequence of them, issued by  *)
(* the daemon and by agents that may be arbitrarily late, does to the      *)
(* graph.  An agent proves its right to act with the attempt token minted  *)
(* by the dispatch; every token ever minted may be presented at any time.  *)
(*                                                                         *)
(* A mutating command must name the current version of its aggregate, so   *)
(* the commands that pass that check are the ones modelled; a stale one is *)
(* refused and changes nothing here (Funnel.tla has both).                 *)
(***************************************************************************)
EXTENDS Integers, FiniteSets

CONSTANTS Runs, WorkItems, Units, Holders,
          MaxCount,     \* the largest value of a u64 counter of a row
          MaxAuthority  \* the largest authority epoch

ASSUME CountAssumption == MaxCount \in Nat \ {0} /\ MaxAuthority \in Nat \ {0}

VARIABLES
    authority,   \* the authority epoch this process claimed
    up,          \* is the store open
    workItems,   \* work items created
    runs,        \* runs opened; what closes a run is in Cancellation.tla
    units,       \* version, attempt epoch, stamp and run of each unit
    attempts,    \* attempt rows; a row also is the token it minted
    leases,      \* the attempt epoch, holder and version of each unit's lease
    cancelled,   \* roots with a committed cancel request
    heard        \* for each unit the epoch of the last report accepted

graph == <<workItems, runs, units, attempts, leases>>
vars == <<authority, up, graph, cancelled, heard>>

NoRun == "no run"

Counter == 0..MaxCount

NoUnit == [version |-> 0, epoch |-> 0, stamp |-> 0, run |-> NoRun]
NoLease == [epoch |-> 0, holder |-> NoRun, version |-> 0]

RunExists(r) == r \in runs
UnitExists(u) == units[u].version > 0

(***************************************************************************)
(* A cancellation root: a run, a unit, or an attempt of a unit.            *)
(***************************************************************************)
RunRoot(r) == [kind |-> "run", run |-> r]
UnitRoot(u) == [kind |-> "execution_unit", unit |-> u]
AttemptRoot(u, e) == [kind |-> "attempt", unit |-> u, epoch |-> e]

Roots == {RunRoot(r) : r \in Runs} \cup {UnitRoot(u) : u \in Units}
            \cup {AttemptRoot(u, e) : u \in Units, e \in 1..MaxCount}

RootExists(root) ==
    CASE root.kind = "run" -> RunExists(root.run)
      [] root.kind = "execution_unit" -> UnitExists(root.unit)
      [] OTHER -> \E a \in attempts : a.unit = root.unit /\ a.epoch = root.epoch

\* Mutant: a cancelled run does not bar new attempts of its units.
AttemptLineageUnitOnly(u) == {UnitRoot(u)}

\* The ancestors whose cancellation bars a new attempt of u, and a new
\* effect of its current attempt.
AttemptLineage(u) == {RunRoot(units[u].run), UnitRoot(u)}
EffectLineage(u) ==
    AttemptLineage(u) \cup {AttemptRoot(u, e) : e \in {units[u].epoch} \ {0}}

Barred(lineage) == lineage \cap cancelled # {}

\* Mutant: the attempt epoch is not compared.
FencePassesAnyEpoch(t) ==
    /\ t.authority = authority
    /\ UnitExists(t.unit)
    /\ t.stamp = units[t.unit].stamp
    /\ leases[t.unit].version > 0
    /\ t.holder = leases[t.unit].holder

(***************************************************************************)
(* The holder fence.  The nonce sealed in a token is not compared.         *)
(***************************************************************************)
FencePasses(t) ==
    /\ t.authority = authority
    /\ UnitExists(t.unit)
    /\ t.epoch = units[t.unit].epoch
    /\ t.stamp = units[t.unit].stamp
    /\ leases[t.unit].version > 0
    /\ t.holder = leases[t.unit].holder

LiveTokens(u) == {t \in attempts : t.unit = u /\ FencePasses(t)}

-----------------------------------------------------------------------------
(***************************************************************************)
(* Commands of the daemon.                                                 *)
(***************************************************************************)
RunOpen(r) ==
    /\ up
    /\ ~RunExists(r)
    /\ runs' = runs \cup {r}
    /\ UNCHANGED <<authority, up, workItems, units, attempts, leases, cancelled, heard>>

WorkItemCreate(w) ==
    /\ up
    /\ w \notin workItems
    /\ workItems' = workItems \cup {w}
    /\ UNCHANGED <<authority, up, runs, units, attempts, leases, cancelled, heard>>

\* A closed run still admits units: the handler only asks that it exists.
UnitAdmit(u, r, w) ==
    /\ up
    /\ RunExists(r)
    /\ w \in workItems
    /\ ~UnitExists(u)
    /\ ~Barred({RunRoot(r)})
    /\ units' = [units EXCEPT ![u] =
                    [version |-> 1, epoch |-> 0, stamp |-> 0, run |-> r]]
    /\ UNCHANGED <<authority, up, workItems, runs, attempts, leases, cancelled, heard>>

\* The attempt rows with u's current one, if there is one, superseded.
Superseded(u) ==
    {IF a.unit = u /\ a.epoch = units[u].epoch
     THEN [a EXCEPT !.status = "superseded"] ELSE a : a \in attempts}

NewAttempt(u, h) ==
    [unit |-> u, epoch |-> units[u].epoch + 1, stamp |-> units[u].stamp,
     authority |-> authority, holder |-> h, status |-> "active"]

\* Mutant: only the first dispatch advances the attempt epoch.
UnitDispatchSameEpoch(u, h) ==
    /\ up
    /\ UnitExists(u)
    /\ ~Barred(AttemptLineage(u))
    /\ units[u].version < MaxCount
    /\ leases[u].version < MaxCount
    /\ units' = [units EXCEPT ![u] = [units[u] EXCEPT !.version = @ + 1, !.epoch = 1]]
    /\ attempts' = Superseded(u) \cup {[NewAttempt(u, h) EXCEPT !.epoch = 1]}
    /\ leases' = [leases EXCEPT ![u] = [epoch |-> 1, holder |-> h, version |-> @.version + 1]]
    /\ UNCHANGED <<authority, up, workItems, runs, cancelled, heard>>

UnitDispatch(u, h) ==
    /\ up
    /\ UnitExists(u)
    /\ ~Barred(AttemptLineage(u))
    /\ units[u].version < MaxCount
    /\ units[u].epoch < MaxCount
    /\ leases[u].version < MaxCount
    /\ units' = [units EXCEPT ![u] =
                    [version |-> @.version + 1, epoch |-> @.epoch + 1,
                     stamp |-> @.stamp, run |-> @.run]]
    /\ attempts' = Superseded(u) \cup {NewAttempt(u, h)}
    /\ leases' = [leases EXCEPT ![u] =
                    [epoch |-> units[u].epoch + 1, holder |-> h, version |-> @.version + 1]]
    /\ UNCHANGED <<authority, up, workItems, runs, cancelled, heard>>

StampBump(u) ==
    /\ up
    /\ UnitExists(u)
    /\ units[u].version < MaxCount
    /\ units[u].stamp < MaxCount
    /\ units' = [units EXCEPT ![u] =
                    [version |-> @.version + 1, epoch |-> @.epoch,
                     stamp |-> @.stamp + 1, run |-> @.run]]
    /\ UNCHANGED <<authority, up, workItems, runs, attempts, leases, cancelled, heard>>

\* What cancel.request changes of this state: the root gets a committed
\* request.  The request itself is modelled in Cancellation.tla.
CancelRequest(root) ==
    /\ up
    /\ RootExists(root)
    /\ cancelled' = cancelled \cup {root}
    /\ UNCHANGED <<authority, up, graph, heard>>

(***************************************************************************)
(* An agent's report.  It changes nothing in the graph; `heard' remembers  *)
(* whose report was the last one accepted.                                 *)
(***************************************************************************)
ProgressReport(t) ==
    /\ up
    /\ FencePasses(t)
    /\ heard' = [heard EXCEPT ![t.unit] = t.epoch]
    /\ UNCHANGED <<authority, up, graph, cancelled>>

(***************************************************************************)
(* The process dies, and a successor opens the store and claims the next   *)
(* authority epoch.  A claim whose commit is uncertain may be durable, and *)
(* leaves no process behind.                                               *)
(***************************************************************************)
Crash ==
    /\ up
    /\ up' = FALSE
    /\ UNCHANGED <<authority, graph, cancelled, heard>>

Recover ==
    /\ ~up
    /\ authority < MaxAuthority
    /\ authority' = authority + 1
    /\ up' \in BOOLEAN
    /\ UNCHANGED <<graph, cancelled, heard>>

-----------------------------------------------------------------------------
Init ==
    /\ authority = 1
    /\ up = TRUE
    /\ workItems = {}
    /\ runs = {}
    /\ units = [u \in Units |-> NoUnit]
    /\ attempts = {}
    /\ leases = [u \in Units |-> NoLease]
    /\ cancelled = {}
    /\ heard = [u \in Units |-> 0]

Next ==
    \/ \E r \in Runs : RunOpen(r)
    \/ \E w \in WorkItems : WorkItemCreate(w)
    \/ \E u \in Units, r \in Runs, w \in WorkItems : UnitAdmit(u, r, w)
    \/ \E u \in Units, h \in Holders : UnitDispatch(u, h)
    \/ \E u \in Units : StampBump(u)
    \/ \E root \in Roots : CancelRequest(root)
    \/ \E t \in attempts : ProgressReport(t)
    \/ Crash
    \/ Recover

Spec == Init /\ [][Next]_vars

-----------------------------------------------------------------------------
(***************************************************************************)
(* Properties.                                                             *)
(***************************************************************************)
UnitRows == [version : Counter, epoch : Counter, stamp : Counter, run : Runs \cup {NoRun}]

AttemptRows ==
    [unit : Units, epoch : 1..MaxCount, stamp : Counter, authority : 1..MaxAuthority,
     holder : Holders, status : {"active", "superseded"}]

LeaseRows == [epoch : Counter, holder : Holders \cup {NoRun}, version : Counter]

\* Every row has the shape the store's schema gives it, and no counter has
\* left its width (funnel/validate.rs, increment).
TypeOK ==
    /\ authority \in 1..MaxAuthority
    /\ up \in BOOLEAN
    /\ workItems \subseteq WorkItems
    /\ runs \subseteq Runs
    /\ units \in [Units -> UnitRows]
    /\ attempts \subseteq AttemptRows
    /\ leases \in [Units -> LeaseRows]
    /\ cancelled \subseteq Roots
    /\ heard \in [Units -> Counter]

\* Of all the tokens ever minted for a unit, at most one passes the holder
\* fence, although the fence compares neither the nonce nor the attempt row's
\* status (store/mod.rs, check_holder_fence).
OneLiveToken ==
    \A u \in Units : \A s, t \in LiveTokens(u) : s = t

\* The token that passes is the one of the active attempt, and the lease,
\* the unit and the attempt row agree about who that is.
LiveTokenIsCurrent ==
    \A u \in Units : \A t \in LiveTokens(u) :
        /\ t.status = "active"
        /\ leases[u].epoch = t.epoch

\* Each dispatched unit has exactly one active attempt, at its current epoch
\* (funnel/mod.rs, Plan::Dispatch supersedes the prior row in the same
\* transaction that creates the new one).
OneActiveAttempt ==
    \A u \in Units :
        {a.epoch : a \in {b \in attempts : b.unit = u /\ b.status = "active"}}
            = {units[u].epoch} \ {0}

\* A fence refusal is stored and replayed to every retry
\* (funnel/validate.rs, holder_gate), so it must never heal: a token the
\* fence refuses is refused for ever after, across restarts too.
RefusedTokenStaysRefused ==
    [][\A t \in attempts :
        ~FencePasses(t) => \A s \in attempts' :
            (s.unit = t.unit /\ s.epoch = t.epoch) => ~FencePasses(s)']_vars

\* Reports are heard in the order of the attempts they come from: once a
\* later attempt was heard, no report of an earlier one is accepted.
HeardInOrder == [][\A u \in Units : heard[u] <= heard'[u]]_vars

\* The units and attempts that hang below a root.
Below(root) ==
    CASE root.kind = "run" ->
            {UnitRoot(u) : u \in {v \in Units : units[v].run = root.run}}
            \cup {AttemptRoot(a.unit, a.epoch) :
                    a \in {b \in attempts : units[b.unit].run = root.run}}
      [] root.kind = "execution_unit" ->
            {AttemptRoot(a.unit, a.epoch) : a \in {b \in attempts : b.unit = root.unit}}
      [] OTHER -> {}

\* Nothing is admitted below a root once its cancellation is committed
\* (cancel_rules.rs, admission_blockers): the cancelled run gains no unit,
\* and neither it nor the cancelled unit gains an attempt.
NothingAdmittedBelowCancelled ==
    [][\A root \in cancelled : Below(root)' \subseteq Below(root)]_vars
-----------------------------------------------------------------------------
(***************************************************************************)
(* Why the above hold: the conjuncts of the inductive invariant that       *)
(* AttemptsProofs.tla proves.                                              *)
(***************************************************************************)
\* A unit that was never admitted has nothing: admission starts it at zero.
AbsentUnitIsEmpty ==
    \A u \in Units : ~UnitExists(u) => units[u] = NoUnit /\ leases[u] = NoLease

\* No attempt row is ahead of its unit or of the process that reads it.
AttemptsNotAhead ==
    \A a \in attempts :
        /\ UnitExists(a.unit)
        /\ a.epoch <= units[a.unit].epoch
        /\ a.stamp <= units[a.unit].stamp
        /\ a.authority <= authority

\* attempt_key, unit and epoch, names one row.
AttemptKeyUnique ==
    \A a, b \in attempts : a.unit = b.unit /\ a.epoch = b.epoch => a = b

\* A row is active exactly while its epoch is the unit's.
ActiveIsCurrent ==
    \A a \in attempts : a.status = "active" <=> a.epoch = units[a.unit].epoch

CurrentAttemptExists ==
    \A u \in Units : units[u].epoch > 0 =>
        \E a \in attempts : a.unit = u /\ a.epoch = units[u].epoch

LeaseFollowsUnit == \A u \in Units : leases[u].epoch = units[u].epoch

HeardNotAhead == \A u \in Units : heard[u] <= units[u].epoch

IInv ==
    /\ TypeOK
    /\ AbsentUnitIsEmpty
    /\ AttemptsNotAhead
    /\ AttemptKeyUnique
    /\ ActiveIsCurrent
    /\ CurrentAttemptExists
    /\ LeaseFollowsUnit
    /\ HeardNotAhead
=============================================================================
