----------------------------- MODULE CommandLog -----------------------------
(***************************************************************************)
(* What the mutation funnel promises its callers: a log with one decision  *)
(* per command key.  A key is decided once and for ever; a completed       *)
(* decision and the versioned transition it stands for happen in the same  *)
(* step, and a caller is told `completed' only of a decision that is       *)
(* already in the log.  No process, book, fault or restart appears here.   *)
(***************************************************************************)
EXTENDS Integers

CONSTANTS Requests, Keys, Aggregates

VARIABLES
  decision,     \* what was decided for every key, or Undecided
  version,      \* version of every aggregate, 0 while it does not exist
  acked         \* requests whose callers know they completed

logVars == <<decision, version, acked>>

Undecided == [none |-> 0]

Entry(r, s) ==
  [digest |-> r.digest, method |-> r.method, principal |-> r.principal, status |-> s]

\* A creation needs an absent row; every other method its expected version.
Lawful(r) ==
  /\ r.method # "malformed"
  /\ IF r.method = "create" THEN version[r.agg] = 0
                            ELSE version[r.agg] > 0 /\ version[r.agg] = r.expects

LogInit ==
  /\ decision = [k \in Keys |-> Undecided]
  /\ version = [a \in Aggregates |-> 0]
  /\ acked = {}

Complete(r) ==
  /\ decision[r.key] = Undecided
  /\ Lawful(r)
  /\ decision' = [decision EXCEPT ![r.key] = Entry(r, "completed")]
  /\ version' = IF r.method = "report" THEN version ELSE [version EXCEPT ![r.agg] = @ + 1]
  /\ UNCHANGED acked

Reject(r) ==
  /\ decision[r.key] = Undecided
  /\ decision' = [decision EXCEPT ![r.key] = Entry(r, "rejected")]
  /\ UNCHANGED <<version, acked>>

Acknowledge(r) ==
  /\ decision[r.key] = Entry(r, "completed")
  /\ acked' = acked \cup {r}
  /\ UNCHANGED <<decision, version>>

LogNext == \E r \in Requests : Complete(r) \/ Reject(r) \/ Acknowledge(r)

LogSpec == LogInit /\ [][LogNext]_logVars
=============================================================================
