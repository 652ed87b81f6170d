------------------------------ MODULE Versions ------------------------------
(***************************************************************************)
(* The stored versions of one quad, which of them a read at a transaction  *)
(* time and a valid time goes by, and which of them retention expires, as  *)
(* operators over a set of versions with distinct transaction times.       *)
(***************************************************************************)
EXTENDS Integers

CONSTANT EndOfTime  \* Timestamp::END_OF_TIME, after every instant

ASSUME EndOfTimeType == EndOfTime \in Nat

\* A valid-time window and the commit that wrote it.
Version == [start : Nat, end : Nat, tt : Nat]

-----------------------------------------------------------------------------
(* Reading: snapshot_scan *)

InView(v, ts, vt) == v.tt <= ts /\ v.start <= vt

\* The later window takes over; within one, the later commit corrects it.
Beats(v, w) == v.start > w.start \/ (v.start = w.start /\ v.tt > w.tt)

Governs(v, vs, ts, vt) ==
  /\ v \in vs
  /\ InView(v, ts, vt)
  /\ \A w \in vs : InView(w, ts, vt) => ~Beats(w, v)

\* A read as of ts at valid time vt finds the quad.
Holds(vs, ts, vt) == \E v \in vs : Governs(v, vs, ts, vt) /\ vt < v.end

-----------------------------------------------------------------------------
(* Retention: select_expired *)

\* A newer version of the same window was committed before the cutoff.
Shadowed(v, vs, cutoff) ==
  \E w \in vs : w.start = v.start /\ w.tt > v.tt /\ w.tt < cutoff

\* Faulty: any newer version shadows, also one of a later window.
ExpiredAcrossWindows(vs, tx, vt) ==
  LET shadowed == {v \in vs : \E w \in vs : w.tt > v.tt /\ w.tt < tx}
  IN  IF \A v \in vs \ shadowed : v.end < vt THEN vs ELSE shadowed

\* The versions a policy expires: the shadowed ones, and all of them once
\* every other one is closed before the lookback (vt = 0: no lookback).
Expired(vs, tx, vt) ==
  LET shadowed == {v \in vs : Shadowed(v, vs, tx)}
  IN  IF \A v \in vs \ shadowed : v.end < vt THEN vs ELSE shadowed
=============================================================================
