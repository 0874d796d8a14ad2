---------------------------- MODULE PerKeyMutex ----------------------------
(***************************************************************************)
(* What the proxies expect of keyedLocker: between lock(key) returning and  *)
(* the call of the function it returned, a request is alone with its key.   *)
(* The specification knows nothing of lock objects or reference counts.     *)
(***************************************************************************)
CONSTANTS Procs, Keys

VARIABLES
  phase,   \* "out", "waiting" in lock(key), or "in" between lock and unlock
  wants    \* the key of a request that is not out

mutexVars == <<phase, wants>>

MutexInit ==
  /\ phase = [p \in Procs |-> "out"]
  /\ wants \in [Procs -> Keys]

Ask(p, k) ==
  /\ phase[p] = "out"
  /\ phase' = [phase EXCEPT ![p] = "waiting"]
  /\ wants' = [wants EXCEPT ![p] = k]

Enter(p) ==
  /\ phase[p] = "waiting"
  /\ \A q \in Procs : phase[q] = "in" => wants[q] # wants[p]
  /\ phase' = [phase EXCEPT ![p] = "in"]
  /\ UNCHANGED wants

Leave(p) ==
  /\ phase[p] = "in"
  /\ phase' = [phase EXCEPT ![p] = "out"]
  /\ UNCHANGED wants

MutexNext == \E p \in Procs : (\E k \in Keys : Ask(p, k)) \/ Enter(p) \/ Leave(p)

MutexSpec == MutexInit /\ [][MutexNext]_mutexVars
=============================================================================
