------------------------- MODULE AutoAttackParallel -------------------------
(***************************************************************************)
(* AutoAttack.generate with parallel=True.  The same two loops only put    *)
(* together the arguments of the runs, each with copies of what it reads;  *)
(* a pool of worker processes executes run_attack on them in any order;    *)
(* the results come back in the order of the arguments, and every sample   *)
(* takes the least perturbed of the results that broke it.  phase is       *)
(* "untargeted", "targeted" (the loops), "pool" or "idle".  x_adv and      *)
(* robust stay as first computed while the runs are put together, and      *)
(* best holds, once collected, the index of a run for every sample.        *)
(***************************************************************************)
EXTENDS AutoAttackCall, Sequences

CONSTANTS
  Workers,   \* the processes of the pool
  Norm2      \* np.linalg.norm without an order: [Inputs -> [Inputs -> Nat]]

ASSUME Norm2Assumption == Norm2 \in [Inputs -> [Inputs -> Nat]]

VARIABLES
  args,       \* the arguments of the runs
  next,       \* the first run not handed to a worker yet
  busy,       \* the run each worker executes, 0 if none
  results     \* what every run has returned so far

parallelVars == <<phase, targeted, x, y, x_adv, robust, best, a, flag, outcome,
                  args, next, busy, results>>
fixed == <<targeted, x, y, robust>>
pool == <<next, busy>>

\* The results of a run that is not over, and of one that raised.
Pending == [status |-> "pending"]
Failed == [status |-> "failed"]

ParallelInit ==
  /\ FirstCall
  /\ args = <<>> /\ results = <<>> /\ next = 1
  /\ busy = [w \in Workers |-> 0]

ParallelCall(xs, ys, t) ==
  /\ NewCall(xs, ys, t)
  /\ args' = <<>> /\ results' = <<>> /\ next' = 1
  /\ busy' = [w \in Workers |-> 0]

\* A slip: no copy of the attack, so that the flag is read when the run is
\* executed, after the targeted loop has set it.
UntargetedRunShared ==
  [attack |-> a, labels |-> y, targeted |-> targeted /\ a \in Targetable]

\* The run of the untargeted loop for the attack it is at, which is copied
\* into the arguments, and with it the flag it has at that moment.
UntargetedRun == [attack |-> a, labels |-> y, targeted |-> FlagCleared[a]]

\* The runs of the targeted loop for the attack it is at, one per label.
TargetedRuns ==
  [j \in 1 .. NClasses - 1 |->
     [attack |-> a, targeted |-> TRUE,
      labels |-> [s \in Samples |-> TargetLabel(y[s], j)]]]

\* One round of the untargeted loop.
AddUntargeted ==
  /\ phase = "untargeted" /\ a <= NAttacks /\ SomeRobust
  /\ flag' = FlagCleared
  /\ args' = Append(args, UntargetedRun)
  /\ a' = a + 1
  /\ UNCHANGED <<phase, fixed, pool, results, x_adv, best, outcome>>

\* The loops are over: the pool is given the runs.
StartPool == phase' = "pool" /\ results' = [k \in DOMAIN args |-> Pending]

\* The untargeted loop ends, or breaks as no sample is robust.
EndUntargeted ==
  /\ phase = "untargeted" /\ (a > NAttacks \/ ~SomeRobust)
  /\ IF targeted THEN phase' = "targeted" /\ UNCHANGED results ELSE StartPool
  /\ a' = 1
  /\ UNCHANGED <<fixed, pool, flag, args, x_adv, best, outcome>>

\* One round of the targeted loop: nothing for an attack whose set_params
\* raises; no runs, but a flag set, when no sample is robust.
AddTargeted ==
  /\ phase = "targeted" /\ a <= NAttacks
  /\ IF a \in Targetable
     THEN /\ flag' = [flag EXCEPT ![a] = TRUE]
          /\ args' = IF SomeRobust THEN args \o TargetedRuns ELSE args
     ELSE UNCHANGED <<flag, args>>
  /\ a' = a + 1
  /\ UNCHANGED <<phase, fixed, pool, results, x_adv, best, outcome>>

EndTargeted ==
  /\ phase = "targeted" /\ a > NAttacks
  /\ StartPool
  /\ UNCHANGED <<fixed, pool, a, flag, args, x_adv, best, outcome>>

\* A free worker takes the next run; each reads its own copies.
Take(w) ==
  /\ phase = "pool" /\ busy[w] = 0 /\ next <= Len(args)
  /\ busy' = [busy EXCEPT ![w] = next]
  /\ next' = next + 1
  /\ UNCHANGED <<phase, fixed, a, flag, args, results, x_adv, best, outcome>>

\* Where the result of a worker's run is put: starmap keeps the order of the
\* arguments; a slip takes the results as they come.
SlotAsTheyCome(w) == CHOOSE k \in DOMAIN results :
                       results[k] = Pending /\ \A j \in 1 .. k - 1 : results[j] # Pending
Slot(w) == busy[w]

\* run_attack ends in a worker.
Finish(w) ==
  /\ phase = "pool" /\ busy[w] # 0
  /\ LET run == args[busy[w]]
     IN  \E out \in Outputs(robust) :
           results' = [results EXCEPT ![Slot(w)] =
             [status |-> "done",
              x |-> RunX(x, run.labels, robust, run.targeted, out),
              robust |-> RunRobust(x, run.labels, robust, run.targeted, out)]]
  /\ busy' = [busy EXCEPT ![w] = 0]
  /\ UNCHANGED <<phase, fixed, a, flag, args, next, x_adv, best, outcome>>

\* A slip: a worker that fails never answers.
FailSilently(w) ==
  /\ phase = "pool" /\ busy[w] # 0 /\ args[busy[w]].attack \in Raising
  /\ busy' = [busy EXCEPT ![w] = 0]
  /\ UNCHANGED <<phase, fixed, a, flag, args, next, results, x_adv, best, outcome>>

\* attack.generate raises in a worker.
Fail(w) ==
  /\ phase = "pool" /\ busy[w] # 0 /\ args[busy[w]].attack \in Raising
  /\ results' = [results EXCEPT ![Slot(w)] = Failed]
  /\ busy' = [busy EXCEPT ![w] = 0]
  /\ UNCHANGED <<phase, fixed, a, flag, args, next, x_adv, best, outcome>>

AllOver == \A k \in DOMAIN results : results[k] # Pending

\* The runs that broke a sample, and its perturbation in a run.
Breakers(s) == {k \in DOMAIN results : ~results[k].robust[s]}
Perturbation(s, k) == Norm2[x[s]][results[k].x[s]]

\* np.argmin over the perturbations, infinite for a run that left the sample
\* robust: the first of the least; the first of all when all are infinite.
Argmin(s) ==
  IF Breakers(s) = {} THEN 1
  ELSE CHOOSE k \in Breakers(s) :
         \A j \in Breakers(s) : \/ Perturbation(s, k) < Perturbation(s, j)
                                \/ Perturbation(s, k) = Perturbation(s, j) /\ k <= j

\* starmap returns the results, and generate chooses among them.
Collect ==
  /\ phase = "pool" /\ AllOver /\ args # <<>>
  /\ \A k \in DOMAIN results : results[k] # Failed
  /\ best' = [s \in Samples |-> Argmin(s)]
  /\ x_adv' = [s \in Samples |-> results[best'[s]].x[s]]
  /\ phase' = "idle" /\ outcome' = "returned"
  /\ UNCHANGED <<fixed, pool, a, flag, args, results>>

\* starmap raises what a run raised; with no run at all, np.argmin over an
\* empty axis raises.
CollectRaise ==
  /\ phase = "pool" /\ AllOver
  /\ args = <<>> \/ \E k \in DOMAIN results : results[k] = Failed
  /\ phase' = "idle" /\ outcome' = "raised"
  /\ UNCHANGED <<fixed, pool, a, flag, args, results, x_adv, best>>

SomeParallelCall ==
  \E xs \in [Samples -> Inputs], ys \in [Samples -> Labels], t \in BOOLEAN :
    ParallelCall(xs, ys, t)
Step(w) == Take(w) \/ Finish(w) \/ Fail(w)
Main == \/ AddUntargeted \/ EndUntargeted \/ AddTargeted \/ EndTargeted
        \/ Collect \/ CollectRaise

ParallelNext == SomeParallelCall \/ Main \/ \E w \in Workers : Step(w)

\* The caller's process and every worker run on.
ParallelSpec == /\ ParallelInit /\ [][ParallelNext]_parallelVars
                /\ WF_parallelVars(Main)
                /\ \A w \in Workers : WF_parallelVars(Step(w))
=============================================================================
