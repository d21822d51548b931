----------------------------- MODULE HopSkipJump -----------------------------
(***************************************************************************)
(* HopSkipJump.generate, called again and again with or without resume.    *)
(* The attack only ever asks whether an image is adversarial.  What it     *)
(* cannot know is drawn when it starts to ask: along the segment from the  *)
(* original (0) to the current image (Res), and down the ladder of step    *)
(* sizes, on whose last rung the step has vanished and the image is the    *)
(* current one again.                                                      *)
(*                                                                         *)
(* An initial image given by the caller lies within the clip values, as    *)
(* the images the attack makes itself.                                     *)
(***************************************************************************)
EXTENDS Integers

CONSTANTS
  NSamples, \* the batch
  InitSize, \* self.init_size
  MaxIter,  \* self.max_iter
  InitRes,  \* 1 / threshold of the search for an initial image
  Res,      \* 1 / self.theta
  Rungs,    \* halvings of epsilon until the step vanishes
  MaxCalls  \* bound on the calls of generate

ASSUME BoundsAssumption ==
  /\ NSamples \in Nat \ {0} /\ InitSize \in Nat \ {0} /\ MaxIter \in Nat
  /\ InitRes \in Nat \ {0} /\ Res \in Nat \ {0} /\ Rungs \in Nat \ {0} /\ MaxCalls \in Nat

VARIABLES
  phase,         \* "idle", "perturb", "draw", "search", "step" or "iterate"
  calls,         \* how often generate was called
  ind,           \* the sample at work
  start,         \* where the iterations of this call are counted from
  curr_iter,     \* self.curr_iter
  trial, loops,  \* the for loops of _init_sample and _attack
  current,       \* whether current_sample is adversarial
  lower, upper,  \* lower_bound and upper_bound of _binary_search
  segment, after,\* the images it asks about, and what it is called for
  rung, ladder,  \* how often epsilon was halved, the images that asks about
  x_adv          \* per sample: "original", "adversarial" or "clean"

search == <<lower, upper, segment, after>>
step == <<rung, ladder>>
vars == <<phase, calls, ind, start, curr_iter, trial, loops, current, search, step, x_adv>>

Samples == 1 .. NSamples
\* The original is not adversarial: its own class is the one to leave, or
\* is not yet the target.
Segments(res, adversarial) ==
  {f \in [0 .. res -> BOOLEAN] : ~f[0] /\ f[res] = adversarial}
Ladders(adversarial) == {f \in [1 .. Rungs -> BOOLEAN] : f[Rungs] = adversarial}

Init ==
  /\ phase = "idle" /\ calls = 0 /\ ind = 1 /\ start = 0 /\ curr_iter = 0
  /\ trial = 0 /\ loops = 0 /\ current = FALSE
  /\ lower = 0 /\ upper = 1 /\ segment \in Segments(1, TRUE) /\ after = "iterate"
  /\ rung = 0 /\ ladder \in Ladders(TRUE)
  /\ x_adv = [s \in Samples |-> "original"]

\* generate is called, to go on from the last call or not.
Call(resume) ==
  /\ phase = "idle" /\ calls < MaxCalls
  /\ calls' = calls + 1
  /\ start' = IF resume THEN curr_iter ELSE 0
  /\ ind' = 1
  /\ x_adv' = [s \in Samples |-> "original"]
  /\ phase' = "perturb"
  /\ UNCHANGED <<curr_iter, trial, loops, current, search, step>>

\* The counter of a new sample; a slip goes on counting from the last one.
FirstIterKept == curr_iter
FirstIter == start

\* _perturb returns: the next sample, or the end of the call.
NextSample ==
  /\ ind' = IF ind < NSamples THEN ind + 1 ELSE ind
  /\ phase' = IF ind < NSamples THEN "perturb" ELSE "idle"

\* A targeted attack on a sample that is of the target class already.
Satisfied ==
  /\ phase = "perturb"
  /\ curr_iter' = FirstIter
  /\ NextSample
  /\ UNCHANGED <<calls, start, trial, loops, current, search, step, x_adv>>

\* The caller's initial image is adversarial.
GivenInit ==
  /\ phase = "perturb"
  /\ curr_iter' = FirstIter
  /\ current' = TRUE /\ loops' = 0
  /\ phase' = "iterate"
  /\ UNCHANGED <<calls, ind, start, trial, search, step, x_adv>>

\* There is no such image: random ones are drawn.
StartDraw ==
  /\ phase = "perturb"
  /\ curr_iter' = FirstIter
  /\ trial' = 0
  /\ phase' = "draw"
  /\ UNCHANGED <<calls, ind, start, loops, current, search, step, x_adv>>

\* for _ in range(self.init_size); a slip draws once more.
DrawingOnceMore == trial <= InitSize
Drawing == trial < InitSize

DrawMiss ==
  /\ phase = "draw" /\ Drawing
  /\ trial' = trial + 1
  /\ UNCHANGED <<phase, calls, ind, start, curr_iter, loops, current, search, step, x_adv>>

DrawFail ==
  /\ phase = "draw" /\ ~Drawing
  /\ NextSample
  /\ UNCHANGED <<calls, start, curr_iter, trial, loops, current, search, step, x_adv>>

\* _binary_search starts from the current image.
StartSearch(res, adversarial, then) ==
  /\ lower' = 0 /\ upper' = res
  /\ segment' \in Segments(res, adversarial)
  /\ after' = then
  /\ phase' = "search"

DrawHit ==
  /\ phase = "draw" /\ Drawing
  /\ current' = TRUE /\ loops' = 0
  /\ StartSearch(InitRes, TRUE, "iterate")
  /\ UNCHANGED <<calls, ind, start, curr_iter, trial, step, x_adv>>

\* while (upper_bound - lower_bound) > threshold; a slip stops too early.
SearchingCoarse == upper - lower > 2
Searching == upper - lower > 1
Alpha == (upper + lower) \div 2

Bisect ==
  /\ phase = "search" /\ Searching
  /\ lower' = IF segment[Alpha] THEN lower ELSE Alpha
  /\ upper' = IF segment[Alpha] THEN Alpha ELSE upper
  /\ UNCHANGED <<phase, calls, ind, start, curr_iter, trial, loops, current,
                 segment, after, step, x_adv>>

\* The end of the segment handed back; a slip takes the other one.
BoundaryLower == lower
Boundary == upper

\* The image at the boundary becomes the current one; the update is computed
\* and the step size search begins if _attack was the caller.
SearchEnd ==
  /\ phase = "search" /\ ~Searching
  /\ current' = segment[Boundary]
  /\ phase' = after
  /\ rung' = 0
  /\ ladder' \in Ladders(current')
  /\ UNCHANGED <<calls, ind, start, curr_iter, trial, loops, search, x_adv>>

\* The loop over range(self.max_iter) of _attack.
Iterate ==
  /\ phase = "iterate" /\ loops < MaxIter
  /\ StartSearch(Res, current, "step")
  /\ UNCHANGED <<calls, ind, start, curr_iter, trial, loops, current, step, x_adv>>

Finish ==
  /\ phase = "iterate" /\ loops = MaxIter
  /\ x_adv' = [x_adv EXCEPT ![ind] = IF current THEN "adversarial" ELSE "clean"]
  /\ NextSample
  /\ UNCHANGED <<calls, start, curr_iter, trial, loops, current, search, step>>

\* epsilon /= 2; a slip computes the same epsilon over and over.
NextRungSame == 1
NextRung == rung + 1

\* The answer to the step; a slip does not look at it.
SuccessAssumed == TRUE
Success == ladder[NextRung]

\* while not success: the step is tried, and taken if the image it leads to
\* is adversarial.
StepMiss ==
  /\ phase = "step" /\ NextRung <= Rungs
  /\ ~Success
  /\ rung' = NextRung
  /\ UNCHANGED <<phase, calls, ind, start, curr_iter, trial, loops, current, search,
                 ladder, x_adv>>

StepHit ==
  /\ phase = "step" /\ NextRung <= Rungs
  /\ Success
  /\ rung' = NextRung
  /\ current' = ladder[NextRung]
  /\ curr_iter' = curr_iter + 1 /\ loops' = loops + 1
  /\ phase' = "iterate"
  /\ UNCHANGED <<calls, ind, start, trial, search, ladder, x_adv>>

\* The update was not a number, the model calls such an image adversarial,
\* and the original is handed back.
StepNaN ==
  /\ phase = "step" /\ rung = 0
  /\ curr_iter' = curr_iter + 1
  /\ NextSample
  /\ UNCHANGED <<calls, start, trial, loops, current, search, step, x_adv>>

Work == \/ Satisfied \/ GivenInit \/ StartDraw \/ DrawMiss \/ DrawFail \/ DrawHit
        \/ Bisect \/ SearchEnd \/ Iterate \/ Finish \/ StepMiss \/ StepHit \/ StepNaN
NoMoreCalls == phase = "idle" /\ calls = MaxCalls /\ UNCHANGED vars
Next == (\E resume \in BOOLEAN : Call(resume)) \/ Work \/ NoMoreCalls

\* A call, once made, runs on.
Spec == Init /\ [][Next]_vars /\ WF_vars(Work)
-----------------------------------------------------------------------------
(***************************************************************************)
(* The variables have the values the code can give them.                   *)
(***************************************************************************)
TypeOK ==
  /\ phase \in {"idle", "perturb", "draw", "search", "step", "iterate"}
  /\ calls \in Nat /\ ind \in Samples
  /\ start \in Nat /\ curr_iter \in Nat
  /\ trial \in 0 .. InitSize /\ loops \in 0 .. MaxIter
  /\ current \in BOOLEAN
  /\ after \in {"iterate", "step"}
  /\ \E res \in {1, InitRes, Res} :
       /\ lower \in 0 .. res /\ upper \in 0 .. res
       /\ segment \in [0 .. res -> BOOLEAN]
  /\ rung \in 0 .. Rungs /\ ladder \in [1 .. Rungs -> BOOLEAN]
  /\ x_adv \in [Samples -> {"original", "adversarial", "clean"}]

(***************************************************************************)
(* The walk never leaves the adversarial side: the image it is at is       *)
(* adversarial whenever the step size search relies on it (hop_skip_jump.  *)
(* py 441-449 ends only then), and the search for the boundary keeps its   *)
(* upper end on that side.                                                 *)
(***************************************************************************)
CurrentIsAdversarial ==
  /\ phase \in {"search", "step", "iterate"} => current
  /\ phase = "search" => segment[upper]

(***************************************************************************)
(* generate hands back the original or an adversarial image, nothing else  *)
(* (hop_skip_jump.py 227-229, 260-267).                                    *)
(***************************************************************************)
NoCleanImage == \A s \in Samples : x_adv[s] # "clean"

(***************************************************************************)
(* The search for the boundary ends within its threshold of an image that  *)
(* is not adversarial (hop_skip_jump.py 500-528).                          *)
(***************************************************************************)
AtBoundary ==
  phase = "step" => ~segment[lower] /\ segment[upper] /\ upper = lower + 1

(***************************************************************************)
(* Every sample of a call counts its iterations from the same start,       *)
(* whatever the samples before it did (hop_skip_jump.py 146-149, 196, 455).*)
(***************************************************************************)
CountsFromStart ==
  phase \in {"search", "step", "iterate"} => curr_iter = start + loops

(***************************************************************************)
(* generate returns.                                                       *)
(***************************************************************************)
CallEnds == phase # "idle" ~> phase = "idle"
=============================================================================
