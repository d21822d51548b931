-------------------------- MODULE HopSkipJumpProofs --------------------------
(***************************************************************************)
(* HopSkipJump for every batch, every resolution of the search, every      *)
(* number of step sizes and every model.                                   *)
(***************************************************************************)
EXTENDS HopSkipJump, TLAPS

(***************************************************************************)
(* While the search for the boundary runs its upper end is adversarial and *)
(* its lower end is not.                                                   *)
(***************************************************************************)
Bracket ==
  phase = "search" => lower < upper /\ segment[lower] = FALSE /\ segment[upper] = TRUE

(***************************************************************************)
(* The image the walk is at is adversarial.                                *)
(***************************************************************************)
OnTheAdversarialSide == phase \in {"search", "step", "iterate"} => current = TRUE

(***************************************************************************)
(* A sample that was not moved yet has used no iteration.                  *)
(***************************************************************************)
CountsBeforeTheWalk == phase = "draw" => curr_iter = start

(***************************************************************************)
(* A search or a step of _attack belongs to an iteration it has left.      *)
(***************************************************************************)
IterationLeft ==
  phase = "step" \/ (phase = "search" /\ after = "step") => loops < MaxIter

IInv ==
  /\ TypeOK /\ Bracket /\ OnTheAdversarialSide /\ AtBoundary
  /\ NoCleanImage /\ CountsFromStart /\ CountsBeforeTheWalk /\ IterationLeft

(***************************************************************************)
(* The search in itself: what TypeOK says of it.                           *)
(***************************************************************************)
SearchTyped ==
  \E res \in {1, InitRes, Res} :
    /\ lower \in 0 .. res /\ upper \in 0 .. res
    /\ segment \in [0 .. res -> BOOLEAN]

(***************************************************************************)
(* A search that starts has the two ends of the segment for its bounds.    *)
(***************************************************************************)
LEMMA StartsBracketed ==
  ASSUME NEW res \in {1, InitRes, Res}, NEW then, StartSearch(res, TRUE, then)
  PROVE  SearchTyped' /\ Bracket'
<1>1. res \in Nat /\ res > 0
  BY BoundsAssumption
<1>2. lower' = 0 /\ upper' = res
  BY DEF StartSearch
<1>3. /\ segment' \in [0 .. res -> BOOLEAN]
      /\ ~segment'[0] /\ segment'[res] = TRUE
  BY DEF StartSearch, Segments
<1>4. lower' \in 0 .. res /\ upper' \in 0 .. res
  BY <1>1, <1>2
<1>5. segment'[0] \in BOOLEAN
  BY <1>1, <1>3
<1>6. SearchTyped'
  BY <1>3, <1>4 DEF SearchTyped
<1>7. Bracket'
  BY <1>1, <1>2, <1>3, <1>5 DEF Bracket
<1> QED
  BY <1>6, <1>7

(***************************************************************************)
(* Halving keeps the two ends on their sides.                              *)
(***************************************************************************)
LEMMA HalvingKeepsTheBracket ==
  ASSUME SearchTyped, Bracket, Bisect
  PROVE  SearchTyped' /\ Bracket'
<1>1. PICK res \in {1, InitRes, Res} :
         /\ lower \in 0 .. res /\ upper \in 0 .. res
         /\ segment \in [0 .. res -> BOOLEAN]
  BY DEF SearchTyped
<1>2. res \in Nat
  BY BoundsAssumption
<1>3. phase = "search" /\ upper - lower > 1 /\ segment' = segment
  BY DEF Bisect, Searching
<1>4. lower < upper /\ segment[lower] = FALSE /\ segment[upper] = TRUE
  BY <1>3 DEF Bracket
<1>5. Alpha \in 0 .. res /\ lower < Alpha /\ Alpha < upper
  BY <1>1, <1>2, <1>3 DEF Alpha
<1>6. segment[Alpha] \in BOOLEAN
  BY <1>1, <1>5
<1>7. CASE segment[Alpha]
  <2>1. lower' = lower /\ upper' = Alpha
    BY <1>7 DEF Bisect
  <2> QED
    BY <1>1, <1>3, <1>4, <1>5, <1>6, <1>7, <2>1 DEF SearchTyped, Bracket
<1>8. CASE ~segment[Alpha]
  <2>1. lower' = Alpha /\ upper' = upper
    BY <1>8 DEF Bisect
  <2> QED
    BY <1>1, <1>3, <1>4, <1>5, <1>6, <1>8, <2>1 DEF SearchTyped, Bracket
<1> QED
  BY <1>7, <1>8

(***************************************************************************)
(* The next sample, and the counter every sample starts with, are typed.   *)
(***************************************************************************)
LEMMA NextSampleTyped ==
  ASSUME ind \in Samples, NextSample
  PROVE  ind' \in Samples /\ phase' \in {"perturb", "idle"}
BY BoundsAssumption DEF Samples, NextSample

LEMMA InitInvariant == Init => IInv
<1> SUFFICES ASSUME Init PROVE IInv
  OBVIOUS
<1>1. /\ phase = "idle" /\ calls = 0 /\ ind = 1 /\ start = 0 /\ curr_iter = 0
      /\ trial = 0 /\ loops = 0 /\ current = FALSE
      /\ lower = 0 /\ upper = 1 /\ segment \in Segments(1, TRUE) /\ after = "iterate"
      /\ rung = 0 /\ ladder \in Ladders(TRUE)
      /\ x_adv = [s \in Samples |-> "original"]
  BY DEF Init
<1>2. SearchTyped
  BY <1>1 DEF SearchTyped, Segments
<1>3. ind \in Samples /\ trial \in 0 .. InitSize /\ loops \in 0 .. MaxIter /\ rung \in 0 .. Rungs
  BY <1>1, BoundsAssumption DEF Samples
<1>4. ladder \in [1 .. Rungs -> BOOLEAN]
  BY <1>1 DEF Ladders
<1>5. x_adv \in [Samples -> {"original", "adversarial", "clean"}] /\ NoCleanImage
  BY <1>1 DEF NoCleanImage
<1>6. TypeOK
  BY <1>1, <1>2, <1>3, <1>4, <1>5 DEF TypeOK, SearchTyped
<1> QED
  BY <1>1, <1>5, <1>6
     DEF IInv, Bracket, OnTheAdversarialSide, AtBoundary, CountsFromStart, CountsBeforeTheWalk,
           IterationLeft

LEMMA StepInvariant == IInv /\ [Next]_vars => IInv'
<1> SUFFICES ASSUME IInv, [Next]_vars PROVE IInv'
  OBVIOUS
<1>t. /\ phase \in {"idle", "perturb", "draw", "search", "step", "iterate"}
      /\ calls \in Nat /\ ind \in Samples
      /\ start \in Nat /\ curr_iter \in Nat
      /\ trial \in 0 .. InitSize /\ loops \in 0 .. MaxIter
      /\ current \in BOOLEAN /\ after \in {"iterate", "step"}
      /\ SearchTyped
      /\ rung \in 0 .. Rungs /\ ladder \in [1 .. Rungs -> BOOLEAN]
      /\ x_adv \in [Samples -> {"original", "adversarial", "clean"}]
  BY DEF IInv, TypeOK, SearchTyped
<1>i. /\ Bracket /\ OnTheAdversarialSide /\ AtBoundary
      /\ NoCleanImage /\ CountsFromStart /\ CountsBeforeTheWalk /\ IterationLeft
  BY DEF IInv
<1>b. /\ InitSize \in Nat \ {0} /\ MaxIter \in Nat /\ Rungs \in Nat \ {0}
  BY BoundsAssumption
<1>s. UNCHANGED search => SearchTyped'
  BY <1>t DEF search, SearchTyped
<1>1. CASE \E resume \in BOOLEAN : Call(resume)
  <2>1. PICK resume \in BOOLEAN : Call(resume)
    BY <1>1
  <2>2. /\ phase' = "perturb" /\ calls' = calls + 1 /\ ind' = 1
        /\ start' \in {curr_iter, 0}
        /\ x_adv' = [s \in Samples |-> "original"]
        /\ UNCHANGED <<curr_iter, trial, loops, current, search, step>>
    BY <2>1 DEF Call
  <2>3. ind' \in Samples /\ calls' \in Nat /\ start' \in Nat
    BY <1>t, <2>2, BoundsAssumption DEF Samples
  <2>4. x_adv' \in [Samples -> {"original", "adversarial", "clean"}] /\ NoCleanImage'
    BY <2>2 DEF NoCleanImage
  <2>5. TypeOK'
    BY <1>t, <1>s, <2>2, <2>3, <2>4 DEF TypeOK, SearchTyped, search, step
  <2> QED
    BY <2>2, <2>4, <2>5
       DEF IInv, Bracket, OnTheAdversarialSide, AtBoundary, CountsFromStart, CountsBeforeTheWalk,
           IterationLeft
<1>2. CASE Satisfied
  <2>1. /\ curr_iter' = start /\ NextSample
        /\ UNCHANGED <<calls, start, trial, loops, current, search, step, x_adv>>
    BY <1>2 DEF Satisfied, FirstIter
  <2>2. ind' \in Samples /\ phase' \in {"perturb", "idle"}
    BY <1>t, <2>1, NextSampleTyped
  <2>3. TypeOK'
    BY <1>t, <1>s, <2>1, <2>2 DEF TypeOK, SearchTyped, search, step
  <2> QED
    BY <1>i, <2>1, <2>2, <2>3
       DEF IInv, Bracket, OnTheAdversarialSide, AtBoundary, CountsFromStart,
           CountsBeforeTheWalk, NoCleanImage, IterationLeft
<1>3. CASE GivenInit
  <2>1. /\ curr_iter' = start /\ current' = TRUE /\ loops' = 0 /\ phase' = "iterate"
        /\ UNCHANGED <<calls, ind, start, trial, search, step, x_adv>>
    BY <1>3 DEF GivenInit, FirstIter
  <2>2. TypeOK'
    BY <1>t, <1>b, <1>s, <2>1 DEF TypeOK, SearchTyped, search, step
  <2> QED
    BY <1>t, <1>i, <2>1, <2>2
       DEF IInv, Bracket, OnTheAdversarialSide, AtBoundary, CountsFromStart,
           CountsBeforeTheWalk, NoCleanImage, IterationLeft
<1>4. CASE StartDraw
  <2>1. /\ curr_iter' = start /\ trial' = 0 /\ phase' = "draw"
        /\ UNCHANGED <<calls, ind, start, loops, current, search, step, x_adv>>
    BY <1>4 DEF StartDraw, FirstIter
  <2>2. TypeOK'
    BY <1>t, <1>b, <1>s, <2>1 DEF TypeOK, SearchTyped, search, step
  <2> QED
    BY <1>i, <2>1, <2>2
       DEF IInv, Bracket, OnTheAdversarialSide, AtBoundary, CountsFromStart,
           CountsBeforeTheWalk, NoCleanImage, IterationLeft
<1>5. CASE DrawMiss
  <2>1. /\ phase = "draw" /\ trial < InitSize /\ trial' = trial + 1
        /\ UNCHANGED <<phase, calls, ind, start, curr_iter, loops, current, search, step, x_adv>>
    BY <1>5 DEF DrawMiss, Drawing
  <2>2. trial' \in 0 .. InitSize
    BY <1>t, <1>b, <2>1
  <2>3. TypeOK'
    BY <1>t, <1>s, <2>1, <2>2 DEF TypeOK, SearchTyped, search, step
  <2> QED
    BY <1>i, <2>1, <2>3
       DEF IInv, Bracket, OnTheAdversarialSide, AtBoundary, CountsFromStart,
           CountsBeforeTheWalk, NoCleanImage, IterationLeft
<1>6. CASE DrawFail
  <2>1. /\ NextSample
        /\ UNCHANGED <<calls, start, curr_iter, trial, loops, current, search, step, x_adv>>
    BY <1>6 DEF DrawFail
  <2>2. ind' \in Samples /\ phase' \in {"perturb", "idle"}
    BY <1>t, <2>1, NextSampleTyped
  <2>3. TypeOK'
    BY <1>t, <1>s, <2>1, <2>2 DEF TypeOK, SearchTyped, search, step
  <2> QED
    BY <1>i, <2>1, <2>2, <2>3
       DEF IInv, Bracket, OnTheAdversarialSide, AtBoundary, CountsFromStart,
           CountsBeforeTheWalk, NoCleanImage, IterationLeft
<1>7. CASE DrawHit
  <2>1. /\ phase = "draw" /\ current' = TRUE /\ loops' = 0
        /\ StartSearch(InitRes, TRUE, "iterate")
        /\ UNCHANGED <<calls, ind, start, curr_iter, trial, step, x_adv>>
    BY <1>7 DEF DrawHit
  <2>2. SearchTyped' /\ Bracket'
    BY <2>1, StartsBracketed
  <2>3. phase' = "search" /\ after' = "iterate"
    BY <2>1 DEF StartSearch
  <2>4. curr_iter' = start' + loops'
    BY <1>t, <1>i, <2>1 DEF CountsBeforeTheWalk
  <2>5. TypeOK'
    BY <1>t, <1>b, <2>1, <2>2, <2>3 DEF TypeOK, SearchTyped, step
  <2> QED
    BY <1>i, <2>1, <2>2, <2>3, <2>4, <2>5
       DEF IInv, OnTheAdversarialSide, AtBoundary, CountsFromStart,
           CountsBeforeTheWalk, NoCleanImage, IterationLeft
<1>8. CASE Bisect
  <2>1. /\ phase = "search"
        /\ UNCHANGED <<phase, calls, ind, start, curr_iter, trial, loops, current,
                       segment, after, step, x_adv>>
    BY <1>8 DEF Bisect
  <2>2. SearchTyped' /\ Bracket'
    BY <1>t, <1>i, <1>8, HalvingKeepsTheBracket
  <2>3. TypeOK'
    BY <1>t, <2>1, <2>2 DEF TypeOK, SearchTyped, step
  <2> QED
    BY <1>i, <2>1, <2>2, <2>3
       DEF IInv, OnTheAdversarialSide, AtBoundary, CountsFromStart,
           CountsBeforeTheWalk, NoCleanImage, IterationLeft
<1>9. CASE SearchEnd
  <2>1. /\ phase = "search" /\ ~(upper - lower > 1)
        /\ current' = segment[upper] /\ phase' = after /\ rung' = 0
        /\ ladder' \in Ladders(current')
        /\ UNCHANGED <<calls, ind, start, curr_iter, trial, loops, search, x_adv>>
    BY <1>9 DEF SearchEnd, Searching, Boundary
  <2>2. lower < upper /\ segment[lower] = FALSE /\ segment[upper] = TRUE
    BY <1>i, <2>1 DEF Bracket
  <2>3. lower \in Int /\ upper \in Int
    BY <1>t, BoundsAssumption DEF SearchTyped
  <2>4. upper = lower + 1
    BY <2>1, <2>2, <2>3
  <2>5. current' = TRUE
    BY <2>1, <2>2
  <2>6. ladder' \in [1 .. Rungs -> BOOLEAN] /\ rung' \in 0 .. Rungs
    BY <1>b, <2>1 DEF Ladders
  <2>7. /\ AtBoundary' /\ Bracket' /\ OnTheAdversarialSide'
    BY <1>t, <2>1, <2>2, <2>4, <2>5 DEF AtBoundary, Bracket, OnTheAdversarialSide, search
  <2>8. TypeOK'
    BY <1>t, <1>s, <2>1, <2>5, <2>6 DEF TypeOK, SearchTyped, search
  <2> QED
    BY <1>t, <1>i, <2>1, <2>7, <2>8
       DEF IInv, CountsFromStart, CountsBeforeTheWalk, NoCleanImage, IterationLeft
<1>10. CASE Iterate
  <2>1. /\ phase = "iterate" /\ loops < MaxIter /\ StartSearch(Res, current, "step")
        /\ UNCHANGED <<calls, ind, start, curr_iter, trial, loops, current, step, x_adv>>
    BY <1>10 DEF Iterate
  <2>2. current = TRUE
    BY <1>i, <2>1 DEF OnTheAdversarialSide
  <2>3. SearchTyped' /\ Bracket'
    BY <2>1, <2>2, StartsBracketed
  <2>4. phase' = "search" /\ after' = "step"
    BY <2>1 DEF StartSearch
  <2>5. TypeOK'
    BY <1>t, <2>1, <2>3, <2>4 DEF TypeOK, SearchTyped, step
  <2> QED
    BY <1>i, <2>1, <2>2, <2>3, <2>4, <2>5
       DEF IInv, OnTheAdversarialSide, AtBoundary, CountsFromStart,
           CountsBeforeTheWalk, NoCleanImage, IterationLeft
<1>11. CASE Finish
  <2>1. /\ phase = "iterate" /\ NextSample
        /\ x_adv' = [x_adv EXCEPT ![ind] = IF current THEN "adversarial" ELSE "clean"]
        /\ UNCHANGED <<calls, start, curr_iter, trial, loops, current, search, step>>
    BY <1>11 DEF Finish
  <2>2. current = TRUE
    BY <1>i, <2>1 DEF OnTheAdversarialSide
  <2>3. x_adv' = [x_adv EXCEPT ![ind] = "adversarial"]
    BY <2>1, <2>2
  <2>4. x_adv' \in [Samples -> {"original", "adversarial", "clean"}] /\ NoCleanImage'
    BY <1>t, <1>i, <2>3 DEF NoCleanImage
  <2>5. ind' \in Samples /\ phase' \in {"perturb", "idle"}
    BY <1>t, <2>1, NextSampleTyped
  <2>6. TypeOK'
    BY <1>t, <1>s, <2>1, <2>4, <2>5 DEF TypeOK, SearchTyped, search, step
  <2> QED
    BY <2>4, <2>5, <2>6
       DEF IInv, Bracket, OnTheAdversarialSide, AtBoundary, CountsFromStart, CountsBeforeTheWalk,
           IterationLeft
<1>12. CASE StepMiss
  <2>1. /\ phase = "step" /\ rung + 1 <= Rungs /\ rung' = rung + 1
        /\ UNCHANGED <<phase, calls, ind, start, curr_iter, trial, loops, current, search,
                       ladder, x_adv>>
    BY <1>12 DEF StepMiss, NextRung
  <2>2. rung' \in 0 .. Rungs
    BY <1>t, <1>b, <2>1
  <2>3. TypeOK'
    BY <1>t, <1>s, <2>1, <2>2 DEF TypeOK, SearchTyped, search
  <2> QED
    BY <1>i, <2>1, <2>3
       DEF IInv, Bracket, OnTheAdversarialSide, AtBoundary, CountsFromStart,
           CountsBeforeTheWalk, NoCleanImage, IterationLeft, search
<1>13. CASE StepHit
  <2>1. /\ phase = "step" /\ rung + 1 <= Rungs /\ ladder[rung + 1] /\ rung' = rung + 1
        /\ current' = ladder[rung + 1]
        /\ curr_iter' = curr_iter + 1 /\ loops' = loops + 1 /\ phase' = "iterate"
        /\ UNCHANGED <<calls, ind, start, trial, search, ladder, x_adv>>
    BY <1>13 DEF StepHit, NextRung, Success
  <2>2. rung' \in 0 .. Rungs /\ rung + 1 \in 1 .. Rungs
    BY <1>t, <1>b, <2>1
  <2>3. ladder[rung + 1] \in BOOLEAN
    BY <1>t, <2>2
  <2>4. current' = TRUE
    BY <2>1, <2>3
  <2>5. curr_iter' = start' + loops' /\ curr_iter' \in Nat
    BY <1>t, <1>b, <1>i, <2>1 DEF CountsFromStart
  <2>6. loops' \in 0 .. MaxIter
    BY <1>t, <1>b, <1>i, <2>1 DEF IterationLeft
  <2>7. TypeOK'
    BY <1>t, <1>s, <2>1, <2>2, <2>4, <2>5, <2>6 DEF TypeOK, SearchTyped, search
  <2> QED
    BY <1>i, <2>1, <2>4, <2>5, <2>7
       DEF IInv, Bracket, OnTheAdversarialSide, AtBoundary, CountsFromStart,
           CountsBeforeTheWalk, NoCleanImage, IterationLeft
<1>14. CASE StepNaN
  <2>1. /\ curr_iter' = curr_iter + 1 /\ NextSample
        /\ UNCHANGED <<calls, start, trial, loops, current, search, step, x_adv>>
    BY <1>14 DEF StepNaN
  <2>2. ind' \in Samples /\ phase' \in {"perturb", "idle"} /\ curr_iter' \in Nat
    BY <1>t, <2>1, NextSampleTyped
  <2>3. TypeOK'
    BY <1>t, <1>s, <2>1, <2>2 DEF TypeOK, SearchTyped, search, step
  <2> QED
    BY <1>i, <2>1, <2>2, <2>3
       DEF IInv, Bracket, OnTheAdversarialSide, AtBoundary, CountsFromStart,
           CountsBeforeTheWalk, NoCleanImage, IterationLeft
<1>15. CASE UNCHANGED vars
  BY <1>15 DEF IInv, TypeOK, Bracket, OnTheAdversarialSide, AtBoundary, CountsFromStart,
               CountsBeforeTheWalk, NoCleanImage, IterationLeft, vars, search, step
<1> QED
  BY <1>1, <1>2, <1>3, <1>4, <1>5, <1>6, <1>7, <1>8, <1>9, <1>10, <1>11, <1>12, <1>13,
     <1>14, <1>15 DEF Next, Work, NoMoreCalls

(***************************************************************************)
(* The invariant holds of every behaviour.                                 *)
(***************************************************************************)
THEOREM Invariant == Spec => []IInv
BY InitInvariant, StepInvariant, PTL DEF Spec

(***************************************************************************)
(* The variables of the attack keep their types.                           *)
(***************************************************************************)
THEOREM TypeCorrect == Spec => []TypeOK
<1>1. IInv => TypeOK
  BY DEF IInv
<1> QED
  BY Invariant, <1>1, PTL

(***************************************************************************)
(* The walk stays on the adversarial side, whatever the model answers.     *)
(***************************************************************************)
THEOREM CurrentIsAdversarialAlways == Spec => []CurrentIsAdversarial
<1>1. IInv => CurrentIsAdversarial
  BY DEF IInv, CurrentIsAdversarial, OnTheAdversarialSide, Bracket
<1> QED
  BY Invariant, <1>1, PTL

(***************************************************************************)
(* generate hands back nothing but originals and adversarial images.       *)
(***************************************************************************)
THEOREM NoCleanImageAlways == Spec => []NoCleanImage
<1>1. IInv => NoCleanImage
  BY DEF IInv
<1> QED
  BY Invariant, <1>1, PTL

(***************************************************************************)
(* Every search ends within its threshold of the boundary.                 *)
(***************************************************************************)
THEOREM AtBoundaryAlways == Spec => []AtBoundary
<1>1. IInv => AtBoundary
  BY DEF IInv
<1> QED
  BY Invariant, <1>1, PTL

(***************************************************************************)
(* Every sample counts its iterations from the start of its call.          *)
(***************************************************************************)
THEOREM CountsFromStartAlways == Spec => []CountsFromStart
<1>1. IInv => CountsFromStart
  BY DEF IInv
<1> QED
  BY Invariant, <1>1, PTL
=============================================================================
