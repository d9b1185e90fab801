--------------------------- MODULE ThrottleProofs ---------------------------
(***************************************************************************)
(* What the throttle guarantees for every number of windows, every length  *)
(* and every limit, a limit of zero included.                              *)
(***************************************************************************)
EXTENDS Throttle, TLAPS

(* The requests counted in a window are the last used[w] ones; all of them *)
(* came at or after its start, all the earlier ones at or before it.       *)
Counted ==
  /\ \A i \in 1..Len(times) : times[i] <= now
  /\ \A w \in Window :
       /\ used[w] <= Len(times)
       /\ since[w] <= now
       /\ \A i \in 1..Len(times) :
            /\ i > Len(times) - used[w] => times[i] >= since[w]
            /\ i <= Len(times) - used[w] => times[i] <= since[w]

(* A limited window never counts more than its limit; a request that has   *)
(* a whole limit's worth of others between it and the window is older than *)
(* the window by a full length.                                            *)
Spaced ==
  \A w \in Limited :
    /\ used[w] <= Limit[w]
    /\ \A i \in 1..Len(times) :
         i <= Len(times) - used[w] - Limit[w] => times[i] + Length[w] <= since[w]

(* Where the last refusal stands: in the past, at the latest at the last   *)
(* admission; before the reported delay is over its window is neither due  *)
(* nor below its limit.                                                    *)
RefusalPlaced ==
  LET w == refusal.window IN
  IF w = 0 THEN refusal.ready = 0 ELSE
    /\ w \in Limited
    /\ refusal.after <= Len(times)
    /\ now < refusal.ready =>
         since[w] + Length[w] = refusal.ready /\ used[w] >= Limit[w]

IInv == TypeOK /\ Counted /\ Spaced /\ SlidingBound /\ RefusalJustified /\ RefusalPlaced
-----------------------------------------------------------------------------
(* What reset_if_needed leaves behind, of whatever the counters were.      *)
LEMMA ResetFacts ==
  ASSUME IInv
  PROVE  /\ UsedNow \in [Window -> Nat]
         /\ SinceNow \in [Window -> Nat]
         /\ \A w \in Window :
              /\ UsedNow[w] <= Len(times)
              /\ SinceNow[w] <= now
              /\ now - SinceNow[w] < Length[w]
              /\ \A i \in 1..Len(times) :
                   /\ i > Len(times) - UsedNow[w] => times[i] >= SinceNow[w]
                   /\ i <= Len(times) - UsedNow[w] => times[i] <= SinceNow[w]
         /\ \A w \in Limited :
              /\ UsedNow[w] <= Limit[w]
              /\ \A i \in 1..Len(times) :
                   i <= Len(times) - UsedNow[w] - Limit[w]
                     => times[i] + Length[w] <= SinceNow[w]
<1>1. /\ now \in Nat /\ used \in [Window -> Nat] /\ since \in [Window -> Nat]
      /\ Len(times) \in Nat /\ \A i \in 1..Len(times) : times[i] \in Nat
      /\ Length \in [Window -> Nat \ {0}] /\ Limited \subseteq Window
      /\ Limit \in [Limited -> Nat]
  BY WindowAssumption DEF IInv, TypeOK
<1>2. UsedNow \in [Window -> Nat] /\ SinceNow \in [Window -> Nat]
  BY <1>1 DEF UsedNow, SinceNow
<1>3. ASSUME NEW w \in Window
      PROVE  /\ UsedNow[w] <= Len(times)
             /\ SinceNow[w] <= now
             /\ now - SinceNow[w] < Length[w]
             /\ \A i \in 1..Len(times) :
                  /\ i > Len(times) - UsedNow[w] => times[i] >= SinceNow[w]
                  /\ i <= Len(times) - UsedNow[w] => times[i] <= SinceNow[w]
  <2>1. /\ used[w] \in Nat /\ since[w] \in Nat /\ Length[w] \in Nat \ {0}
        /\ used[w] <= Len(times) /\ since[w] <= now
        /\ \A i \in 1..Len(times) :
             /\ times[i] <= now
             /\ i > Len(times) - used[w] => times[i] >= since[w]
             /\ i <= Len(times) - used[w] => times[i] <= since[w]
    BY <1>1 DEF IInv, Counted
  <2>2. CASE Due(w)
    BY <1>1, <2>1, <2>2 DEF UsedNow, SinceNow
  <2>3. CASE ~Due(w)
    BY <1>1, <2>1, <2>3 DEF UsedNow, SinceNow, Due
  <2> QED BY <2>2, <2>3
<1>4. ASSUME NEW w \in Limited
      PROVE  /\ UsedNow[w] <= Limit[w]
             /\ \A i \in 1..Len(times) :
                  i <= Len(times) - UsedNow[w] - Limit[w]
                    => times[i] + Length[w] <= SinceNow[w]
  <2>1. /\ w \in Window /\ Limit[w] \in Nat
        /\ used[w] \in Nat /\ since[w] \in Nat /\ Length[w] \in Nat \ {0}
        /\ used[w] <= Limit[w]
        /\ \A i \in 1..Len(times) :
             /\ i <= Len(times) - used[w] => times[i] <= since[w]
             /\ i <= Len(times) - used[w] - Limit[w]
                  => times[i] + Length[w] <= since[w]
    BY <1>1 DEF IInv, Counted, Spaced
  <2>2. CASE Due(w)
    <3>1. UsedNow[w] = 0 /\ SinceNow[w] = now /\ since[w] + Length[w] <= now
      BY <1>1, <2>1, <2>2 DEF UsedNow, SinceNow, Due
    <3>2. ASSUME NEW i \in 1..Len(times), i <= Len(times) - 0 - Limit[w]
          PROVE  times[i] + Length[w] <= now
      <4>1. times[i] <= since[w]
        BY <1>1, <2>1, <3>2
      <4> QED BY <1>1, <2>1, <3>1, <4>1
    <3> QED BY <2>1, <3>1, <3>2
  <2>3. CASE ~Due(w)
    BY <1>1, <2>1, <2>3 DEF UsedNow, SinceNow
  <2> QED BY <2>2, <2>3
<1> QED BY <1>2, <1>3, <1>4

(* A reset does not disturb a refusal whose delay is not over.             *)
LEMMA ResetKeepsRefusal ==
  ASSUME IInv, refusal.window # 0, now < refusal.ready
  PROVE  /\ SinceNow[refusal.window] + Length[refusal.window] = refusal.ready
         /\ UsedNow[refusal.window] >= Limit[refusal.window]
         /\ Full(refusal.window)
<1> DEFINE w == refusal.window
<1>1. /\ w \in Limited /\ w \in Window
      /\ since[w] + Length[w] = refusal.ready /\ used[w] >= Limit[w]
  BY WindowAssumption DEF IInv, RefusalPlaced
<1>2. now \in Nat /\ since[w] \in Nat /\ Length[w] \in Nat /\ refusal.ready \in Nat
  BY <1>1, WindowAssumption DEF IInv, TypeOK, Refusal
<1>3. ~Due(w)
  BY <1>1, <1>2 DEF Due
<1> QED BY <1>1, <1>3 DEF UsedNow, SinceNow, Full

(* The initial state satisfies the invariant.                              *)
LEMMA InitHolds == Init => IInv
<1> SUFFICES ASSUME Init PROVE IInv
  OBVIOUS
<1>1. Len(times) = 0
  BY DEF Init
<1>2. TypeOK
  BY DEF Init, TypeOK, Refusal
<1>3. Counted /\ Spaced
  BY <1>1, WindowAssumption DEF Init, Counted, Spaced
<1>4. SlidingBound
  BY <1>1 DEF SlidingBound
<1>5. RefusalJustified /\ RefusalPlaced
  BY DEF Init, RefusalJustified, RefusalPlaced
<1> QED BY <1>2, <1>3, <1>4, <1>5 DEF IInv

(* Time passes.                                                            *)
LEMMA TickPreserves == IInv /\ Tick => IInv'
<1> SUFFICES ASSUME IInv, Tick PROVE IInv'
  OBVIOUS
<1>1. /\ now \in Nat /\ now' = now + 1
      /\ used' = used /\ since' = since /\ times' = times /\ refusal' = refusal
  BY DEF IInv, TypeOK, Tick
<1>2. TypeOK'
  BY <1>1 DEF IInv, TypeOK
<1>3. Counted'
  <2>1. /\ since \in [Window -> Nat] /\ used \in [Window -> Nat]
        /\ Len(times) \in Nat /\ \A i \in 1..Len(times) : times[i] \in Nat
    BY DEF IInv, TypeOK
  <2> QED BY <1>1, <2>1 DEF IInv, Counted
<1>4. Spaced'
  BY <1>1 DEF IInv, Spaced
<1>5. SlidingBound' /\ RefusalJustified'
  BY <1>1 DEF IInv, SlidingBound, RefusalJustified
<1>6. RefusalPlaced'
  <2>1. refusal.ready \in Nat
    BY DEF IInv, TypeOK, Refusal
  <2> QED BY <1>1, <2>1 DEF IInv, RefusalPlaced
<1> QED BY <1>2, <1>3, <1>4, <1>5, <1>6 DEF IInv

(* A usage poll.                                                           *)
LEMMA UsagePreserves == IInv /\ Usage => IInv'
<1> SUFFICES ASSUME IInv, Usage PROVE IInv'
  OBVIOUS
<1>1. /\ used' = UsedNow /\ since' = SinceNow
      /\ now' = now /\ times' = times /\ refusal' = refusal
  BY DEF Usage
<1>2. TypeOK'
  BY <1>1, ResetFacts DEF IInv, TypeOK
<1>3. Counted'
  BY <1>1, ResetFacts DEF IInv, Counted
<1>4. Spaced'
  BY <1>1, ResetFacts DEF Spaced
<1>5. SlidingBound' /\ RefusalJustified'
  BY <1>1 DEF IInv, SlidingBound, RefusalJustified
<1>6. RefusalPlaced'
  BY <1>1, ResetKeepsRefusal DEF IInv, RefusalPlaced
<1> QED BY <1>2, <1>3, <1>4, <1>5, <1>6 DEF IInv

(* A request is refused: what the refusal records is what the counters say.*)
LEMMA RefusePreserves ==
  ASSUME IInv, NEW w \in Window, NEW later \in now..MaxTime, Refuse(w, later)
  PROVE  IInv'
<1>1. /\ used' = UsedNow /\ since' = SinceNow /\ now' = later /\ times' = times
      /\ Full(w) /\ w \in Limited /\ UsedNow[w] >= Limit[w]
      /\ refusal' = [at |-> now, window |-> w, delay |-> Delay(w, later),
                     ready |-> later + Delay(w, later), after |-> Len(times)]
  BY DEF Refuse, Refusing, Full
<1>2. /\ now \in Nat /\ later \in Nat /\ later >= now
      /\ Len(times) \in Nat /\ \A i \in 1..Len(times) : times[i] \in Nat
      /\ Length[w] \in Nat /\ Limit[w] \in Nat /\ SinceNow[w] \in Nat
      /\ UsedNow[w] \in Nat
  <2>1. now \in Nat /\ MaxTime \in Nat
    BY WindowAssumption DEF IInv, TypeOK
  <2> QED BY <1>1, <2>1, ResetFacts, WindowAssumption DEF IInv, TypeOK
<1>3. /\ Delay(w, later) \in Nat
      /\ SinceNow[w] <= now
      /\ Delay(w, later) # 0 => later + Delay(w, later) = SinceNow[w] + Length[w]
  <2>1. SinceNow[w] <= now
    BY ResetFacts
  <2> QED BY <1>2, <2>1 DEF Delay
<1>4. TypeOK'
  <2>1. refusal' \in Refusal
    BY <1>1, <1>2, <1>3 DEF Refusal, Window
  <2> QED BY <1>1, <1>2, <2>1, ResetFacts DEF IInv, TypeOK
<1>5. Counted'
  <2> SUFFICES ASSUME NEW v \in Window
               PROVE  /\ UsedNow[v] <= Len(times)
                      /\ SinceNow[v] <= later
                      /\ \A i \in 1..Len(times) :
                           /\ i > Len(times) - UsedNow[v] => times[i] >= SinceNow[v]
                           /\ i <= Len(times) - UsedNow[v] => times[i] <= SinceNow[v]
    <3>1. \A i \in 1..Len(times) : times[i] <= later
      BY <1>2 DEF IInv, Counted
    <3> QED BY <1>1, <3>1 DEF Counted
  <2>2. SinceNow[v] \in Nat
    BY ResetFacts
  <2> QED BY <1>2, <2>2, ResetFacts
<1>6. Spaced'
  BY <1>1, ResetFacts DEF Spaced
<1>7. SlidingBound'
  BY <1>1 DEF IInv, SlidingBound
<1>8. RefusalJustified'
  <2>1. Len(times) >= Limit[w]
    BY <1>1, <1>2, ResetFacts
  <2>2. ASSUME NEW i \in (Len(times) - Limit[w] + 1)..Len(times)
        PROVE  now - times[i] < Length[w]
    <3>1. i \in 1..Len(times) /\ i > Len(times) - UsedNow[w]
      BY <1>1, <1>2, <2>1
    <3>2. times[i] >= SinceNow[w] /\ now - SinceNow[w] < Length[w]
      BY <3>1, ResetFacts
    <3> QED BY <1>2, <3>1, <3>2
  <2>3. /\ refusal'.window = w /\ refusal'.at = now /\ refusal'.after = Len(times)
    BY <1>1
  <2> QED BY <1>1, <2>1, <2>2, <2>3 DEF RefusalJustified
<1>9. RefusalPlaced'
  <2>1. /\ refusal'.window = w /\ refusal'.after = Len(times)
        /\ refusal'.ready = later + Delay(w, later)
    BY <1>1
  <2>2. later < later + Delay(w, later) => Delay(w, later) # 0
    BY <1>2, <1>3
  <2>3. refusal'.window # 0
    BY <2>1, WindowAssumption DEF Window
  <2>4. later < later + Delay(w, later) =>
          since'[w] + Length[w] = later + Delay(w, later) /\ used'[w] >= Limit[w]
    BY <1>1, <1>3, <2>2
  <2>5. refusal'.after <= Len(times')
    BY <1>1, <1>2, <2>1
  <2> QED BY <1>1, <2>1, <2>3, <2>4, <2>5 DEF RefusalPlaced
<1> QED BY <1>4, <1>5, <1>6, <1>7, <1>8, <1>9 DEF IInv

(* A request is admitted: only the bound over any stretch needs an         *)
(* argument, that the window before the current one lies in between.       *)
LEMMA AdmitPreserves == IInv /\ Admit => IInv'
<1> SUFFICES ASSUME IInv, Admit PROVE IInv'
  OBVIOUS
<1> DEFINE n == Len(times)
<1>1. /\ used' = [w \in Window |-> UsedNow[w] + 1] /\ since' = SinceNow
      /\ now' = now /\ times' = Append(times, now) /\ refusal' = refusal
      /\ \A w \in Window : ~Full(w)
  BY DEF Admit
<1>2. /\ now \in Nat /\ times \in Seq(Nat) /\ n \in Nat
      /\ \A i \in 1..n : times[i] \in Nat /\ times[i] <= now
  <2> QED BY DEF IInv, TypeOK, Counted
<1>2a. UsedNow \in [Window -> Nat] /\ SinceNow \in [Window -> Nat]
  BY ResetFacts
<1>3. /\ Len(times') = n + 1 /\ times'[n + 1] = now
      /\ \A i \in 1..n : times'[i] = times[i]
  BY <1>1, <1>2
<1>4. TypeOK'
  BY <1>1, <1>2, <1>2a DEF IInv, TypeOK
<1>5. Counted'
  <2>1. ASSUME NEW i \in 1..(n + 1) PROVE times'[i] <= now
    BY <1>2, <1>3, <2>1
  <2>2. ASSUME NEW w \in Window
        PROVE  /\ used'[w] <= n + 1
               /\ since'[w] <= now
               /\ \A i \in 1..(n + 1) :
                    /\ i > (n + 1) - used'[w] => times'[i] >= since'[w]
                    /\ i <= (n + 1) - used'[w] => times'[i] <= since'[w]
    <3>1. /\ used'[w] = UsedNow[w] + 1 /\ since'[w] = SinceNow[w]
          /\ UsedNow[w] \in Nat /\ SinceNow[w] \in Nat
          /\ UsedNow[w] <= n /\ SinceNow[w] <= now
          /\ \A i \in 1..n :
               /\ i > n - UsedNow[w] => times[i] >= SinceNow[w]
               /\ i <= n - UsedNow[w] => times[i] <= SinceNow[w]
      BY <1>1, <1>2a, ResetFacts
    <3>2. ASSUME NEW i \in 1..(n + 1)
          PROVE  /\ i > (n + 1) - used'[w] => times'[i] >= since'[w]
                 /\ i <= (n + 1) - used'[w] => times'[i] <= since'[w]
      <4>1. CASE i \in 1..n
        <5>1. times'[i] = times[i]
          BY <1>3, <4>1
        <5> QED BY <1>2, <3>1, <4>1, <5>1
      <4>2. CASE i = n + 1
        BY <1>2, <1>3, <3>1, <4>2
      <4> QED BY <1>2, <4>1, <4>2
    <3> HIDE DEF n
    <3> QED BY <1>2, <3>1, <3>2
  <2> QED BY <1>1, <1>3, <2>1, <2>2 DEF Counted
<1>6. ASSUME NEW w \in Limited
      PROVE  /\ w \in Window /\ Limit[w] \in Nat /\ Length[w] \in Nat
             /\ used'[w] = UsedNow[w] + 1 /\ since'[w] = SinceNow[w]
             /\ UsedNow[w] \in Nat /\ SinceNow[w] \in Nat
             /\ UsedNow[w] < Limit[w] /\ SinceNow[w] <= now
             /\ \A i \in 1..n :
                  i <= n - UsedNow[w] - Limit[w] => times[i] + Length[w] <= SinceNow[w]
  <2>1. w \in Window /\ Limit[w] \in Nat /\ Length[w] \in Nat
    BY WindowAssumption
  <2>2. ~(UsedNow[w] >= Limit[w])
    BY <1>1, <2>1 DEF Full
  <2>3. /\ UsedNow[w] \in Nat /\ SinceNow[w] \in Nat
        /\ used'[w] = UsedNow[w] + 1 /\ since'[w] = SinceNow[w]
    BY <1>1, <1>2a, <2>1
  <2>4. SinceNow[w] <= now
    BY <2>1, ResetFacts
  <2>5. \A i \in 1..n :
          i <= n - UsedNow[w] - Limit[w] => times[i] + Length[w] <= SinceNow[w]
    BY ResetFacts
  <2> QED BY <2>1, <2>2, <2>3, <2>4, <2>5
<1>7. Spaced'
  <2> SUFFICES ASSUME NEW w \in Limited
               PROVE  /\ used'[w] <= Limit[w]
                      /\ \A i \in 1..(n + 1) :
                           i <= (n + 1) - used'[w] - Limit[w]
                             => times'[i] + Length[w] <= since'[w]
    BY <1>3 DEF Spaced
  <2>1. used'[w] <= Limit[w]
    BY <1>6
  <2>2. ASSUME NEW i \in 1..(n + 1), i <= (n + 1) - used'[w] - Limit[w]
        PROVE  times'[i] + Length[w] <= since'[w]
    <3>1. i \in 1..n /\ i <= n - UsedNow[w] - Limit[w]
      BY <1>2, <1>6, <2>2
    <3> QED BY <1>3, <1>6, <3>1
  <2> QED BY <2>1, <2>2
<1>8. SlidingBound'
  <2> SUFFICES ASSUME NEW w \in Limited, NEW i \in 1..(n + 1), NEW j \in 1..(n + 1),
                      j - i >= 2 * Limit[w]
               PROVE  times'[j] - times'[i] >= Length[w]
    BY <1>3 DEF SlidingBound
  <2>1. i \in 1..n /\ i < j
    BY <1>2, <1>6
  <2>2. CASE j \in 1..n
    <3>1. times[j] - times[i] >= Length[w]
      BY <2>1, <2>2 DEF IInv, SlidingBound
    <3> QED BY <1>3, <2>1, <2>2, <3>1
  <2>3. CASE j = n + 1
    <3>1. i <= n - UsedNow[w] - Limit[w]
      BY <1>2, <1>6, <2>1, <2>3
    <3>2. times[i] + Length[w] <= SinceNow[w] /\ SinceNow[w] <= now
      BY <1>6, <2>1, <3>1
    <3>3. times'[j] = now /\ times'[i] = times[i] /\ times[i] \in Nat
      BY <1>2, <1>3, <2>1, <2>3
    <3>4. now \in Nat /\ SinceNow[w] \in Nat /\ Length[w] \in Nat
      BY <1>2, <1>6, WindowAssumption DEF IInv, TypeOK
    <3>5. now - times[i] >= Length[w]
      BY <3>2, <3>3, <3>4
    <3> QED BY <3>3, <3>5
  <2> QED BY <1>2, <2>2, <2>3
<1>9. RefusalJustified' /\ RefusalPlaced'
  <2> SUFFICES ASSUME refusal.window # 0
               PROVE  RefusalJustified' /\ RefusalPlaced'
    BY <1>1 DEF IInv, RefusalJustified, RefusalPlaced
  <2>1. /\ refusal.window \in Limited /\ refusal.after \in Nat /\ refusal.after <= n
        /\ Limit[refusal.window] \in Nat
    BY WindowAssumption DEF IInv, TypeOK, Refusal, RefusalPlaced
  <2>2. ~(now < refusal.ready)
    <3>1. refusal.window \in Window
      BY <2>1, WindowAssumption
    <3> QED BY <1>1, <3>1, ResetKeepsRefusal
  <2>3. RefusalPlaced'
    BY <1>1, <1>2, <1>3, <2>1, <2>2 DEF RefusalPlaced
  <2>4. ASSUME NEW i \in (refusal.after - Limit[refusal.window] + 1)..refusal.after,
               refusal.after >= Limit[refusal.window]
        PROVE  times'[i] = times[i]
    BY <1>2, <1>3, <2>1, <2>4
  <2> QED BY <1>1, <2>3, <2>4 DEF IInv, RefusalJustified
<1> QED BY <1>4, <1>5, <1>7, <1>8, <1>9 DEF IInv

(* The invariant is inductive.                                             *)
LEMMA StepPreserves == IInv /\ [Next]_vars => IInv'
<1> SUFFICES ASSUME IInv, [Next]_vars PROVE IInv'
  OBVIOUS
<1>1. CASE Tick
  BY <1>1, TickPreserves
<1>2. CASE Admit
  BY <1>2, AdmitPreserves
<1>3. CASE Usage
  BY <1>3, UsagePreserves
<1>4. CASE \E w \in Window, later \in now..MaxTime : Refuse(w, later)
  BY <1>4, RefusePreserves
<1>5. CASE UNCHANGED vars
  BY <1>5 DEF vars, IInv, TypeOK, Counted, Spaced, SlidingBound,
              RefusalJustified, RefusalPlaced
<1> QED BY <1>1, <1>2, <1>3, <1>4, <1>5 DEF Next
-----------------------------------------------------------------------------
(* The inductive invariant holds throughout.                               *)
LEMMA Invariance == Spec => []IInv
<1> QED BY InitHolds, StepPreserves, PTL DEF Spec

(* For any windows and limits: in any stretch shorter than a window's      *)
(* length at most twice its limit is admitted (try_acquire).               *)
THEOREM BurstsAreBounded == Spec => []SlidingBound
<1>1. IInv => SlidingBound
  BY DEF IInv
<1> QED BY <1>1, Invariance, PTL

(* For any windows and limits: whoever is refused came within a window's   *)
(* length of as many admissions as the limit allows (should_throttle).     *)
THEOREM RefusalsAreDeserved == Spec => []RefusalJustified
<1>1. IInv => RefusalJustified
  BY DEF IInv
<1> QED BY <1>1, Invariance, PTL

(* For any windows and limits: nobody is admitted before the reported      *)
(* delay is over (ThrottleResult.delay), so it is never too long.          *)
THEOREM DelaysAreNeeded == Spec => NoEarlyAdmission
<1>1. ASSUME IInv, [Next]_vars
      PROVE  [times' # times => now >= refusal.ready]_vars
  <2> SUFFICES ASSUME times' # times PROVE now >= refusal.ready
    OBVIOUS
  <2>1. Admit
    BY <1>1 DEF Next, Tick, Usage, Refuse, vars
  <2>2. now \in Nat /\ refusal.ready \in Nat
    BY <1>1 DEF IInv, TypeOK, Refusal
  <2>3. CASE refusal.window = 0
    BY <1>1, <2>2, <2>3 DEF IInv, RefusalPlaced
  <2>4. CASE refusal.window # 0
    <3>1. refusal.window \in Window
      BY <1>1, <2>4, WindowAssumption DEF IInv, RefusalPlaced
    <3>2. ~Full(refusal.window)
      BY <2>1, <3>1 DEF Admit
    <3> QED BY <1>1, <2>2, <2>4, <3>2, ResetKeepsRefusal
  <2> QED BY <2>3, <2>4
<1> QED BY <1>1, Invariance, PTL DEF Spec, NoEarlyAdmission
=============================================================================
