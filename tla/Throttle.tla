------------------------------ MODULE Throttle ------------------------------
(***************************************************************************)
(* The throttle of the backend (backend/src/throttle.rs): fixed windows of *)
(* a second, a minute, an hour and a day, one counter each, behind one     *)
(* mutex, so that try_acquire and usage are single steps.  The consumer    *)
(* loop and every HTTP handler share it.  A window restarts only when      *)
(* somebody asks, and then at that moment.                                 *)
(***************************************************************************)
EXTENDS Naturals, Sequences

CONSTANTS
  Windows,   \* how many windows there are, shortest first (4 in the code)
  Length,    \* the length of each window, in ticks of the model's clock
  Limited,   \* the windows whose limit is configured
  Limit,     \* their limits (Option<u32>, a zero is accepted)
  MaxTime    \* where the model's clock stops (model bound)

Window == 1..Windows

ASSUME WindowAssumption ==
  /\ Windows \in Nat
  /\ Length \in [Window -> Nat \ {0}]
  /\ Limited \subseteq Window
  /\ Limit \in [Limited -> Nat]
  /\ MaxTime \in Nat

VARIABLES
  now,      \* the monotonic clock
  used,     \* requests_per_*: requests counted in each window
  since,    \* last_reset_*: when each window started
  times,    \* history: when each request was admitted
  refusal   \* history: the last refusal, window 0 when there was none

vars == <<now, used, since, times, refusal>>

(* A refusal: when it was decided, by which window, the delay it reports,  *)
(* when that delay is over, and how many requests had been admitted.       *)
Refusal == [at : Nat, window : Nat, delay : Nat, ready : Nat, after : Nat]

TypeOK ==
  /\ now \in Nat
  /\ used \in [Window -> Nat]
  /\ since \in [Window -> Nat]
  /\ times \in Seq(Nat)
  /\ refusal \in Refusal

Init ==
  /\ now = 0
  /\ used = [w \in Window |-> 0]
  /\ since = [w \in Window |-> 0]
  /\ times = <<>>
  /\ refusal = [at |-> 0, window |-> 0, delay |-> 0, ready |-> 0, after |-> 0]
-----------------------------------------------------------------------------
(* reset_if_needed                                                         *)
Due(w) == now - since[w] >= Length[w]
UsedNow == [w \in Window |-> IF Due(w) THEN 0 ELSE used[w]]
SinceNow == [w \in Window |-> IF Due(w) THEN now ELSE since[w]]

(* Faulty: one request too many passes.                                    *)
FullLate(w) == w \in Limited /\ UsedNow[w] > Limit[w]

(* should_throttle                                                         *)
Full(w) == w \in Limited /\ UsedNow[w] >= Limit[w]
Refusing(w) == Full(w) /\ \A v \in Window : v < w => ~Full(v)

(* Faulty: the time already spent in the window is not taken off.          *)
DelayWhole(w, t) == Length[w]

(* What is left of window w at time t, saturating at zero.                 *)
Delay(w, t) ==
  IF t - SinceNow[w] >= Length[w] THEN 0 ELSE Length[w] - (t - SinceNow[w])
-----------------------------------------------------------------------------
Tick ==
  /\ now < MaxTime
  /\ now' = now + 1
  /\ UNCHANGED <<used, since, times, refusal>>

Admit ==
  /\ \A w \in Window : ~Full(w)
  /\ used' = [w \in Window |-> UsedNow[w] + 1]
  /\ since' = SinceNow
  /\ times' = Append(times, now)
  /\ UNCHANGED <<now, refusal>>

(* Faulty: a refused request is counted too.                               *)
RefuseCounting(w, later) ==
  /\ Refusing(w)
  /\ used' = [v \in Window |-> UsedNow[v] + 1]
  /\ since' = SinceNow
  /\ now' = later
  /\ refusal' = [at |-> now, window |-> w, delay |-> Delay(w, later),
                 ready |-> later + Delay(w, later), after |-> Len(times)]
  /\ UNCHANGED times

(* The first full window decides; should_throttle reads the clock again,   *)
(* a little later than reset_if_needed did.                                *)
Refuse(w, later) ==
  /\ Refusing(w)
  /\ used' = UsedNow
  /\ since' = SinceNow
  /\ now' = later
  /\ refusal' = [at |-> now, window |-> w, delay |-> Delay(w, later),
                 ready |-> later + Delay(w, later), after |-> Len(times)]
  /\ UNCHANGED times

(* GET /v1/usage looks at the counters, and restarts windows that are due. *)
Usage ==
  /\ used' = UsedNow
  /\ since' = SinceNow
  /\ UNCHANGED <<now, times, refusal>>

Next ==
  \/ Tick \/ Admit \/ Usage
  \/ \E w \in Window, later \in now..MaxTime : Refuse(w, later)

Spec == Init /\ [][Next]_vars
-----------------------------------------------------------------------------
(* Safety                                                                  *)

(* What the fixed windows promise about any stretch of time: more than     *)
(* twice the limit never passes in less than a window's length, wherever   *)
(* that stretch begins and however often the windows restart in it.        *)
SlidingBound ==
  \A w \in Limited : \A i, j \in 1..Len(times) :
    j - i >= 2 * Limit[w] => times[j] - times[i] >= Length[w]

(* A refusal is deserved: as many requests as the window allows really     *)
(* were admitted, less than a window's length before it.                   *)
RefusalJustified ==
  refusal.window # 0 =>
    /\ refusal.after >= Limit[refusal.window]
    /\ \A i \in (refusal.after - Limit[refusal.window] + 1)..refusal.after :
         refusal.at - times[i] < Length[refusal.window]

(* The reported delay is no longer than necessary: nobody is admitted      *)
(* before it is over, so waiting for it loses no capacity.                 *)
NoEarlyAdmission == [][times' # times => now >= refusal.ready]_vars
=============================================================================
