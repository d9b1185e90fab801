----------------------------- MODULE MCThrottle -----------------------------
(* Throttle for TLC: three windows, the middle one without a limit.        *)
EXTENDS Throttle

MCLength == <<2, 3, 5>>
MCLimited == {1, 3}
MCLimit == [w \in MCLimited |-> IF w = 1 THEN 1 ELSE 2]
=============================================================================
