------------------------------ MODULE Timeouts ------------------------------
(***************************************************************************)
(* The integer arithmetic of deadlines: Grpc\Timeval, the deadline of a    *)
(* Call, and the value of the grpc-timeout header.  The sizes of the       *)
(* integers and the lengths of the units are parameters, so that TLC meets *)
(* every boundary with small numbers.                                      *)
(***************************************************************************)
EXTENDS Integers

CONSTANTS
    LongMax,        \* ZEND_LONG_MAX
    MaxValue,       \* 99999999, the largest value of eight digits
    MilliUs, SecondUs, MinuteUs, HourUs     \* the units, in microseconds

ASSUME LongAssumption == LongMax \in Nat \ {0}

ASSUME UnitAssumption ==
    /\ MaxValue \in Nat \ {0}
    /\ {MilliUs, SecondUs, MinuteUs, HourUs} \subseteq Nat \ {0}

LongMin == -LongMax - 1

Long == LongMin .. LongMax

-----------------------------------------------------------------------------
(* Timeval.                                                                *)

grpc_lite_saturating_add(left, right) ==
    IF right > 0 /\ left > LongMax - right THEN LongMax
    ELSE IF right < 0 /\ left < LongMin - right THEN LongMin
    ELSE left + right

grpc_lite_saturating_subtract(left, right) ==
    IF right = LongMin
    THEN IF left >= 0 THEN LongMax ELSE grpc_lite_saturating_add(left, LongMax)
    ELSE grpc_lite_saturating_add(left, -right)

Timeval_compare(left, right) ==
    IF left < right THEN -1 ELSE IF left > right THEN 1 ELSE 0

-----------------------------------------------------------------------------
(* Deadlines.  0 stands for none.                                          *)

grpc_lite_call_deadline_abs_us(deadline_us) ==
    IF deadline_us <= 0 \/ deadline_us = LongMax THEN 0 ELSE deadline_us

\* 0 without a deadline, -1 when it has passed.
remaining_timeout_us_for_deadline(deadline_abs_us, now) ==
    IF deadline_abs_us = 0 THEN 0
    ELSE IF now >= deadline_abs_us THEN -1
    ELSE IF deadline_abs_us - now > LongMax THEN LongMax
    ELSE deadline_abs_us - now

MutantCeilDiv(value, unit) == value \div unit

grpc_lite_ceil_div_timeout(value, unit) ==
    value \div unit + (IF value % unit # 0 THEN 1 ELSE 0)

\* The number and the unit of grpc_lite_format_timeout_us: the finest unit in
\* which the rounded-up value has at most eight digits.
Timeout(value, unit) == [value |-> value, unit |-> unit]

grpc_lite_format_timeout_us(timeout_us) ==
    LET In(unit) == grpc_lite_ceil_div_timeout(timeout_us, unit) IN
    IF timeout_us <= MaxValue THEN Timeout(timeout_us, 1)
    ELSE IF In(MilliUs) <= MaxValue THEN Timeout(In(MilliUs), MilliUs)
    ELSE IF In(SecondUs) <= MaxValue THEN Timeout(In(SecondUs), SecondUs)
    ELSE IF In(MinuteUs) <= MaxValue THEN Timeout(In(MinuteUs), MinuteUs)
    ELSE IF In(HourUs) <= MaxValue THEN Timeout(In(HourUs), HourUs)
    ELSE Timeout(MaxValue, HourUs)

=============================================================================
