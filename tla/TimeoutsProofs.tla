--------------------------- MODULE TimeoutsProofs ---------------------------
(* What the arithmetic of Timeouts computes, for integers and units of any *)
(* size.                                                                   *)
EXTENDS Timeouts, TLAPS

\* The integer of Long nearest to n.
Clamp(n) == IF n > LongMax THEN LongMax ELSE IF n < LongMin THEN LongMin ELSE n

\* Timeval::add is the exact sum where that fits and the nearest end of the
\* range where it does not, and no intermediate result of it overflows
\* (surface.c:120).
THEOREM SaturatingAdd ==
    ASSUME NEW left \in Long, NEW right \in Long
    PROVE  /\ grpc_lite_saturating_add(left, right) = Clamp(left + right)
           /\ right > 0 => LongMax - right \in Long
           /\ right < 0 => LongMin - right \in Long
BY LongAssumption DEF grpc_lite_saturating_add, Clamp, Long, LongMin

\* Timeval::subtract is the exact difference or the nearest end of the range,
\* but for one pair of signs: a negative time minus the least integer is one
\* microsecond too small, as tests/phpt/003-timeval.phpt:19 expects of -1
\* (surface.c:131).
THEOREM SaturatingSubtract ==
    ASSUME NEW left \in Long, NEW right \in Long
    PROVE  grpc_lite_saturating_subtract(left, right) =
               IF right = LongMin /\ left < 0 THEN Clamp(left - right) - 1
                                              ELSE Clamp(left - right)
<1>1. CASE right = LongMin
  BY <1>1, LongAssumption
  DEF grpc_lite_saturating_subtract, grpc_lite_saturating_add, Clamp, Long, LongMin
<1>2. CASE right # LongMin
  BY <1>2, LongAssumption
  DEF grpc_lite_saturating_subtract, grpc_lite_saturating_add, Clamp, Long, LongMin
<1> QED BY <1>1, <1>2

\* Rounding up in a unit loses nothing and adds less than one unit
\* (protocol_core.c:66).
LEMMA CeilDiv ==
    ASSUME NEW v \in Nat \ {0}, NEW u \in Nat \ {0}
    PROVE  /\ grpc_lite_ceil_div_timeout(v, u) \in Nat \ {0}
           /\ grpc_lite_ceil_div_timeout(v, u) * u >= v
           /\ (grpc_lite_ceil_div_timeout(v, u) - 1) * u < v
<1> DEFINE q == v \div u
           r == v % u
<1>1. q \in Nat /\ r \in 0 .. u - 1 /\ v = q * u + r
  OBVIOUS
<1> HIDE DEF q, r
<1>2. grpc_lite_ceil_div_timeout(v, u) = q + (IF r # 0 THEN 1 ELSE 0)
  BY DEF grpc_lite_ceil_div_timeout, q, r
<1>3. q * u \in Nat /\ (q + 1) * u = q * u + u /\ (q - 1) * u = q * u - u
  BY <1>1
<1>4. CASE r = 0
  <2>1. q # 0
    BY <1>1, <1>4
  <2> QED BY <1>1, <1>2, <1>3, <1>4, <2>1
<1>5. CASE r # 0
  BY <1>1, <1>2, <1>3, <1>5
<1> QED BY <1>4, <1>5

\* The time the header grants, unless it is capped in hours.
Covers(t, us) == t.value * t.unit >= us /\ (t.value - 1) * t.unit < us

\* grpc-timeout has at most eight digits, is never shorter than the time the
\* call has left, and longer by less than one unit, unless even the hours do
\* not fit (protocol_core.c:71).
THEOREM FormatTimeout ==
    ASSUME NEW us \in Nat \ {0}
    PROVE  LET t == grpc_lite_format_timeout_us(us) IN
           /\ t.value \in 1 .. MaxValue
           /\ \/ Covers(t, us)
              \/ t = Timeout(MaxValue, HourUs) /\ MaxValue * HourUs < us
<1> DEFINE In(u) == grpc_lite_ceil_div_timeout(us, u)
           Good(u) == /\ In(u) \in Nat \ {0}
                      /\ In(u) * u >= us
                      /\ (In(u) - 1) * u < us
<1>1. Good(MilliUs) /\ Good(SecondUs) /\ Good(MinuteUs) /\ Good(HourUs)
  BY CeilDiv, UnitAssumption
<1>2. MaxValue \in Nat \ {0} /\ HourUs \in Nat \ {0}
  BY UnitAssumption
<1>3. In(HourUs) > MaxValue => MaxValue * HourUs < us
  <2> SUFFICES ASSUME In(HourUs) > MaxValue PROVE MaxValue * HourUs < us
    OBVIOUS
  <2> DEFINE n == In(HourUs)
  <2>1. n \in Nat /\ n - 1 >= MaxValue /\ (n - 1) * HourUs < us
    BY <1>1, <1>2
  <2> HIDE DEF n
  <2>2. (n - 1) * HourUs >= MaxValue * HourUs
    BY <2>1, <1>2
  <2> QED BY <2>1, <2>2, <1>2
<1> HIDE DEF In
<1>4. grpc_lite_format_timeout_us(us) =
          IF us <= MaxValue THEN Timeout(us, 1)
          ELSE IF In(MilliUs) <= MaxValue THEN Timeout(In(MilliUs), MilliUs)
          ELSE IF In(SecondUs) <= MaxValue THEN Timeout(In(SecondUs), SecondUs)
          ELSE IF In(MinuteUs) <= MaxValue THEN Timeout(In(MinuteUs), MinuteUs)
          ELSE IF In(HourUs) <= MaxValue THEN Timeout(In(HourUs), HourUs)
          ELSE Timeout(MaxValue, HourUs)
  BY Zenon DEF grpc_lite_format_timeout_us, In
<1> QED BY <1>1, <1>2, <1>3, <1>4 DEF Covers, Timeout

=============================================================================
