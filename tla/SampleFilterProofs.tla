--------------------------- MODULE SampleFilterProofs ---------------------------
(***************************************************************************)
(* What SampleFilter promises for any channels, ranges, thresholds and     *)
(* readings, and for every share alpha between 0 and 1.                    *)
(***************************************************************************)
EXTENDS SampleFilter, TLAPS

-------------------------------------------------------------------------------
(* Division                                                                *)

LEMMA ProductGrows ==
    ASSUME NEW x \in Nat, NEW y \in Nat, NEW z \in Nat, x <= y
    PROVE  x * z \in Nat /\ x * z <= y * z
OBVIOUS

LEMMA DivMod ==
    ASSUME NEW n \in Nat, NEW d \in Nat \ {0}
    PROVE  /\ n \div d \in Nat /\ n % d \in 0 .. d - 1
           /\ n = (n \div d) * d + (n % d)
<1>1. n \div d \in Nat /\ n % d \in 0 .. d - 1
    OBVIOUS
<1>2. \A x \in Int, y \in Int : y > 0 => x = (x \div y) * y + (x % y)
    BY SMTT(30)
<1> QED BY <1>1, <1>2

\* Quotient and remainder are unique.
LEMMA DivUnique ==
    ASSUME NEW d \in Nat \ {0}, NEW k \in Nat, NEW u \in 0 .. d - 1
    PROVE  (k * d + u) \div d = k
<1> DEFINE n == k * d + u
           j == n \div d
           e == n % d
<1>1. n \in Nat
    OBVIOUS
<1>2. j \in Nat /\ e \in 0 .. d - 1 /\ n = j * d + e
    BY <1>1, DivMod
<1>3. k * d + u = j * d + e
    BY <1>2
<1> HIDE DEF j, e, n
<1>4. ASSUME k < j PROVE FALSE
    <2>1. (k + 1) * d <= j * d
        BY <1>2, <1>4, ProductGrows
    <2>2. (k + 1) * d = k * d + d
        OBVIOUS
    <2> QED BY <1>2, <1>3, <2>1, <2>2
<1>5. ASSUME j < k PROVE FALSE
    <2>1. (j + 1) * d <= k * d
        BY <1>2, <1>5, ProductGrows
    <2>2. (j + 1) * d = j * d + d
        BY <1>2
    <2> QED BY <1>2, <1>3, <2>1, <2>2
<1>6. j = k
    BY <1>2, <1>4, <1>5
<1> QED BY <1>6 DEF j, n

LEMMA DivBounded ==
    ASSUME NEW d \in Nat \ {0}, NEW n \in Nat, NEW m \in Nat, n <= m * d
    PROVE  n \div d <= m
<1> DEFINE q == n \div d
           r == n % d
<1>1. q \in Nat /\ r \in Nat /\ n = q * d + r
    BY DivMod
<1> HIDE DEF q, r
<1>2. ASSUME m < q PROVE FALSE
    <2>1. (m + 1) * d <= q * d
        BY <1>1, <1>2, ProductGrows
    <2>2. (m + 1) * d = m * d + d
        OBVIOUS
    <2> QED BY <1>1, <2>1, <2>2
<1>3. q <= m
    BY <1>1, <1>2
<1> QED BY <1>3 DEF q

-------------------------------------------------------------------------------
(* The filter's arithmetic                                                 *)

\* Whole part and remainder scaled apart give the share of the whole, and a share
\* is never more than the whole.
LEMMA ScalingIsExact ==
    ASSUME NEW m \in Nat, alpha \in Alphas
    PROVE  /\ scale_delta_magnitude(m) = (m * alpha[1]) \div alpha[2]
           /\ scale_delta_magnitude(m) \in 0 .. m
<1> DEFINE a == alpha[1]
           b == alpha[2]
           q == m \div b
           r == m % b
           t == (r * a) \div b
           u == (r * a) % b
<1>1. a \in Nat \ {0} /\ b \in Nat \ {0} /\ a <= b
    BY FilterAssumption
<1> HIDE DEF a, b
<1>2. q \in Nat /\ r \in Nat /\ m = q * b + r
    BY <1>1, DivMod
<1> HIDE DEF q, r
<1>3. r * a \in Nat
    BY <1>1, <1>2, ProductGrows
<1>4. t \in Nat /\ u \in 0 .. b - 1 /\ r * a = t * b + u
    BY <1>1, <1>3, DivMod
<1> HIDE DEF t, u
<1>5. scale_delta_magnitude(m) = q * a + t
    BY DEF scale_delta_magnitude, a, b, q, r, t
<1>6. q * a \in Nat /\ q * a + t \in Nat
    BY <1>1, <1>2, <1>4, ProductGrows
<1>7. m * a = (q * a + t) * b + u
    <2>1. m * a = (q * a) * b + r * a
        BY <1>1, <1>2
    <2>2. (q * a + t) * b = (q * a) * b + t * b
        BY <1>1, <1>4, <1>6
    <2> QED BY <1>1, <1>4, <1>6, <2>1, <2>2
<1>8. (m * a) \div b = q * a + t
    BY <1>1, <1>4, <1>6, <1>7, DivUnique
<1>9. m * a \in Nat /\ m * a <= m * b
    <2>1. a * m <= b * m /\ a * m \in Nat
        BY <1>1, ProductGrows
    <2>2. a * m = m * a /\ b * m = m * b
        BY <1>1
    <2> QED BY <2>1, <2>2
<1>10. q * a + t <= m
    BY <1>1, <1>8, <1>9, DivBounded
<1> QED
    BY <1>5, <1>6, <1>8, <1>10 DEF a, b

\* A filtered value lies between the kept and the new one.
LEMMA FilteredIsBetween ==
    ASSUME NEW x \in Int, NEW y \in Int, alpha \in Alphas
    PROVE  /\ filter_value(x, y) \in Int
           /\ x <= y => x <= filter_value(x, y) /\ filter_value(x, y) <= y
           /\ y <= x => y <= filter_value(x, y) /\ filter_value(x, y) <= x
           /\ IF y - x >= 0 THEN filter_value(x, y) - x = ((y - x) * alpha[1]) \div alpha[2]
              ELSE -(filter_value(x, y) - x) = (-(y - x) * alpha[1]) \div alpha[2]
<1>1. CASE y >= x
    <2>1. y - x \in Nat
        BY <1>1
    <2>2. /\ scale_delta_magnitude(y - x) = ((y - x) * alpha[1]) \div alpha[2]
          /\ scale_delta_magnitude(y - x) \in 0 .. (y - x)
        BY <2>1, ScalingIsExact
    <2>3. filter_value(x, y) = x + scale_delta_magnitude(y - x)
        BY <1>1 DEF filter_value
    <2> QED BY <1>1, <2>2, <2>3
<1>2. CASE y < x
    <2>1. x - y \in Nat /\ x - y = -(y - x)
        BY <1>2
    <2>2. /\ scale_delta_magnitude(x - y) = ((x - y) * alpha[1]) \div alpha[2]
          /\ scale_delta_magnitude(x - y) \in 0 .. (x - y)
        BY <2>1, ScalingIsExact
    <2>3. filter_value(x, y) = x - scale_delta_magnitude(x - y)
        BY <1>2 DEF filter_value
    <2>4. (x - y) * alpha[1] = -(y - x) * alpha[1]
        BY <2>1, FilterAssumption
    <2> QED BY <1>2, <2>1, <2>2, <2>3, <2>4
<1> QED
    BY <1>1, <1>2

-------------------------------------------------------------------------------
(* Readings and decisions                                                  *)

FilteredType == last \in Reading /\ raw \in Reading /\ alpha \in Alphas

\* A filtered reading is a reading, and an alarm only if the kept or the new one is.
LEMMA FilteredAlarmHasCause ==
    ASSUME FilteredType, NEW thresholds \in AlarmConfig,
           NEW filtered, filtered = [c \in Channel |-> filter_value(last[c], raw[c])]
    PROVE  /\ filtered \in Reading
           /\ is_alarm_sample(thresholds, filtered)
                => is_alarm_sample(thresholds, last) \/ is_alarm_sample(thresholds, raw)
<1>1. \A c \in Channel :
        /\ last[c] \in Int /\ raw[c] \in Int /\ thresholds.alarm[c] \in Int
        /\ filtered[c] \in Int
        /\ last[c] <= raw[c] => last[c] <= filtered[c] /\ filtered[c] <= raw[c]
        /\ raw[c] <= last[c] => raw[c] <= filtered[c] /\ filtered[c] <= last[c]
    BY FilteredIsBetween DEF FilteredType, Reading, AlarmConfig
<1>2. filtered \in Reading
    BY <1>1 DEF Reading
<1>3. ASSUME is_alarm_sample(thresholds, filtered)
      PROVE  is_alarm_sample(thresholds, last) \/ is_alarm_sample(thresholds, raw)
    <2> PICK c \in Channel : Reaches(c, filtered[c], thresholds.alarm[c])
        BY <1>3 DEF is_alarm_sample
    <2>1. \/ Reaches(c, last[c], thresholds.alarm[c])
          \/ Reaches(c, raw[c], thresholds.alarm[c])
        BY <1>1 DEF Reaches
    <2> QED BY <2>1 DEF is_alarm_sample
<1> QED
    BY <1>2, <1>3

\* What the decision remembers is not enough: the kept sample, too, must owe an
\* alarm to the sensor, or the next filtered one could reach the threshold alone.
IInv ==
    /\ TypeOK
    /\ alpha \in Alphas /\ config \in Configs
    /\ last # None /\ is_alarm_sample(config, last) => cause
    /\ AlarmHasCause

LEMMA IInvInit == Init => IInv
BY DEF Init, IInv, TypeOK, AlarmHasCause, AlarmStates

LEMMA ReadKeepsIInv == IInv /\ Read => IInv'
<1> SUFFICES ASSUME IInv, Read PROVE IInv'
    OBVIOUS
<1> DEFINE filtered == sensor_sample_filter_apply(raw)
<1>1. /\ sensor_sample_is_valid(raw) /\ sensor_sample_is_valid(filtered)
      /\ last' = filtered
      /\ state' = alarm_state_update(state, config, filtered)
      /\ cause' = (cause \/ is_alarm_sample(config, raw))
      /\ UNCHANGED <<alpha, config, raw>>
    BY DEF Read
<1>2. raw \in Reading /\ config \in AlarmConfig
    BY FilterAssumption DEF IInv, TypeOK
<1>3. /\ filtered \in Reading
      /\ is_alarm_sample(config, filtered) => cause \/ is_alarm_sample(config, raw)
    <2>1. CASE last = None
        BY <1>2, <2>1 DEF sensor_sample_filter_apply
    <2>2. CASE last # None
        <3>1. FilteredType
            BY <1>2, <2>2 DEF IInv, TypeOK, FilteredType
        <3>2. filtered = [c \in Channel |-> filter_value(last[c], raw[c])]
            BY <2>2 DEF sensor_sample_filter_apply
        <3> HIDE DEF filtered
        <3> QED
            BY <1>2, <2>2, <3>1, <3>2, FilteredAlarmHasCause DEF IInv
    <2> QED BY <2>1, <2>2
<1> HIDE DEF filtered
<1>4. state' \in AlarmStates
    BY <1>1 DEF alarm_state_update, AlarmStates
<1>5. state' = "ALARM" => is_alarm_sample(config, filtered) \/ state = "ALARM"
    BY <1>1 DEF alarm_state_update, held_until_recovered
<1>6. cause \in BOOLEAN /\ cause' \in BOOLEAN
    BY <1>1 DEF IInv, TypeOK, is_alarm_sample
<1>7. TypeOK'
    BY <1>1, <1>3, <1>4, <1>6 DEF IInv, TypeOK
<1>8. /\ state' = "ALARM" => cause'
      /\ is_alarm_sample(config, last') => cause'
    BY <1>1, <1>3, <1>5, <1>6 DEF IInv, AlarmHasCause
<1> QED
    BY <1>1, <1>7, <1>8 DEF IInv, AlarmHasCause

LEMMA IInvStep == IInv /\ [Next]_vars => IInv'
<1> SUFFICES ASSUME IInv, [Next]_vars PROVE IInv'
    OBVIOUS
<1>1. CASE SensorMoves
    BY <1>1 DEF SensorMoves, IInv, TypeOK, AlarmHasCause
<1>2. CASE Reset
    BY <1>2 DEF Reset, IInv, TypeOK, AlarmHasCause
<1>3. CASE UNCHANGED vars
    BY <1>3 DEF vars, IInv, TypeOK, AlarmHasCause
<1> QED
    BY <1>1, <1>2, <1>3, ReadKeepsIInv DEF Next

LEMMA IInvHolds == Spec => []IInv
BY IInvInit, IInvStep, PTL DEF Spec

\* The kept sample is a valid reading and the state one of the four, however the
\* filter is reset and whatever the sensor delivers (filtered_sensor_source.c:39).
THEOREM FilterTypeOK == Spec => []TypeOK
<1>1. IInv => TypeOK
    BY DEF IInv
<1> QED BY <1>1, IInvHolds, PTL

\* For every share and any thresholds, an ALARM behind the filter means that the
\* sensor did reach an alarm threshold (sensor_sample_filter.c:16-45).
THEOREM FilterInventsNoAlarm == Spec => []AlarmHasCause
<1>1. IInv => AlarmHasCause
    BY DEF IInv
<1> QED BY <1>1, IInvHolds, PTL

\* For differences of any size, the two parts scaled apart add up to the share of
\* the whole, truncated towards zero (sensor_sample_filter.c:8-11).
THEOREM FilterScalesExactly == Spec => FilterIsExact
<1> DEFINE Exact ==
        last # None /\ last' \notin {last, None} =>
            \A c \in Channel :
                LET delta == raw[c] - last[c]
                    step  == last'[c] - last[c]
                IN  IF delta >= 0 THEN step = (delta * alpha[1]) \div alpha[2]
                    ELSE -step = (-delta * alpha[1]) \div alpha[2]
<1>1. IInv /\ [Next]_vars => [Exact]_vars
    <2> SUFFICES ASSUME IInv, Next, last # None, last' \notin {last, None},
                        NEW c \in Channel
                 PROVE  LET delta == raw[c] - last[c]
                            step  == last'[c] - last[c]
                        IN  IF delta >= 0 THEN step = (delta * alpha[1]) \div alpha[2]
                            ELSE -step = (-delta * alpha[1]) \div alpha[2]
        OBVIOUS
    <2>1. last' = [k \in Channel |-> filter_value(last[k], raw[k])]
        BY DEF Next, Read, SensorMoves, Reset, sensor_sample_filter_apply
    <2>2. last[c] \in Int /\ raw[c] \in Int /\ alpha \in Alphas
        BY FilterAssumption DEF IInv, TypeOK, Reading
    <2>3. last'[c] = filter_value(last[c], raw[c])
        BY <2>1
    <2> QED
        BY <2>2, <2>3, FilteredIsBetween
<1> QED
    BY <1>1, IInvHolds, PTL DEF Spec, FilterIsExact

-------------------------------------------------------------------------------
(* Steady readings: what SteadyDangerIsSeen and SteadyRecoveryIsSeen rest  *)
(* on, for readings and shares of any size                                 *)

Distance(x, y) == IF x <= y THEN y - x ELSE x - y

\* A read brings every kept channel nearer to the reading exactly when it is
\* farther away than the dead zone, and never beyond it.
Approaches ==
    last # None /\ Read =>
        \A c \in Channel :
            LET before == Distance(last[c], raw[c])
                after  == Distance(last'[c], raw[c])
            IN  /\ after <= before
                /\ after < before <=> before > DeadZone

Near(sample) == \A c \in Channel : Distance(sample[c], raw[c]) <= DeadZone

\* On a sample within the dead zone around the reading, the decision is the one
\* that the reading calls for.
DecidesForReading ==
    Read /\ Near(last') =>
        /\ is_alarm_sample(config, MovedBack(raw)) => state' = "ALARM"
        /\ is_recovered_sample(config, MovedOn(raw)) /\ ~ is_warning_sample(config, MovedOn(raw))
                => state' = "NORMAL"

\* The share of a magnitude is truncated to nothing exactly within the dead zone.
LEMMA ShareIsTruncated ==
    ASSUME NEW m \in Nat, alpha \in Alphas
    PROVE  /\ DeadZone \in Nat
           /\ scale_delta_magnitude(m) > 0 <=> m > DeadZone
<1> DEFINE a == alpha[1]
           b == alpha[2]
           z == DeadZone
           share == scale_delta_magnitude(m)
<1>1. a \in Nat \ {0} /\ b \in Nat \ {0} /\ a <= b /\ b - 1 \in Nat
    BY FilterAssumption
<1>2. z = (b - 1) \div a
    BY DEF DeadZone
<1> HIDE DEF a, b, z, share
<1>3. z \in Nat /\ (b - 1) % a \in 0 .. a - 1 /\ b - 1 = z * a + ((b - 1) % a)
    BY <1>1, <1>2, DivMod
<1>4. m * a \in Nat
    BY <1>1, ProductGrows
<1>5. /\ share = (m * a) \div b /\ share \in Nat
      /\ (m * a) % b \in 0 .. b - 1 /\ m * a = share * b + ((m * a) % b)
    BY <1>1, <1>4, ScalingIsExact, DivMod DEF a, b, share
<1>6. ASSUME m > z PROVE share > 0
    <2>1. (z + 1) * a <= m * a
        BY <1>1, <1>3, <1>6, ProductGrows
    <2>2. (z + 1) * a = z * a + a /\ z * a \in Nat
        BY <1>1, <1>3, ProductGrows
    <2>3. m * a >= b
        BY <1>1, <1>3, <1>4, <2>1, <2>2
    <2>4. share = 0 => m * a = (m * a) % b
        BY <1>1, <1>5
    <2> QED BY <1>1, <1>4, <1>5, <2>3, <2>4
<1>7. ASSUME m <= z PROVE share = 0
    <2>1. m * a <= z * a /\ z * a \in Nat
        BY <1>1, <1>3, <1>7, ProductGrows
    <2>2. m * a < b
        BY <1>1, <1>3, <1>4, <2>1
    <2>3. ASSUME share >= 1 PROVE FALSE
        <3>1. 1 * b <= share * b /\ share * b \in Nat
            BY <1>1, <1>5, <2>3, ProductGrows
        <3> QED BY <1>1, <1>4, <1>5, <2>2, <3>1
    <2> QED BY <1>5, <2>3
<1>8. z \in Nat /\ (share > 0 <=> m > z)
    BY <1>3, <1>5, <1>6, <1>7
<1> QED BY <1>8 DEF z, share

LEMMA ValueApproaches ==
    ASSUME NEW x \in Int, NEW y \in Int, alpha \in Alphas
    PROVE  /\ Distance(filter_value(x, y), y) <= Distance(x, y)
           /\ Distance(filter_value(x, y), y) < Distance(x, y) <=> Distance(x, y) > DeadZone
<1>1. CASE x <= y
    <2> DEFINE m == y - x
               share == scale_delta_magnitude(m)
    <2>1. m \in Nat
        BY <1>1
    <2>2. share \in 0 .. m /\ DeadZone \in Nat /\ (share > 0 <=> m > DeadZone)
        BY <2>1, ScalingIsExact, ShareIsTruncated
    <2>3. filter_value(x, y) = x + share /\ m = y - x
        BY <1>1 DEF filter_value
    <2> HIDE DEF m, share
    <2> QED BY <1>1, <2>1, <2>2, <2>3 DEF Distance
<1>2. CASE y < x
    <2> DEFINE m == x - y
               share == scale_delta_magnitude(m)
    <2>1. m \in Nat
        BY <1>2
    <2>2. share \in 0 .. m /\ DeadZone \in Nat /\ (share > 0 <=> m > DeadZone)
        BY <2>1, ScalingIsExact, ShareIsTruncated
    <2>3. filter_value(x, y) = x - share /\ m = x - y
        BY <1>2 DEF filter_value
    <2> HIDE DEF m, share
    <2> QED BY <1>2, <2>1, <2>2, <2>3 DEF Distance
<1> QED BY <1>1, <1>2

\* A sample near the reading lies between the reading moved back and moved on.
LEMMA NearIsBetween ==
    ASSUME raw \in Reading, NEW sample \in Reading, alpha \in Alphas, Near(sample),
           NEW thresholds \in AlarmConfig
    PROVE  /\ is_alarm_sample(thresholds, MovedBack(raw)) => is_alarm_sample(thresholds, sample)
           /\ is_recovered_sample(thresholds, MovedOn(raw))
                => is_recovered_sample(thresholds, sample)
           /\ is_warning_sample(thresholds, sample) => is_warning_sample(thresholds, MovedOn(raw))
<1>1. DeadZone \in Nat
    BY ShareIsTruncated
<1>2. \A c \in Channel :
        /\ raw[c] \in Int /\ sample[c] \in Int
        /\ thresholds.alarm[c] \in Int /\ thresholds.warning[c] \in Int
        /\ thresholds.recovery[c] \in Int
        /\ raw[c] - DeadZone <= sample[c] /\ sample[c] <= raw[c] + DeadZone
    BY <1>1 DEF Near, Distance, Reading, AlarmConfig
<1>3. \A c \in Channel :
        /\ Reaches(c, sample[c], MovedBack(raw)[c])
        /\ Reaches(c, MovedOn(raw)[c], sample[c])
        /\ MovedBack(raw)[c] \in Int /\ MovedOn(raw)[c] \in Int
    BY <1>1, <1>2 DEF MovedBack, MovedOn, Reaches
<1>4. \A c \in Channel : \A x, y, z \in Int : Reaches(c, x, y) /\ Reaches(c, y, z) => Reaches(c, x, z)
    BY DEF Reaches
<1> QED
    BY <1>2, <1>3, <1>4 DEF is_alarm_sample, is_recovered_sample, is_warning_sample

\* A steady reading: each read brings the kept sample strictly nearer until it is
\* within the dead zone, never past the reading, and a decision on a sample that
\* near is the one the reading calls for (sensor_sample_filter.c:16-45).  That
\* enough reads follow takes fairness and is left to TLC.
THEOREM FilterApproachesReading == Spec => [][Approaches /\ DecidesForReading]_vars
<1>1. IInv /\ [Next]_vars => Approaches /\ DecidesForReading
    <2> SUFFICES ASSUME IInv, Read PROVE Approaches /\ DecidesForReading
        BY DEF Approaches, DecidesForReading
    <2>1. /\ raw \in Reading /\ alpha \in Alphas /\ config \in AlarmConfig
          /\ alarm_config_is_valid(config) /\ last' \in Reading
        <3>1. /\ raw \in Reading /\ alpha \in Alphas /\ config \in AlarmConfig
              /\ alarm_config_is_valid(config)
            BY FilterAssumption DEF IInv, TypeOK
        <3>2. CASE last = None
            BY <3>1, <3>2 DEF Read, sensor_sample_filter_apply
        <3>3. CASE last # None
            <4>1. FilteredType
                BY <3>1, <3>3 DEF IInv, TypeOK, FilteredType
            <4>2. last' = [c \in Channel |-> filter_value(last[c], raw[c])]
                BY <3>3 DEF Read, sensor_sample_filter_apply
            <4> QED BY <3>1, <4>1, <4>2, FilteredAlarmHasCause
        <3> QED BY <3>1, <3>2, <3>3
    <2>2. Approaches
        <3> SUFFICES ASSUME last # None, NEW c \in Channel
                     PROVE  /\ Distance(last'[c], raw[c]) <= Distance(last[c], raw[c])
                            /\ Distance(last'[c], raw[c]) < Distance(last[c], raw[c])
                                <=> Distance(last[c], raw[c]) > DeadZone
            BY DEF Approaches
        <3>1. last'[c] = filter_value(last[c], raw[c])
            BY DEF Read, sensor_sample_filter_apply
        <3>2. last[c] \in Int /\ raw[c] \in Int
            BY <2>1 DEF IInv, TypeOK, Reading
        <3> QED BY <2>1, <3>1, <3>2, ValueApproaches
    <2>3. DecidesForReading
        <3> SUFFICES ASSUME Near(last') PROVE DecidesForReading
            BY DEF DecidesForReading
        <3>1. /\ is_alarm_sample(config, MovedBack(raw)) => is_alarm_sample(config, last')
              /\ is_recovered_sample(config, MovedOn(raw)) => is_recovered_sample(config, last')
              /\ is_warning_sample(config, last') => is_warning_sample(config, MovedOn(raw))
            BY <2>1, NearIsBetween
        <3>2. state' = alarm_state_update(state, config, last') /\ sensor_sample_is_valid(last')
            BY DEF Read
        <3>3. is_alarm_sample(config, last') => is_warning_sample(config, last')
            <4>1. \A c \in Channel :
                    /\ last'[c] \in Int /\ config.alarm[c] \in Int /\ config.warning[c] \in Int
                    /\ Reaches(c, config.alarm[c], config.warning[c])
                BY <2>1 DEF Reading, AlarmConfig, alarm_config_is_valid
            <4>2. \A c \in Channel : Reaches(c, last'[c], config.alarm[c])
                                        => Reaches(c, last'[c], config.warning[c])
                BY <4>1 DEF Reaches
            <4> QED BY <4>2 DEF is_alarm_sample, is_warning_sample
        <3> QED
            BY <2>1, <3>1, <3>2, <3>3
               DEF DecidesForReading, alarm_state_update, held_until_recovered
    <2> QED BY <2>2, <2>3
<1> QED
    BY <1>1, IInvHolds, PTL DEF Spec

===============================================================================
