------------------------------- MODULE Times -------------------------------
(***************************************************************************)
(* Datetime and Timedelta of contracting/stdlib/bridge/time.py.  The       *)
(* calendar is Python's: a datetime.datetime is the number of its          *)
(* microsecond, and a datetime.timedelta a pair <<days, seconds>>.         *)
(***************************************************************************)
EXTENDS Integers

CONSTANTS
    Tick,           \* 10^6, the microseconds of a second
    LastDay         \* the days from the year 1 to 9999

ASSUME TimesAssumption == {Tick, LastDay} \subseteq Nat \ {0}

SecondsInMinute == 60
SecondsInHour == 3600
SecondsInDay == 86400
SecondsInWeek == 604800

(* Other moments raise OverflowError.                                      *)
Moments == 0..(LastDay * SecondsInDay * Tick - 1)

(* get_raw_seconds                                                         *)
RawSeconds(weeks, days, hours, minutes, seconds) ==
    seconds + minutes * SecondsInMinute + hours * SecondsInHour
      + days * SecondsInDay + weeks * SecondsInWeek

(* datetime.timedelta, which normalizes what it is given.                  *)
Delta(weeks, days, hours, minutes, seconds) ==
    LET whole == seconds + 60 * minutes + 3600 * hours
    IN  <<7 * weeks + days + whole \div 86400, whole % 86400>>

(* A Datetime, and a Timedelta with its _timedelta and __raw_seconds.      *)
Datetime(moment) == <<"Datetime", moment>>
Timedelta(weeks, days, hours, minutes, seconds) ==
    <<"Timedelta", Delta(weeks, days, hours, minutes, seconds),
      RawSeconds(weeks, days, hours, minutes, seconds)>>
OfDaysSeconds(days, seconds) == Timedelta(0, days, 0, 0, seconds)

Units == {Timedelta(1, 0, 0, 0, 0), Timedelta(0, 1, 0, 0, 0), Timedelta(0, 0, 1, 0, 0),
          Timedelta(0, 0, 0, 1, 0), Timedelta(0, 0, 0, 0, 1)}

(* Mutant: the days of the difference are left out.                        *)
SinceWithinADay(c, d) == OfDaysSeconds(0, ((c[2] - d[2]) \div Tick) % SecondsInDay)

(* c - d of two Datetimes forgets the microseconds of the difference.      *)
Since(c, d) ==
    LET whole == (c[2] - d[2]) \div Tick
    IN  OfDaysSeconds(whole \div SecondsInDay, whole % SecondsInDay)

Span(t) == t[2][1] * SecondsInDay + t[2][2]

(* d + t, and t + d.                                                       *)
After(d, t) == Datetime(d[2] + Span(t) * Tick)
(* t - d, which is the moment t before d.                                  *)
Ago(t, d) == Datetime(d[2] - Span(t) * Tick)

(* t + u, t - u, t * u and t * n.                                          *)
PlusDelta(t, u) == OfDaysSeconds(t[2][1] + u[2][1], t[2][2] + u[2][2])
MinusDelta(t, u) == OfDaysSeconds(t[2][1] - u[2][1], t[2][2] - u[2][2])
TimesDelta(t, u) == OfDaysSeconds(t[2][1] * u[2][1], t[2][2] * u[2][2])
TimesInt(t, n) == OfDaysSeconds(t[2][1] * n, t[2][2] * n)

(* The comparisons, of two Datetimes or two Timedeltas: all else raises.   *)
Earlier(c, d) == c[2] < d[2]
Shorter(t, u) == t[2][1] < u[2][1] \/ (t[2][1] = u[2][1] /\ t[2][2] < u[2][2])

(* Mutant: days are counted apart, as in datetime.timedelta.               *)
SecondsOfTheDay(t) == t[2][2]

(* The properties of a Timedelta.                                          *)
Seconds(t) == t[3]
Minutes(t) == t[3] \div SecondsInMinute
Hours(t) == t[3] \div SecondsInHour
Days(t) == t[3] \div SecondsInDay
Weeks(t) == t[3] \div SecondsInWeek
=============================================================================
