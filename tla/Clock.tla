------------------------------- MODULE Clock -------------------------------
(***************************************************************************)
(* What the example's clock servers reply: the time since the server's     *)
(* start, cut into the units the request asks for.  Both servers have the  *)
(* same two functions.  A duration is a number of nanoseconds, negative    *)
(* when the system clock, which is not steady, was set back.               *)
(***************************************************************************)
EXTENDS Integers

Second == 1000000000
Minute == 60 * Second
Hour   == 3600 * Second

\* std::chrono::duration_cast: integer division that truncates toward zero.
duration_cast(d, unit) == IF d >= 0 THEN d \div unit ELSE -((-d) \div unit)

\* make_pretty_time_string: the three counts it prints.
hours(d)   == duration_cast(d, Hour)
minutes(d) == duration_cast(d - Hour * hours(d), Minute)
seconds(d) == duration_cast(d - Hour * hours(d) - Minute * minutes(d), Second)

make_pretty_time_string(d) == <<hours(d), minutes(d), seconds(d)>>

\* A format that is none of the four prints nothing.
get_time(format, d) ==
    CASE format = "COMPOUND" -> make_pretty_time_string(d)
      [] format = "HOURS"    -> <<duration_cast(d, Hour)>>
      [] format = "MINUTES"  -> <<duration_cast(d, Minute)>>
      [] format = "SECONDS"  -> <<duration_cast(d, Second)>>
      [] OTHER               -> <<>>

\* The second-generation server's form of it.
time_since(start_time, format, now) == get_time(format, now - start_time)
=============================================================================
