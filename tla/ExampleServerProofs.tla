------------------------ MODULE ExampleServerProofs ------------------------
(***************************************************************************)
(* The example clock server uses its streaming handler as the handler      *)
(* requires, so all that is proved of StreamRpcHandler holds of it, and    *)
(* its destructor's order of joining and shutting down is the right one;   *)
(* and the times it replies are right.                                     *)
(***************************************************************************)
EXTENDS ExampleServer, StreamRpcHandlerProofs, Clock

----------------------------------------------------------------------------
(* The server as a user of its handler.                                    *)

\* Every step of the program is a step of the handler, or leaves it alone.
LEMMA ExampleStep == [ExampleNext]_exampleVars => [Next]_vars
<1> SUFFICES ASSUME [ExampleNext]_exampleVars PROVE [Next]_vars
  OBVIOUS
<1>1. CASE TickerStep
  BY <1>1, TickerAssumption DEF TickerStep, TickerChecks, TickerWrites, TickerReturns, handler, Next
<1>2. CASE StopTicking \/ MainStep
  BY <1>2 DEF StopTicking, MainStep, JoinTicker, ShutdownServer, ShutdownDone, ServerDestroyed,
              handler, Next
<1>3. CASE HandlerStep
  BY <1>3, TickerAssumption DEF HandlerStep, Next
<1>4. CASE Exited \/ UNCHANGED exampleVars
  BY <1>4 DEF Exited, exampleVars, handler
<1> QED
  BY <1>1, <1>2, <1>3, <1>4 DEF ExampleNext

\* The clock server is a user of StreamRpcHandler: its ticker is one writer, and
\* its destructor one shutdown.
THEOREM ExampleImplementsHandler == ExampleSpec => Spec
<1>1. ExampleInit => Init
  BY DEF ExampleInit
<1> QED
  BY <1>1, ExampleStep, PTL DEF ExampleSpec, Spec

\* The ticker is inside write only while its loop is, it has left the loop when
\* it has been joined, and the server is shut down only after that.
TickerFirst ==
    /\ wpc[ticker] # "idle" => tpc = "writing"
    /\ mpc \in {"joined", "waiting", "destroying", "exited"} => tpc = "exited"
    /\ stage # "running" => mpc \in {"waiting", "destroying", "exited"}

\* Every step of the program preserves it.
LEMMA TickerFirstStep ==
    ASSUME TypeOK, TickerFirst, [ExampleNext]_exampleVars
    PROVE  TickerFirst'
<1> USE TickerAssumption DEF TickerFirst, handler, program, vars, users
<1>1. CASE TickerChecks \/ TickerReturns
  BY <1>1 DEF TickerChecks, TickerReturns
<1>2. CASE TickerWrites
  BY <1>2 DEF TickerWrites, InvokeStream, TypeOK
<1>3. CASE StopTicking \/ JoinTicker \/ ShutdownDone \/ ServerDestroyed
  BY <1>3 DEF StopTicking, JoinTicker, ShutdownDone, ServerDestroyed
<1>4. CASE ShutdownServer
  BY <1>4 DEF ShutdownServer, shutdown_and_wait
<1>5. CASE HandlerStep
  <2> USE DEF HandlerStep
  <2>1. CASE ClientArrives \/ \E c \in Calls : EndCall(c)
    BY <1>5, <2>1 DEF ClientArrives, EndCall
  <2>2. CASE Wait(ticker) \/ SpuriousWakeup(ticker)
    BY <1>5, <2>2 DEF Wait, SpuriousWakeup, TypeOK
  <2>3. CASE write(ticker) \/ finish(ticker)
    BY <1>5, <2>3 DEF write, finish, Issue, TypeOK
  <2>4. CASE WriterNotify(ticker)
    BY <1>5, <2>4 DEF WriterNotify, NotifyOne, TypeOK
  <2>5. CASE SyncNotify
    BY <1>5, <2>5 DEF SyncNotify, NotifyOne, TypeOK
  <2>6. CASE HandleEvent \/ SyncExit
    BY <1>5, <2>6 DEF HandleEvent, Handle, SyncExit
  <2>7. CASE activate_next
    BY <1>5, <2>7 DEF activate_next, ActivateNext
  <2>8. CASE EraseHandler \/ Destroy
    BY <1>5, <2>8 DEF EraseHandler, Destroy
  <2> QED
    BY <1>5, <2>1, <2>2, <2>3, <2>4, <2>5, <2>6, <2>7, <2>8 DEF Writer, SyncThread, RunThread
<1>6. CASE Exited \/ UNCHANGED exampleVars
  BY <1>6 DEF Exited, exampleVars
<1> QED
  BY <1>1, <1>2, <1>3, <1>4, <1>5, <1>6 DEF ExampleNext, TickerStep, MainStep

\* The invariant in every state of the program.
LEMMA ExampleInvariant == ExampleSpec => [](TypeOK /\ TickerFirst)
<1>1. ExampleInit => TickerFirst
  BY TickerAssumption DEF ExampleInit, Init, TickerFirst
<1> QED
  BY <1>1, ExampleImplementsHandler, TypeCorrect, TickerFirstStep, PTL DEF ExampleSpec

\* The ticker never writes through a handler that has been destroyed: the
\* destructor joins it (line 86) before it shuts the server down (line 88).
THEOREM TickerOutlivedByHandler == ExampleSpec => []HandlerOutlivesUse
<1>1. TickerFirst => HandlerOutlivesUse
  BY TickerAssumption DEF TickerFirst, HandlerOutlivesUse
<1> QED
  BY <1>1, ExampleInvariant, PTL

\* No tick is slept through, although shutdown_and_wait itself waits for nobody:
\* the order of the destructor stands for the discipline the handler asks for.
THEOREM TickerNeverForgotten == ExampleSpec => []NoLostWakeup
<1>1. TickerFirst => UsersGone
  BY TickerAssumption DEF TickerFirst, UsersGone
<1>2. TypeOK /\ UsersGone /\ NoLostWakeup /\ [ExampleNext]_exampleVars => NoLostWakeup'
  BY ExampleStep, WakeupStep, TickerAssumption
<1>3. ExampleInit => NoLostWakeup
  BY DEF ExampleInit, Init, NoLostWakeup
<1> QED
  BY <1>1, <1>2, <1>3, ExampleInvariant, PTL DEF ExampleSpec

\* The ticker's writes never overlap on a stream nor reach a freed connection,
\* however clients come and go.
THEOREM TicksNeverMisuse == ExampleSpec => [](NoMisuse /\ InFlightIsLive /\ ProcessingExact)
<1>1. Spec => []NoMisuse
  BY WritesNeverMisuse, TickerAssumption
<1> QED
  BY <1>1, InFlightSafe, ExampleImplementsHandler, PTL

----------------------------------------------------------------------------
(* What it replies.                                                        *)

\* duration_cast (lines 41-43 of example_server.cpp) leaves a remainder smaller
\* than the unit and of the sign of the duration.
LEMMA CastRemainder ==
    ASSUME NEW d \in Int, NEW unit \in {Hour, Minute, Second}
    PROVE  LET c == duration_cast(d, unit)
               r == d - unit * c
           IN  /\ c \in Int
               /\ d >= 0 => c >= 0 /\ 0 <= r /\ r < unit
               /\ d <= 0 => c <= 0 /\ -unit < r /\ r <= 0
<1>1. CASE unit = Hour
  BY <1>1 DEF duration_cast, Hour, Minute, Second
<1>2. CASE unit = Minute
  BY <1>2 DEF duration_cast, Hour, Minute, Second
<1>3. CASE unit = Second
  BY <1>3 DEF duration_cast, Hour, Minute, Second
<1> QED
  BY <1>1, <1>2, <1>3

\* make_pretty_time_string: for every duration, also a negative one, minutes and
\* seconds stay below 60, no count has the sign opposite to the duration's, and
\* together the counts fall short of the duration by less than a second.
THEOREM CompoundIsExact ==
    ASSUME NEW d \in Int
    PROVE  LET rest == d - Hour * hours(d) - Minute * minutes(d) - Second * seconds(d)
           IN  /\ d >= 0 => /\ hours(d) >= 0 /\ minutes(d) \in 0..59 /\ seconds(d) \in 0..59
                            /\ 0 <= rest /\ rest < Second
               /\ d <= 0 => /\ hours(d) <= 0 /\ minutes(d) \in -59..0 /\ seconds(d) \in -59..0
                            /\ -Second < rest /\ rest <= 0
<1> DEFINE r1 == d - Hour * hours(d)
           r2 == r1 - Minute * minutes(d)
           r3 == r2 - Second * seconds(d)
<1>0. Hour \in Int /\ Minute \in Int /\ Second \in Int
  BY DEF Hour, Minute, Second
<1>1. /\ hours(d) \in Int /\ r1 \in Int
      /\ d >= 0 => hours(d) >= 0 /\ 0 <= r1 /\ r1 < Hour
      /\ d <= 0 => hours(d) <= 0 /\ -Hour < r1 /\ r1 <= 0
  BY <1>0, CastRemainder DEF hours
<1>2. /\ minutes(d) \in Int /\ r2 \in Int
      /\ r1 >= 0 => minutes(d) >= 0 /\ 0 <= r2 /\ r2 < Minute
      /\ r1 <= 0 => minutes(d) <= 0 /\ -Minute < r2 /\ r2 <= 0
  <2>1. minutes(d) = duration_cast(r1, Minute)
    BY DEF minutes
  <2> HIDE DEF r1
  <2> QED
    BY <1>0, <1>1, <2>1, CastRemainder
<1>3. /\ seconds(d) \in Int /\ r3 \in Int
      /\ r2 >= 0 => seconds(d) >= 0 /\ 0 <= r3 /\ r3 < Second
      /\ r2 <= 0 => seconds(d) <= 0 /\ -Second < r3 /\ r3 <= 0
  <2>1. seconds(d) = duration_cast(r2, Second)
    BY DEF seconds
  <2> HIDE DEF r2
  <2> QED
    BY <1>0, <1>2, <2>1, CastRemainder
<1> HIDE DEF r1, r2, r3
<1>4. /\ r1 = d - Hour * hours(d)
      /\ r2 = r1 - Minute * minutes(d)
      /\ r3 = r2 - Second * seconds(d)
  BY DEF r1, r2, r3
<1>5. r3 = d - Hour * hours(d) - Minute * minutes(d) - Second * seconds(d)
  BY <1>0, <1>1, <1>2, <1>3, <1>4
<1>6. /\ d >= 0 => minutes(d) \in 0..59 /\ seconds(d) \in 0..59
      /\ d <= 0 => minutes(d) \in -59..0 /\ seconds(d) \in -59..0
  BY <1>1, <1>2, <1>3, <1>4 DEF Hour, Minute, Second
<1> QED
  BY <1>1, <1>2, <1>3, <1>5, <1>6

\* The four formats of get_time tell the same time: the single counts are those
\* of the compound format, added up, although each is truncated on its own.
THEOREM FormatsAgree ==
    ASSUME NEW d \in Int
    PROVE  LET c == get_time("COMPOUND", d)
           IN  /\ get_time("HOURS", d)   = <<c[1]>>
               /\ get_time("MINUTES", d) = <<60 * c[1] + c[2]>>
               /\ get_time("SECONDS", d) = <<3600 * c[1] + 60 * c[2] + c[3]>>
<1> DEFINE h == hours(d)
           m == minutes(d)
           s == seconds(d)
<1>1. h \in Int /\ m \in Int /\ s \in Int
  <2>1. h \in Int
    BY CastRemainder DEF hours
  <2>2. m \in Int
    BY <2>1, CastRemainder DEF minutes, Hour, Second
  <2> QED
    BY <2>1, <2>2, CastRemainder DEF seconds, Hour, Minute, Second
<1> HIDE DEF h, m, s
<1>2. duration_cast(d, Hour) = h
  BY DEF h, hours
<1>3. duration_cast(d, Second) = 3600 * h + 60 * m + s
  <2> DEFINE q == duration_cast(d, Second)
  <2>1. /\ q \in Int
        /\ d >= 0 => 0 <= d - Second * q /\ d - Second * q < Second
        /\ d <= 0 => -Second < d - Second * q /\ d - Second * q <= 0
    BY CastRemainder
  <2>2. /\ d >= 0 => /\ 0 <= d - Hour * h - Minute * m - Second * s
                     /\ d - Hour * h - Minute * m - Second * s < Second
        /\ d <= 0 => /\ -Second < d - Hour * h - Minute * m - Second * s
                     /\ d - Hour * h - Minute * m - Second * s <= 0
    BY CompoundIsExact DEF h, m, s
  <2> HIDE DEF q
  <2>3. q = 3600 * h + 60 * m + s
    BY <1>1, <2>1, <2>2 DEF Hour, Minute, Second
  <2> QED
    BY <2>3 DEF q
<1>4. duration_cast(d, Minute) = 60 * h + m
  <2> DEFINE q == duration_cast(d, Minute)
  <2>1. /\ q \in Int
        /\ d >= 0 => 0 <= d - Minute * q /\ d - Minute * q < Minute
        /\ d <= 0 => -Minute < d - Minute * q /\ d - Minute * q <= 0
    BY CastRemainder
  <2>2. /\ d >= 0 => /\ s \in 0..59
                     /\ 0 <= d - Hour * h - Minute * m - Second * s
                     /\ d - Hour * h - Minute * m - Second * s < Second
        /\ d <= 0 => /\ s \in -59..0
                     /\ -Second < d - Hour * h - Minute * m - Second * s
                     /\ d - Hour * h - Minute * m - Second * s <= 0
    BY CompoundIsExact DEF h, m, s
  <2> HIDE DEF q
  <2>3. q = 60 * h + m
    BY <1>1, <2>1, <2>2 DEF Hour, Minute, Second
  <2> QED
    BY <2>3 DEF q
<1>5. get_time("COMPOUND", d) = <<h, m, s>>
  BY DEF get_time, make_pretty_time_string, h, m, s
<1>6. /\ get_time("HOURS", d) = <<duration_cast(d, Hour)>>
      /\ get_time("MINUTES", d) = <<duration_cast(d, Minute)>>
      /\ get_time("SECONDS", d) = <<duration_cast(d, Second)>>
  BY DEF get_time
<1> QED
  BY <1>1, <1>2, <1>3, <1>4, <1>5, <1>6
=============================================================================
