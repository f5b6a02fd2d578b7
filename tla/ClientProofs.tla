------------------------------ MODULE ClientProofs -----------------------------
(***************************************************************************)
(* Proofs about ClientProgram, for every length of a second and of the     *)
(* heartbeat interval, and every delay that the margin covers.             *)
(***************************************************************************)
EXTENDS ClientProgram, TLAPS

USE DEF tcpVars, timeVars, padVars, clientVars, Looping, Ended

-------------------------------------------------------------------------------
(* Whole seconds.                                                           *)

LEMMA DivBounds ==
  ASSUME NEW a \in Nat, NEW s \in Nat \ {0}
  PROVE  /\ a \div s \in Nat
         /\ (a \div s) * s =< a
         /\ a < (a \div s) * s + s
BY SMT

\* A clock that reads more than h whole seconds has passed all of h + 1.
LEMMA DivLimit ==
  ASSUME NEW a \in Nat, NEW s \in Nat \ {0}, NEW h \in Nat, a < (h + 1) * s
  PROVE  a \div s =< h
BY DivBounds, SMT

LEMMA PeriodType == Period \in Nat \ {0} /\ Period = HeartbeatFreq - Margin
BY ClientAssumption, MarginAssumption DEF Period

LEMMA PollTimeoutType ==
  ASSUME NEW age \in Nat PROVE PollTimeout(age) \in Nat
<1>1. WholeSecs(age) \in Nat /\ Sec \in Nat /\ Period \in Nat
  BY ClientAssumption, PeriodType, DivBounds DEF WholeSecs
<1>2. CASE Period > WholeSecs(age)
  <2>1. Period - WholeSecs(age) \in Nat
    BY <1>1, <1>2
  <2> QED
    BY <1>1, <1>2, <2>1 DEF PollTimeout
<1>3. CASE ~(Period > WholeSecs(age))
  BY <1>3 DEF PollTimeout
<1> QED
  BY <1>2, <1>3

LEMMA MaxAgeType ==
  /\ LastWake \in Nat
  /\ MaxAge \in Nat
  /\ MaxAge = LastWake + Slack
<1>1. Period * Sec \in Nat /\ Sec \in Nat \ {0} /\ Slack \in Nat
  BY ClientAssumption, PeriodType
<1>2. LastWake \in Nat
  BY <1>1 DEF LastWake
<1> QED
  BY <1>1, <1>2 DEF MaxAge

\* A wait that begins before the heartbeat is due ends within a second of it.
LEMMA WaitEnds ==
  ASSUME NEW age \in Nat, WholeSecs(age) < Period
  PROVE  age + PollTimeout(age) =< LastWake
<1> DEFINE w == WholeSecs(age)
<1>1. w \in Nat /\ w * Sec =< age /\ age < w * Sec + Sec
  BY ClientAssumption, DivBounds DEF WholeSecs
<1>2. PollTimeout(age) = (Period - w) * Sec
  BY <1>1, PeriodType DEF PollTimeout
<1>3. (Period - w) * Sec = Period * Sec - w * Sec
  BY <1>1, PeriodType, ClientAssumption
<1>4. w * Sec \in Nat /\ Period * Sec \in Nat /\ Sec \in Nat
  BY <1>1, PeriodType, ClientAssumption
<1> HIDE DEF w
<1> QED
  BY <1>1, <1>2, <1>3, <1>4 DEF LastWake

\* A heartbeat that is not due leaves the clock within the bound.
LEMMA NotDueAge ==
  ASSUME NEW age \in Nat, WholeSecs(age) < Period
  PROVE  age =< MaxAge
<1>1. age + PollTimeout(age) =< LastWake /\ PollTimeout(age) \in Nat
  BY WaitEnds, PollTimeoutType
<1> QED
  BY <1>1, MaxAgeType, ClientAssumption

\* The latest heartbeat, with all its delays, is in time.
LEMMA MarginCovers == MaxAge + Greet + Delay < (HeartbeatFreq + 1) * Sec
<1>1. /\ HeartbeatFreq \in Nat /\ Margin \in Nat /\ Sec \in Nat \ {0}
      /\ Greet \in Nat /\ Slack \in Nat /\ Delay \in Nat
      /\ Greet + Slack + Delay =< Margin * Sec
  BY ClientAssumption, MarginAssumption
<1>2. Period * Sec = HeartbeatFreq * Sec - Margin * Sec
  BY <1>1, PeriodType
<1>3. (HeartbeatFreq + 1) * Sec = HeartbeatFreq * Sec + Sec
  BY <1>1
<1>4. HeartbeatFreq * Sec \in Nat /\ Margin * Sec \in Nat
  BY <1>1
<1> QED
  BY <1>1, <1>2, <1>3, <1>4 DEF MaxAge, LastWake

\* The greeting does not last until a heartbeat is due.
LEMMA GreetingNotDue ==
  ASSUME NEW age \in Nat, age =< Greet
  PROVE  WholeSecs(age) < Period
<1>1. WholeSecs(age) \in Nat /\ WholeSecs(age) * Sec =< age /\ Sec \in Nat \ {0}
  BY ClientAssumption, DivBounds DEF WholeSecs
<1>2. age < Period * Sec /\ Period \in Nat
  BY ClientAssumption, MarginAssumption, PeriodType
<1> QED
  BY <1>1, <1>2
-------------------------------------------------------------------------------
(* Types.                                                                   *)

LEMMA InitInv == ClientInit => ClientInv
<1> SUFFICES ASSUME ClientInit PROVE ClientInv
  OBVIOUS
<1>1. ClientTypeOK
  <2>1. 0 \in Nat /\ 0 \in 0 .. MaxStamp /\ 0 \in 0 .. 0
    BY ClientAssumption
  <2>2. {} \subseteq 0 .. Delay /\ {} \subseteq 1 .. 0
    OBVIOUS
  <2>3. /\ stamp \in 0 .. MaxStamp /\ pads \subseteq 1 .. stamp
        /\ lastStamp \in 0 .. stamp /\ shown \in 0 .. stamp /\ newest \in 0 .. stamp
    BY <2>1, <2>2 DEF ClientInit
  <2> QED
    BY <2>1, <2>2, <2>3 DEF ClientInit, ClientTypeOK
<1> QED
  BY <1>1, ClientAssumption
     DEF ClientInit, ClientInv, ClientTimely, ServerTimely, Staged

\* Going back to the top of the loop keeps the types.
LEMMA SleepType ==
  ASSUME NEW age \in Nat, Sleep(age)
  PROVE  cpc' = "poll" /\ wake' \in Nat
BY PollTimeoutType DEF Sleep

LEMMA ClientStepType == ClientTypeOK /\ ClientNext => ClientTypeOK'
<1> SUFFICES ASSUME ClientTypeOK, ClientNext PROVE ClientTypeOK'
  OBVIOUS
<1> USE DEF ClientTypeOK
<1>1. CASE ClientConnects
  BY <1>1 DEF ClientConnects
<1>2. CASE ClientGreets
  BY <1>2 DEF ClientGreets, Written
<1>3. CASE ReadResponse
  BY <1>3 DEF ReadResponse
<1>4. CASE ResponseCut \/ ResponseEof \/ ClientFails \/ CallFails
  BY <1>4 DEF ResponseCut, ResponseEof, ClientFails, CallFails, Panic, Fail
<1>5. CASE SkipConfig
  BY <1>5, SleepType DEF SkipConfig
<1>6. CASE SendConfig
  BY <1>6, SleepType DEF SendConfig, Written
<1>7. CASE Wake
  BY <1>7 DEF Wake
<1>8. CASE SendHeartbeat
  <2>1. beats' \subseteq 0 .. Delay
    BY <1>8, ClientAssumption DEF SendHeartbeat
  <2>2. wake' \in Nat /\ cpc' \in {"poll", "recv"}
    BY <1>8, SleepType DEF SendHeartbeat, Onward
  <2> QED
    BY <1>8, <2>1, <2>2 DEF SendHeartbeat, Written
<1>9. CASE NoHeartbeat
  <2>1. wake' \in Nat /\ cpc' \in {"poll", "recv"}
    BY <1>9, SleepType DEF NoHeartbeat, Onward
  <2> QED
    BY <1>9, <2>1 DEF NoHeartbeat
<1>10. ASSUME NEW t \in pads, Receive(t) PROVE ClientTypeOK'
  <2>1. cpc' = "poll" /\ wake' \in Nat
    BY <1>10, SleepType DEF Receive
  <2>2. t \in 1 .. stamp
    OBVIOUS
  <2>3. lastStamp' \in 0 .. stamp /\ shown' \in 0 .. stamp /\ newest' \in 0 .. stamp
    BY <1>10, <2>2, ClientAssumption DEF Receive, TakeReport
  <2> QED
    BY <1>10, <2>1, <2>3 DEF Receive
<1>11. CASE NothingReceived
  BY <1>11, SleepType DEF NothingReceived
<1> QED
  BY <1>1, <1>2, <1>3, <1>4, <1>5, <1>6, <1>7, <1>8, <1>9, <1>10, <1>11
     DEF ClientNext, ClientRuns

LEMMA WorldStepType == ClientTypeOK /\ WorldNext => ClientTypeOK'
<1> SUFFICES ASSUME ClientTypeOK, WorldNext PROVE ClientTypeOK'
  OBVIOUS
<1> USE DEF ClientTypeOK
<1>1. CASE ServerAccepts
  BY <1>1 DEF ServerAccepts
<1>2. CASE ServerAnswers
  BY <1>2 DEF ServerAnswers
<1>3. CASE ServerCloses \/ ServerVanishes
  BY <1>3 DEF ServerCloses, ServerVanishes, ServerEnds
<1>4. ASSUME NEW age \in beats, HandleHeartbeat(age) PROVE ClientTypeOK'
  BY <1>4 DEF HandleHeartbeat
<1>5. CASE ServerPushes
  <2>1. stamp' \in stamp .. MaxStamp /\ stamp' >= 1
    BY <1>5, ClientAssumption DEF ServerPushes
  <2>2. pads' \subseteq 1 .. stamp'
    BY <1>5, <2>1, ClientAssumption DEF ServerPushes
  <2>3. stamp' \in 0 .. MaxStamp /\ 0 .. stamp \subseteq 0 .. stamp'
    BY <2>1, ClientAssumption
  <2> QED
    BY <1>5, <2>2, <2>3 DEF ServerPushes
<1>6. CASE Lose
  BY <1>6 DEF Lose
<1>7. CASE ResetArrives
  BY <1>7 DEF ResetArrives
<1>8. CASE Tick
  <2>1. beats' \subseteq 0 .. Delay
    BY <1>8, ClientAssumption DEF Tick
  <2> QED
    BY <1>8, <2>1 DEF Tick
<1> QED
  BY <1>1, <1>2, <1>3, <1>4, <1>5, <1>6, <1>7, <1>8 DEF WorldNext

LEMMA StepType == ClientTypeOK /\ [Next]_clientVars => ClientTypeOK'
<1>1. ClientTypeOK /\ UNCHANGED clientVars => ClientTypeOK'
  BY DEF ClientTypeOK
<1> QED
  BY <1>1, ClientStepType, WorldStepType DEF Next

\* Every variable of the client and of what surrounds it keeps to its type; the
\* timestamps never run ahead of the readings of the pad.
THEOREM TypeCorrect == ClientSpec => []ClientTypeOK
<1>1. ClientInit => ClientTypeOK
  BY InitInv DEF ClientInv
<1> QED
  BY <1>1, StepType, PTL DEF ClientSpec
-------------------------------------------------------------------------------
(* The clocks.                                                              *)

\* A wait that begins when no heartbeat is due.
LEMMA SleepTimely ==
  ASSUME NEW age \in Nat, WholeSecs(age) < Period, Sleep(age), cAge' = age
  PROVE  ClientTimely'
<1>1. cpc' = "poll" /\ wake' = age + PollTimeout(age) /\ PollTimeout(age) \in Nat
  BY PollTimeoutType DEF Sleep
<1>2. wake' =< LastWake /\ cAge' =< wake' + Slack
  BY <1>1, WaitEnds, ClientAssumption
<1> QED
  BY <1>1, <1>2 DEF ClientTimely, LastWake, Period

LEMMA NotDue ==
  ASSUME ClientTypeOK PROVE ~HeartbeatDue <=> WholeSecs(cAge) < Period
<1>1. WholeSecs(cAge) \in Nat /\ Period \in Nat
  BY ClientAssumption, PeriodType, DivBounds DEF WholeSecs, ClientTypeOK
<1> QED
  BY <1>1 DEF HeartbeatDue

LEMMA ZeroNotDue == WholeSecs(0) < Period
BY GreetingNotDue, ClientAssumption

LEMMA ClientTimelyStep ==
  ASSUME ClientTypeOK, ClientTimely, Next PROVE ClientTimely'
<1> USE DEF ClientTimely
<1>0. cAge \in Nat /\ wake \in Nat
  BY DEF ClientTypeOK
<1>1. CASE ClientConnects \/ ClientGreets
  BY <1>1 DEF ClientConnects, ClientGreets
<1>2. CASE ReadResponse
  BY <1>2, ClientAssumption DEF ReadResponse
<1>3. CASE ResponseCut \/ ResponseEof \/ ClientFails \/ CallFails
  BY <1>3 DEF ResponseCut, ResponseEof, ClientFails, CallFails, Panic, Fail
<1>4. CASE SkipConfig \/ SendConfig
  <2>1. Sleep(cAge) /\ cAge' = cAge /\ cAge =< Greet
    BY <1>4 DEF SkipConfig, SendConfig
  <2> QED
    BY <2>1, <1>0, GreetingNotDue, SleepTimely
<1>5. CASE Wake
  <2>1. cAge =< MaxAge
    <3>1. wake =< LastWake /\ cAge =< wake + Slack
      BY <1>5 DEF Wake
    <3> QED
      BY <3>1, <1>0, MaxAgeType, ClientAssumption
  <2> QED
    BY <1>5, <2>1 DEF Wake, MaxAge, LastWake, Period
<1>6. CASE SendHeartbeat
  <2>1. cAge' = 0
    BY <1>6 DEF SendHeartbeat
  <2>2. CASE Sleep(0)
    BY <2>1, <2>2, ZeroNotDue, SleepTimely
  <2>3. CASE cpc' = "recv"
    BY <2>1, <2>3, ZeroNotDue, PeriodType, DivBounds, ClientAssumption
       DEF HeartbeatDue, WholeSecs, Period
  <2> QED
    BY <1>6, <2>2, <2>3 DEF SendHeartbeat, Onward
<1>7. CASE NoHeartbeat
  <2>1. cAge' = cAge /\ ~HeartbeatDue
    BY <1>7 DEF NoHeartbeat
  <2>2. CASE Sleep(cAge)
    BY <2>1, <2>2, <1>0, NotDue, SleepTimely
  <2>3. CASE cpc' = "recv"
    BY <2>1, <2>3 DEF HeartbeatDue, WholeSecs, Period
  <2> QED
    BY <1>7, <2>2, <2>3 DEF NoHeartbeat, Onward
<1>8. CASE (\E t \in pads : Receive(t)) \/ NothingReceived
  <2>1. Sleep(cAge) /\ cAge' = cAge /\ ~HeartbeatDue
    BY <1>8 DEF Receive, NothingReceived
  <2> QED
    BY <2>1, <1>0, NotDue, SleepTimely
<1>9. CASE Tick
  <2>1. CASE cpc = "config"
    <3>1. cpc' = "config" /\ cAge' =< Greet
      BY <1>9, <2>1, <1>0, ClientAssumption DEF Tick, MayWait
    <3> QED
      BY <3>1
  <2>2. CASE cpc = "poll"
    <3>1. cpc' = "poll" /\ wake' = wake /\ cAge' =< wake' + Slack
      BY <1>9, <2>2, <1>0, ClientAssumption DEF Tick, MayWait
    <3> QED
      BY <3>1, <2>2 DEF LastWake, Period
  <2>3. CASE cpc \notin {"config", "poll"}
    BY <1>9, <2>3 DEF Tick, MayWait
  <2> QED
    BY <2>1, <2>2, <2>3
<1>10. CASE WorldNext /\ ~Tick
  <2>1. UNCHANGED <<cpc, cAge, wake>>
    BY <1>10 DEF WorldNext, ServerAccepts, ServerAnswers, ServerCloses, ServerVanishes,
                 ServerEnds, HandleHeartbeat, ServerPushes, Lose, ResetArrives
  <2> QED
    BY <2>1 DEF LastWake, MaxAge, HeartbeatDue, WholeSecs, Period
<1> QED
  BY <1>1, <1>2, <1>3, <1>4, <1>5, <1>6, <1>7, <1>8, <1>9, <1>10
     DEF Next, ClientNext, ClientRuns

\* Nothing that the server's clock depends on changes.
LEMMA ServerTimelyKept ==
  ASSUME ServerTimely, UNCHANGED <<srv, beats, sAge, cAge>>,
         \/ cpc' = cpc
         \/ cpc \in Looping /\ cpc' \in Looping
         \/ cpc' \in Ended
         \/ {cpc, cpc'} \subseteq {"connect", "greet", "response", "config"}
  PROVE  ServerTimely'
BY DEF ServerTimely, MaxAge, LastWake, Period

LEMMA ServerTimelyStep ==
  ASSUME ClientTypeOK, ClientTimely, ServerTimely, Staged, Next PROVE ServerTimely'
<1>0. cAge \in Nat /\ sAge \in Nat /\ MaxAge \in Nat /\ Greet \in Nat /\ beats \subseteq Nat
  BY MaxAgeType, ClientAssumption DEF ClientTypeOK
<1>1. CASE ClientConnects
  BY <1>1 DEF ClientConnects, ServerTimely
<1>2. CASE ClientGreets \/ Wake \/ NoHeartbeat \/ (\E t \in pads : Receive(t))
             \/ NothingReceived
  <2>1. UNCHANGED <<srv, beats, sAge, cAge>>
    BY <1>2 DEF ClientGreets, Written, Wake, NoHeartbeat, Receive, NothingReceived
  <2>2. \/ {cpc, cpc'} \subseteq {"connect", "greet", "response", "config"}
        \/ cpc \in Looping /\ cpc' \in Looping
    BY <1>2 DEF ClientGreets, Wake, NoHeartbeat, Receive, NothingReceived, Onward, Sleep
  <2> QED
    BY <2>1, <2>2, ServerTimelyKept
<1>3. CASE ReadResponse
  BY <1>3 DEF ReadResponse, ServerTimely
<1>4. CASE ResponseCut \/ ResponseEof \/ ClientFails \/ CallFails
  <2>1. cpc' \in Ended
    BY <1>4 DEF ResponseCut, ResponseEof, ClientFails, CallFails, Panic, Fail
  <2> QED
    BY <2>1 DEF ServerTimely
<1>5. CASE SkipConfig \/ SendConfig
  <2>1. cpc = "config" /\ cpc' = "poll" /\ UNCHANGED <<srv, beats, sAge, cAge>>
    BY <1>5 DEF SkipConfig, SendConfig, Sleep, Written
  <2>2. srv = "open" => beats = {} /\ sAge =< Greet
    BY <2>1 DEF ServerTimely
  <2> QED
    BY <2>1, <2>2, <1>0 DEF ServerTimely
<1>6. CASE SendHeartbeat
  <2>1. /\ cpc = "beat" /\ cpc' \in Looping /\ cAge' = 0 /\ cAge =< MaxAge
        /\ srv' = srv /\ sAge' = sAge /\ MaxAge' = MaxAge
    BY <1>6 DEF SendHeartbeat, Written, Onward, Sleep, ClientTimely, MaxAge, LastWake, Period
  <2>2. SUFFICES ASSUME srv = "open"
                 PROVE  \E age \in beats' : sAge =< age + MaxAge + Greet
    BY <2>1 DEF ServerTimely
  <2>3. beats' = beats \cup {0}
    BY <1>6, <2>2 DEF SendHeartbeat
  <2>4. CASE beats = {}
    <3>1. sAge =< cAge + Greet
      BY <2>1, <2>2, <2>4 DEF ServerTimely
    <3>2. sAge =< 0 + MaxAge + Greet
      BY <3>1, <2>1, <1>0
    <3> QED
      BY <3>2, <2>3
  <2>5. CASE beats # {}
    BY <2>1, <2>2, <2>3, <2>5 DEF ServerTimely
  <2> QED
    BY <2>4, <2>5
<1>7. CASE ServerAccepts
  <2>1. beats = {} /\ beats' = {} /\ sAge' = 0 /\ cAge' = cAge
    BY <1>7 DEF ServerAccepts, Staged
  <2> QED
    BY <2>1, <1>0 DEF ServerTimely
<1>8. CASE ServerCloses \/ ServerVanishes
  BY <1>8 DEF ServerCloses, ServerVanishes, ServerEnds, ServerTimely
<1>9. CASE \E age \in beats : HandleHeartbeat(age)
  <2>1. PICK age \in beats : HandleHeartbeat(age)
    BY <1>9
  <2>2. /\ sAge' = 0 /\ cAge' = cAge /\ cpc' = cpc /\ srv' = srv
        /\ beats' \subseteq beats /\ beats # {} /\ MaxAge' = MaxAge
    BY <2>1 DEF HandleHeartbeat, MaxAge, LastWake, Period
  <2>3. CASE beats' = {}
    BY <2>2, <2>3, <1>0 DEF ServerTimely
  <2>4. CASE beats' # {}
    <3>1. PICK other \in beats' : other \in Nat
      BY <2>2, <2>4, <1>0
    <3>2. sAge' =< other + MaxAge' + Greet
      BY <3>1, <2>2, <1>0
    <3> QED
      BY <3>1, <3>2, <2>2, <2>4 DEF ServerTimely
  <2> QED
    BY <2>3, <2>4
<1>10. CASE ServerAnswers \/ ServerPushes \/ Lose \/ ResetArrives
  <2>1. UNCHANGED <<cpc, srv, beats, sAge, cAge>>
    BY <1>10 DEF ServerAnswers, ServerPushes, Lose, ResetArrives
  <2> QED
    BY <2>1, ServerTimelyKept
<1>11. CASE Tick
  <2>1. SUFFICES ASSUME srv = "open" PROVE ServerTimely'
    BY <1>11 DEF Tick, ServerTimely
  <2>2. /\ cpc' = cpc /\ srv' = srv /\ sAge' = sAge + 1 /\ MaxAge' = MaxAge
        /\ beats' = {age + 1 : age \in beats} /\ MayWait
    BY <1>11, <2>1 DEF Tick, MaxAge, LastWake, Period
  <2>3. CASE cpc \in {"connect", "greet", "response", "config"}
    <3>1. beats = {} /\ sAge < Greet
      BY <2>1, <2>2, <2>3 DEF MayWait, ServerTimely
    <3> QED
      BY <3>1, <2>2, <2>3, <1>0 DEF ServerTimely
  <2>4. CASE cpc \in Looping
    <3>1. cAge' = cAge + 1
      BY <1>11, <2>4 DEF Tick
    <3>2. CASE beats = {}
      BY <3>1, <3>2, <2>1, <2>2, <2>4, <1>0 DEF ServerTimely
    <3>3. CASE beats # {}
      <4>1. PICK age \in beats : sAge =< age + MaxAge + Greet
        BY <3>3, <2>1, <2>4 DEF ServerTimely
      <4>2. age + 1 \in beats' /\ sAge' =< (age + 1) + MaxAge' + Greet
        BY <4>1, <2>2, <1>0
      <4> QED
        BY <4>2, <2>2, <2>4 DEF ServerTimely
    <3> QED
      BY <3>2, <3>3
  <2>5. CASE cpc \in Ended
    BY <2>5, <2>2 DEF ServerTimely
  <2> QED
    BY <2>3, <2>4, <2>5 DEF ClientTypeOK
<1> QED
  BY <1>1, <1>2, <1>3, <1>4, <1>5, <1>6, <1>7, <1>8, <1>9, <1>10, <1>11
     DEF Next, ClientNext, ClientRuns, WorldNext
-------------------------------------------------------------------------------
(* The stages of the session and the timestamps.                            *)

LEMMA StagedStep ==
  ASSUME ClientTypeOK, Staged, Next PROVE Staged'
<1> USE DEF Staged
<1>1. CASE ClientConnects
  BY <1>1 DEF ClientConnects
<1>2. CASE ClientGreets
  BY <1>2 DEF ClientGreets, Written
<1>3. CASE ReadResponse
  BY <1>3 DEF ReadResponse
<1>4. CASE ResponseCut \/ ResponseEof \/ ClientFails \/ CallFails
  BY <1>4 DEF ResponseCut, ResponseEof, ClientFails, CallFails, Panic, Fail
<1>5. CASE SkipConfig \/ SendConfig
  BY <1>5 DEF SkipConfig, SendConfig, Sleep, Written
<1>6. CASE Wake
  BY <1>6 DEF Wake
<1>7. CASE SendHeartbeat
  BY <1>7 DEF SendHeartbeat, Written, Onward, Sleep
<1>8. CASE NoHeartbeat
  BY <1>8 DEF NoHeartbeat, Onward, Sleep
<1>9. ASSUME NEW t \in pads, Receive(t) PROVE Staged'
  BY <1>9 DEF Receive, Sleep
<1>10. CASE NothingReceived
  BY <1>10 DEF NothingReceived, Sleep
<1>11. CASE ServerAccepts
  BY <1>11 DEF ServerAccepts
<1>12. CASE ServerAnswers
  BY <1>12 DEF ServerAnswers
<1>13. CASE ServerCloses \/ ServerVanishes
  BY <1>13 DEF ServerCloses, ServerVanishes, ServerEnds, TimedOut
<1>14. ASSUME NEW age \in beats, HandleHeartbeat(age) PROVE Staged'
  BY <1>14 DEF HandleHeartbeat
<1>15. CASE ServerPushes \/ Lose
  BY <1>15 DEF ServerPushes, Lose
<1>16. CASE ResetArrives
  BY <1>16 DEF ResetArrives
<1>17. CASE Tick
  BY <1>17 DEF Tick
<1> QED
  BY <1>1, <1>2, <1>3, <1>4, <1>5, <1>6, <1>7, <1>8, <1>9, <1>10, <1>11, <1>12, <1>13,
     <1>14, <1>15, <1>16, <1>17 DEF Next, ClientNext, ClientRuns, WorldNext

\* What the device took last is what was received last in the order of readings.
LEMMA ShownStep ==
  ASSUME ClientTypeOK, lastStamp = newest, shown = newest, Next
  PROVE  lastStamp' = newest' /\ shown' = newest'
<1>1. ASSUME NEW t \in pads, Receive(t) PROVE lastStamp' = newest' /\ shown' = newest'
  <2>1. t \in Nat /\ lastStamp \in Nat
    BY ClientAssumption DEF ClientTypeOK
  <2> QED
    BY <1>1, <2>1 DEF Receive, TakeReport
<1>2. CASE ~\E t \in pads : Receive(t)
  <2>1. UNCHANGED <<lastStamp, shown, newest>>
    BY <1>2 DEF Next, ClientNext, ClientRuns, WorldNext, ClientConnects, ClientGreets, ReadResponse,
                ResponseCut, ResponseEof, ClientFails, CallFails, Panic, Fail, SkipConfig, SendConfig,
                Wake, SendHeartbeat, NoHeartbeat, NothingReceived, ServerAccepts,
                ServerAnswers, ServerCloses, ServerVanishes, ServerEnds, HandleHeartbeat,
                ServerPushes, Lose, ResetArrives, Tick
  <2> QED
    BY <2>1
<1> QED
  BY <1>1, <1>2

LEMMA StepInv == ClientInv /\ [Next]_clientVars => ClientInv'
<1> SUFFICES ASSUME ClientInv, [Next]_clientVars PROVE ClientInv'
  OBVIOUS
<1>1. CASE Next
  <2>1. ClientTypeOK'
    BY <1>1, StepType DEF ClientInv
  <2>2. ClientTimely' /\ ServerTimely' /\ Staged'
    BY <1>1, ClientTimelyStep, ServerTimelyStep, StagedStep DEF ClientInv
  <2>3. lastStamp' = newest' /\ shown' = newest'
    BY <1>1, ShownStep DEF ClientInv
  <2> QED
    BY <2>1, <2>2, <2>3 DEF ClientInv
<1>2. CASE UNCHANGED clientVars
  BY <1>2 DEF ClientInv, ClientTypeOK, ClientTimely, ServerTimely, Staged, HeartbeatDue,
              WholeSecs, Period, LastWake, MaxAge
<1> QED
  BY <1>1, <1>2

\* The strengthened invariant is inductive and holds in every reachable state.
THEOREM Invariance == ClientSpec => []ClientInv
BY InitInv, StepInv, PTL DEF ClientSpec

-------------------------------------------------------------------------------
(* The properties.                                                          *)

LEMMA InvKeptAlive == ClientInv => KeptAlive
<1> SUFFICES ASSUME ClientInv, cpc \notin Ended, srv = "open"
             PROVE  ~(WholeSecs(sAge) > HeartbeatFreq)
  BY DEF KeptAlive, TimedOut
<1>0. /\ sAge \in Nat /\ cAge \in Nat /\ beats \subseteq 0 .. Delay
      /\ Greet \in Nat /\ Delay \in Nat /\ MaxAge \in Nat
      /\ Sec \in Nat \ {0} /\ HeartbeatFreq \in Nat
  BY MaxAgeType, ClientAssumption DEF ClientInv, ClientTypeOK
<1>1. sAge =< MaxAge + Greet + Delay
  <2>1. CASE cpc \in {"connect", "greet", "response", "config"}
    BY <2>1, <1>0 DEF ClientInv, ServerTimely
  <2>2. CASE cpc \in Looping
    <3>1. cAge =< MaxAge
      <4>1. CASE cpc = "poll"
        BY <4>1, <1>0, MaxAgeType, ClientAssumption
           DEF ClientInv, ClientTypeOK, ClientTimely
      <4>2. CASE cpc = "beat"
        BY <4>2 DEF ClientInv, ClientTimely
      <4>3. CASE cpc = "recv"
        BY <4>3, <1>0, NotDue, NotDueAge DEF ClientInv, ClientTimely
      <4> QED
        BY <2>2, <4>1, <4>2, <4>3
    <3>2. CASE beats = {}
      BY <3>1, <3>2, <2>2, <1>0 DEF ClientInv, ServerTimely
    <3>3. CASE beats # {}
      <4>1. PICK age \in beats : sAge =< age + MaxAge + Greet
        BY <3>3, <2>2 DEF ClientInv, ServerTimely
      <4>2. age \in 0 .. Delay
        BY <1>0
      <4> QED
        BY <4>1, <4>2, <1>0
    <3> QED
      BY <3>2, <3>3
  <2> QED
    BY <2>1, <2>2 DEF ClientInv, ClientTypeOK
<1>2. sAge < (HeartbeatFreq + 1) * Sec
  BY <1>0, <1>1, MarginCovers
<1>3. WholeSecs(sAge) =< HeartbeatFreq
  BY <1>0, <1>2, DivLimit DEF WholeSecs
<1>4. WholeSecs(sAge) \in Nat
  BY <1>0, DivBounds DEF WholeSecs
<1> QED
  BY <1>0, <1>3, <1>4

\* A client that runs is never dropped for the lack of heartbeats, if what
\* delays them fits the margin, although both ends compare whole seconds.
THEOREM HeartbeatsInTime == ClientSpec => []KeptAlive
BY Invariance, InvKeptAlive, PTL

\* The device shows the newest reading that arrived, in whatever order the
\* datagrams come.
THEOREM NewestReading == ClientSpec => []NewestShown
<1>1. ClientInv => NewestShown
  BY DEF ClientInv, NewestShown
<1> QED
  BY <1>1, Invariance, PTL

-------------------------------------------------------------------------------
(* The refinement of SessionSlot.                                           *)

USE DEF Slot!slotVars

LEMMA SlotInit == ClientInit => Slot!SlotInit
BY DEF ClientInit, Slot!SlotInit

\* The stutter, and the step of a target.
LEMMA SlotPush ==
  ASSUME Staged', UNCHANGED <<srv, said, answered>>
  PROVE  [Slot!SlotNext]_Slot!slotVars
<1>1. (IF pads' = {} THEN None ELSE Me) \in (IF answered THEN {Me} ELSE {}) \cup {None}
  BY DEF Staged
<1>2. Slot!Push
  BY <1>1 DEF Slot!Push
<1> QED
  BY <1>2 DEF Slot!SlotNext

LEMMA SlotStep ==
  ClientInv /\ ClientInv' /\ [Next]_clientVars => [Slot!SlotNext]_Slot!slotVars
<1> SUFFICES ASSUME ClientInv, ClientInv', [Next]_clientVars
             PROVE  [Slot!SlotNext]_Slot!slotVars
  OBVIOUS
<1>0. Staged /\ Staged'
  BY DEF ClientInv
<1>1. CASE ClientConnects
  <2>1. srv = "none" /\ srv' = "backlog" /\ UNCHANGED <<said, answered, pads>>
    BY <1>0, <1>1 DEF ClientConnects, Staged
  <2>2. Slot!Queue(Me)
    BY <2>1 DEF Slot!Queue
  <2> QED
    BY <2>2 DEF Slot!SlotNext
<1>2. CASE ClientGreets
  <2>1. srv # "none" /\ "Handshake" \notin said /\ said' = said \cup {"Handshake"}
        /\ UNCHANGED <<srv, answered, pads>>
    BY <1>0, <1>2 DEF ClientGreets, Written, Staged
  <2>2. Slot!Say(Me, "Handshake")
    BY <2>1 DEF Slot!Say
  <2> QED
    BY <2>2 DEF Slot!SlotNext
<1>3. CASE SendConfig
  <2>1. srv # "none" /\ "Config" \notin said /\ answered /\ said' = said \cup {"Config"}
        /\ UNCHANGED <<srv, answered, pads>>
    BY <1>0, <1>3 DEF SendConfig, Written, Staged
  <2>2. Slot!Say(Me, "Config")
    BY <2>1 DEF Slot!Say
  <2> QED
    BY <2>2 DEF Slot!SlotNext
<1>4. CASE ServerAccepts
  <2>1. srv = "backlog" /\ srv' = "open" /\ UNCHANGED <<said, answered, pads>>
    BY <1>4 DEF ServerAccepts
  <2>2. Slot!Hold(Me)
    BY <2>1 DEF Slot!Hold, Slot!Free
  <2> QED
    BY <2>2 DEF Slot!SlotNext
<1>5. CASE ServerAnswers
  <2>1. srv = "open" /\ "Handshake" \in said /\ answered' /\ UNCHANGED <<srv, said, pads>>
    BY <1>5 DEF ServerAnswers
  <2>2. Slot!Answer(Me)
    BY <2>1 DEF Slot!Answer
  <2> QED
    BY <2>2 DEF Slot!SlotNext
<1>6. CASE ServerCloses \/ ServerVanishes
  <2>1. srv \in {"backlog", "open"} /\ srv' = "closed" /\ UNCHANGED <<said, answered, pads>>
    BY <1>6 DEF ServerCloses, ServerVanishes, ServerEnds, TimedOut
  <2>2. Slot!End(Me)
    BY <2>1 DEF Slot!End
  <2> QED
    BY <2>2 DEF Slot!SlotNext
<1>7. CASE \/ ReadResponse \/ ResponseCut \/ ResponseEof \/ ClientFails \/ CallFails \/ SkipConfig
           \/ Wake \/ SendHeartbeat \/ NoHeartbeat \/ (\E t \in pads : Receive(t))
           \/ NothingReceived \/ (\E age \in beats : HandleHeartbeat(age))
           \/ ServerPushes \/ Lose \/ ResetArrives \/ Tick \/ UNCHANGED clientVars
  <2>1. UNCHANGED <<srv, said, answered>>
    BY <1>7 DEF ReadResponse, ResponseCut, ResponseEof, ClientFails, CallFails, Panic, Fail, SkipConfig,
                Wake, SendHeartbeat, Written, NoHeartbeat, Receive, NothingReceived,
                HandleHeartbeat, ServerPushes, Lose, ResetArrives, Tick
  <2> QED
    BY <2>1, <1>0, SlotPush
<1> QED
  BY <1>1, <1>2, <1>3, <1>4, <1>5, <1>6, <1>7 DEF Next, ClientNext, ClientRuns, WorldNext

\* The program keeps the client's side of the slot that the server keeps too:
\* one handshake, a configuration only after the answer, and pad data on its
\* way only after it.
THEOREM Refinement == ClientSpec => ImplementsSlot
<1>1. ClientInit => Slot!SlotInit
  BY SlotInit
<1> QED
  BY <1>1, Invariance, SlotStep, PTL DEF ClientSpec, ImplementsSlot, Slot!SlotSpec
===============================================================================
