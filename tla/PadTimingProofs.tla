--------------------------- MODULE PadTimingProofs ----------------------------
(***************************************************************************)
(* Proofs about PadTiming, for all intervals, minima and delays.           *)
(***************************************************************************)
EXTENDS PadTiming, TLAPS

USE DEF timingVars, session

-------------------------------------------------------------------------------
(* Arithmetic.                                                              *)

LEMMA ConstantTypes ==
  /\ Intervals \subseteq Nat /\ None \notin Nat
  /\ MinRate \in Nat /\ MinPolling \in Nat /\ MinRate =< MinPolling
  /\ Second \in Nat /\ Delay \in Nat /\ Volume \in Nat /\ Sample \in Nat /\ Work \in Nat
  /\ Word \in Nat /\ MaxAge \in Nat /\ MaxAge < Word /\ Work =< MinPolling
  /\ UintWord \in Nat /\ UintWord > 0 /\ MaxLost \in Nat
BY TimingAssumption

LEMMA OlderType ==
  ASSUME NEW age \in Nat, NEW d \in Nat
  PROVE  Older(age, d) \in 0 .. MaxAge /\ Older(age, d) =< age + d
BY ConstantTypes DEF Older

LEMMA OlderMonotone ==
  ASSUME NEW a \in Nat, NEW b \in Nat, a =< b, NEW d \in Nat
  PROVE  Older(a, d) =< Older(b, d)
BY ConstantTypes DEF Older

\* An age that another one is ahead of by at most x stays so.
LEMMA OlderAhead ==
  ASSUME NEW a \in Nat, NEW b \in Nat, NEW x \in Nat, a =< x + b, NEW d \in Nat
  PROVE  Older(a, d) =< x + Older(b, d)
BY ConstantTypes DEF Older

LEMMA SumType ==
  ASSUME NEW a \in Nat, NEW b \in Nat PROVE a + b \in Nat
OBVIOUS

LEMMA SumIsMore ==
  ASSUME NEW a \in Nat, NEW b \in Nat, NEW q \in Nat, q =< b PROVE q =< a + b
OBVIOUS

LEMMA SumMonotone ==
  ASSUME NEW a \in Nat, NEW b \in Nat, NEW c \in Nat, NEW d \in Nat, NEW q \in Nat,
         q =< a + b, a =< c, b =< d
  PROVE  q =< c + d
OBVIOUS

\* What a polling time and a turn take.
LEMMA RoundType ==
  ASSUME NEW interval \in Nat PROVE 2 * interval + Overhead \in Nat
BY ConstantTypes DEF Overhead

LEMMA RoundMonotone ==
  ASSUME NEW p \in Nat, NEW r \in Nat, p =< r
  PROVE  2 * p + Overhead =< 2 * r + Overhead
BY ConstantTypes DEF Overhead

LEMMA QuietAtMonotone ==
  ASSUME NEW p \in Nat, NEW r \in Nat, p =< r
  PROVE  QuietAt(p)["event"] =< QuietAt(r)["event"]
BY ConstantTypes DEF QuietAt

LEMMA ExcusedType ==
  ASSUME lost \in Nat, pollingTime \in Nat PROVE Excused \in Nat
<1>1. 2 * pollingTime + Overhead \in Nat
  BY ConstantTypes DEF Overhead
<1> QED
  BY <1>1 DEF Excused

LEMMA ProductMonotone ==
  ASSUME NEW n \in Nat, NEW a \in Nat, NEW b \in Nat, a =< b
  PROVE  n * a =< n * b /\ n * a \in Nat /\ n * b \in Nat
<1>1. PICK k \in Nat : b = a + k
  <2>1. b - a \in Nat /\ b = a + (b - a)
    OBVIOUS
  <2> QED
    BY <2>1
<1>2. n * b = n * a + n * k /\ n * a \in Nat /\ n * k \in Nat
  BY <1>1
<1> QED
  BY <1>2

\* One more push that failed accounts for one more round of the thread.
LEMMA OneMore ==
  ASSUME lost \in Nat, pollingTime \in Nat
  PROVE  (lost + 1) * (2 * pollingTime + Overhead) = Excused + (2 * pollingTime + Overhead)
<1>1. 2 * pollingTime + Overhead \in Nat
  BY ConstantTypes DEF Overhead
<1> QED
  BY <1>1 DEF Excused

\* The narrowing leaves alone what fits, and makes nothing longer.
LEMMA Narrowed ==
  ASSUME NEW t \in Nat
  PROVE  t % UintWord \in Nat /\ t % UintWord =< t
BY ConstantTypes

\* Whatever has elapsed and wherever the difference wraps, what remains is no
\* longer than the polling time.
LEMMA RemainingIsBounded ==
  ASSUME pollingTime \in Nat, sentAge \in 0 .. MaxAge
  PROVE  remaining_polling_time \in 0 .. pollingTime
<1> DEFINE left == Wrapped(pollingTime, sentAge)
<1>1. left \in Nat
  BY ConstantTypes DEF Wrapped
<1> HIDE DEF left
<1>2. remaining_polling_time = IF left > pollingTime THEN pollingTime ELSE left
  BY DEF remaining_polling_time, left
<1> QED
  BY <1>1, <1>2

\* The passing of time in a step that changes nothing of the session.
LEMMA TimePasses ==
  ASSUME sentAge \in 0 .. MaxAge, quiet \in 0 .. MaxAge, NEW x \in Nat,
         NEW d \in Nat, Pass(d)
  PROVE  /\ sentAge' \in 0 .. MaxAge /\ quiet' \in 0 .. MaxAge
         /\ quiet' =< quiet + d
         /\ quiet =< x + sentAge => quiet' =< x + sentAge'
         /\ ~Due => quiet' = 0
<1>1. sentAge \in Nat /\ quiet \in Nat /\ 0 \in 0 .. MaxAge
  BY ConstantTypes
<1>2. /\ Older(sentAge, d) \in 0 .. MaxAge
      /\ Older(quiet, d) \in 0 .. MaxAge
      /\ Older(quiet, d) =< quiet + d
      /\ quiet =< x + sentAge => Older(quiet, d) =< x + Older(sentAge, d)
  BY <1>1, OlderType, OlderAhead
<1>3. CASE Due
  BY <1>2, <1>3 DEF Pass
<1>4. CASE ~Due
  BY <1>1, <1>2, <1>4 DEF Pass
<1> QED
  BY <1>3, <1>4

\* The three minima agree on the interval that is in force in the end.
LEMMA MinimaAgree ==
  ASSUME asked \in Intervals \cup {None}
  PROVE  /\ polling_interval \in Nat /\ Wanted \in Nat
         /\ ~SendsConfig => Wanted = MinPolling
         /\ Wanted = Larger(polling_interval, MinPolling)
<1>1. CASE asked = None
  BY <1>1, ConstantTypes DEF polling_interval, Wanted, SendsConfig, Larger
<1>2. CASE asked # None
  <2>1. asked \in Nat
    BY <1>2, ConstantTypes
  <2>2. polling_interval = Larger(asked, MinRate) /\ Wanted = Larger(asked, MinPolling)
    BY <1>2 DEF polling_interval, Wanted
  <2> QED
    BY <2>1, <2>2, ConstantTypes DEF Larger, SendsConfig
<1> QED
  BY <1>1, <1>2

-------------------------------------------------------------------------------
(* TimingInv is inductive.                                                  *)

TimesOK ==
  Fits(pollingTime) => /\ quiet =< Excused + QuietAt(pollingTime)[pc]
                       /\ quiet =< Excused + sentAge

LEMMA InitInv == TimingInit => TimingInv
<1> SUFFICES ASSUME TimingInit PROVE TimingInv
  OBVIOUS
<1>1. asked \in Intervals \cup {None}
  <2>1. PICK arg \in Intervals \cup {None}, env \in Intervals \cup {None},
             files \in [1 .. 2 -> Intervals \cup {None, Missing}] :
          asked = Or(arg, load_config(env, files))
    BY DEF TimingInit
  <2> DEFINE found == {i \in 1 .. 2 : files[i] # Missing}
  <2>2. found # {} => \E i \in found : \A j \in found : i =< j
    <3>1. CASE 1 \in found
      BY <3>1
    <3>2. CASE 1 \notin found
      BY <3>2
    <3> QED
      BY <3>1, <3>2
  <2>3. load_config(env, files) \in Intervals \cup {None}
    BY <2>2 DEF load_config, Or
  <2> QED
    BY <2>1, <2>3 DEF Or
<1>2. TimingTypeOK
  <2>1. 0 \in 0 .. MaxAge /\ 0 \in 0 .. MaxLost /\ MinPolling \in Nat
    BY ConstantTypes
  <2> QED
    BY <1>1, <2>1 DEF TimingInit, TimingTypeOK
<1>3. IntervalInForce
  BY <1>1 DEF TimingInit, IntervalInForce
<1>4. QuietAt(pollingTime)[pc] = pollingTime + Delay + 2 * Work /\ Excused = 0
  BY ConstantTypes DEF TimingInit, QuietAt, Excused, Overhead
<1>5. TimesOK
  BY <1>4, ConstantTypes DEF TimingInit, TimesOK
<1> QED
  BY <1>2, <1>3, <1>5 DEF TimingInit, TimingInv, TimesOK, TimeoutOK

LEMMA QuietAtType ==
  ASSUME NEW interval \in Nat, NEW p \in {"ctrl", "wait", "event", "push", "rest"}
  PROVE  QuietAt(interval)[p] \in Nat
<1>1. /\ interval + Work \in Nat
      /\ interval + Delay + 2 * Work \in Nat
      /\ interval + Delay + Volume + Sample + 2 * Work \in Nat
      /\ 2 * interval + Delay + Volume + Sample + 3 * Work \in Nat
      /\ 2 * interval + Overhead \in Nat
  BY ConstantTypes DEF Overhead
<1> QED
  BY <1>1 DEF QuietAt

\* How long the client was without data, after a step of the turn.
LEMMA QuietStep ==
  ASSUME TimingInv, NEW d \in Nat, Pass(d), UNCHANGED <<session, lost>>,
         pc' \in {"ctrl", "wait", "event", "push", "rest"},
         Due /\ Fits(pollingTime) => quiet + d =< Excused + QuietAt(pollingTime)[pc']
  PROVE  /\ TimesOK' /\ (~Due => quiet' = 0)
         /\ sentAge' \in 0 .. MaxAge /\ quiet' \in 0 .. MaxAge
<1>0. Excused \in Nat /\ Excused' = Excused
  BY ExcusedType DEF TimingInv, TimingTypeOK, Excused, Overhead
<1>1. /\ sentAge' \in 0 .. MaxAge /\ quiet' \in 0 .. MaxAge
      /\ quiet' =< quiet + d /\ (~Due => quiet' = 0)
      /\ quiet =< Excused + sentAge => quiet' =< Excused + sentAge'
  BY <1>0, TimePasses DEF TimingInv, TimingTypeOK
<1>2. pollingTime' = pollingTime /\ pollingTime \in Nat /\ quiet \in Nat /\ quiet' \in Nat
  BY <1>1, ConstantTypes DEF TimingInv, TimingTypeOK
<1>3. QuietAt(pollingTime)[pc'] \in Nat
  BY <1>2, QuietAtType
<1>4. (QuietAt(pollingTime)[pc])' = QuietAt(pollingTime)[pc']
  BY <1>2 DEF QuietAt, Overhead
<1>5. Fits(pollingTime) => quiet' =< Excused + sentAge'
  BY <1>1 DEF TimingInv
<1>6. Fits(pollingTime) => quiet' =< Excused + QuietAt(pollingTime)[pc']
  <2> DEFINE most == Excused + QuietAt(pollingTime)[pc']
  <2>1. most \in Nat
    BY <1>0, <1>3
  <2>2. Due /\ Fits(pollingTime) => quiet + d =< most
    OBVIOUS
  <2> HIDE DEF most
  <2>3. Fits(pollingTime) => quiet' =< most
    BY <1>1, <1>2, <2>1, <2>2
  <2> QED
    BY <2>3 DEF most
<1>7. Fits(pollingTime)' = Fits(pollingTime)
  BY <1>2 DEF Fits
<1> QED
  BY <1>0, <1>1, <1>4, <1>5, <1>6, <1>7 DEF TimesOK

\* A step in which time passes and that leaves the session alone.
LEMMA TimedStep ==
  ASSUME TimingInv, NEW d \in Nat, Pass(d), UNCHANGED <<session, padMode, lost>>,
         pc' \in {"ctrl", "wait", "event", "push", "rest"},
         Due /\ Fits(pollingTime) => quiet + d =< Excused + QuietAt(pollingTime)[pc'],
         timeout' \in Nat, TimeoutOK'
  PROVE  TimingInv'
<1>1. /\ TimesOK' /\ (~Due => quiet' = 0)
      /\ sentAge' \in 0 .. MaxAge /\ quiet' \in 0 .. MaxAge
  BY QuietStep
<1>2. Due' = Due
  BY DEF Due
<1>3. IntervalInForce'
  BY DEF TimingInv, IntervalInForce, Wanted, SendsConfig, polling_interval, Larger
<1>4. TimingTypeOK'
  BY <1>1 DEF TimingInv, TimingTypeOK
<1> QED
  BY <1>1, <1>2, <1>3, <1>4 DEF TimingInv, TimesOK

LEMMA TurnInv ==
  ASSUME TimingInv, get_ctrl \/ EpollWait \/ EventsHandled \/ SkipPad \/ Rest
  PROVE  TimingInv'
<1> USE ConstantTypes
<1>0. /\ quiet \in Nat /\ pollingTime \in Nat /\ timeout \in Nat /\ sentAge \in 0 .. MaxAge
      /\ Excused \in Nat
      /\ Fits(pollingTime) => /\ quiet =< Excused + QuietAt(pollingTime)[pc]
                              /\ quiet =< Excused + sentAge
  BY ExcusedType DEF TimingInv, TimingTypeOK
<1>1. CASE get_ctrl
  <2>1. PICK d \in 0 .. Sample, key \in {0, Volume} : Pass(d + key)
    BY <1>1 DEF get_ctrl
  <2>2. /\ Fits(pollingTime) => quiet + (d + key) =< Excused + QuietAt(pollingTime)["wait"]
        /\ d + key \in Nat
    BY <1>0, <1>1 DEF get_ctrl, QuietAt
  <2> QED
    BY <1>0, <1>1, <2>1, <2>2, TimedStep DEF get_ctrl, TimingInv, TimeoutOK
<1>2. CASE EpollWait
  <2>1. PICK d \in 0 .. (IF Fits(timeout) THEN timeout + Work ELSE MaxAge) : Pass(d)
    BY <1>2 DEF EpollWait
  <2>2. d \in Nat
    BY <1>0, <2>1
  <2>3. Due /\ Fits(pollingTime) => quiet + d =< Excused + QuietAt(pollingTime)["event"]
    <3> SUFFICES ASSUME Due, Fits(pollingTime)
                 PROVE  quiet + d =< Excused + QuietAt(pollingTime)["event"]
      OBVIOUS
    <3>1. timeout =< pollingTime
      BY <1>2 DEF TimingInv, TimeoutOK, EpollWait, Due
    <3>2. d =< timeout + Work
      BY <1>0, <2>1, <3>1 DEF Fits
    <3> QED
      BY <1>0, <1>2, <2>2, <3>1, <3>2 DEF EpollWait, QuietAt
  <2> QED
    BY <1>0, <1>2, <2>1, <2>2, <2>3, TimedStep DEF EpollWait, TimingInv, TimeoutOK
<1>3. CASE EventsHandled
  <2>1. PICK d \in 0 .. Work : Pass(d)
    BY <1>3 DEF EventsHandled
  <2>2. Due => pc' = "push"
    BY <1>3 DEF EventsHandled, Due
  <2>3. Fits(pollingTime) => quiet + d =< Excused + QuietAt(pollingTime)["push"]
    BY <1>0, <1>3 DEF EventsHandled, QuietAt, Overhead
  <2>4. TimeoutOK'
    <3>1. sentAge = 0 => sentAge' =< Work /\ sentAge' \in Nat
      BY <1>0, <2>1, OlderType DEF Pass
    <3> QED
      BY <1>3, <3>1 DEF EventsHandled, TimingInv, TimeoutOK
  <2> QED
    BY <1>0, <1>3, <2>1, <2>2, <2>3, <2>4, TimedStep DEF EventsHandled
<1>4. CASE SkipPad
  <2>1. PICK d \in 0 .. Work : Pass(d)
    BY <1>4 DEF SkipPad
  <2>2. Due => pc' = "rest" /\ sentAge =< pollingTime
    BY <1>0, <1>4 DEF SkipPad, Due, is_polling_time_elapsed
  <2>3. Due /\ Fits(pollingTime) => quiet + d =< Excused + QuietAt(pollingTime)["rest"]
    BY <1>0, <2>2 DEF QuietAt
  <2> QED
    BY <1>0, <1>4, <2>1, <2>2, <2>3, TimedStep DEF SkipPad, TimeoutOK
<1>5. CASE Rest
  <2>1. PICK d \in 0 .. Work : Pass(Delay + d)
    BY <1>5 DEF Rest
  <2>2. /\ Fits(pollingTime)
             => quiet + (Delay + d) =< Excused + QuietAt(pollingTime)["ctrl"]
        /\ Delay + d \in Nat
    BY <1>0, <1>5 DEF Rest, QuietAt
  <2>3. timeout' \in Nat /\ timeout' =< pollingTime
    <3>1. remaining_polling_time \in 0 .. pollingTime
      BY <1>0, RemainingIsBounded
    <3> DEFINE left == remaining_polling_time
    <3> HIDE DEF left
    <3>2. left \in Nat /\ left =< pollingTime
      BY <1>0, <3>1 DEF left
    <3>3. left % UintWord \in Nat /\ left % UintWord =< left
      BY <3>2, Narrowed
    <3>4. timeout' = left % UintWord
      BY <1>5 DEF Rest, left
    <3> QED
      BY <1>0, <3>2, <3>3, <3>4
  <2> QED
    BY <1>0, <1>5, <2>1, <2>2, <2>3, TimedStep DEF Rest, TimeoutOK
<1> QED
  BY <1>1, <1>2, <1>3, <1>4, <1>5

\* A client that has just been sent data, or that is due none.
LEMMA QuietIsZero ==
  ASSUME quiet' = 0, lost' \in Nat, pollingTime' \in Nat, sentAge' \in 0 .. MaxAge,
         pc' \in {"ctrl", "wait", "event", "push", "rest"}
  PROVE  TimesOK' /\ quiet' \in 0 .. MaxAge
<1>1. (QuietAt(pollingTime)[pc])' \in Nat
  <2>1. (QuietAt(pollingTime)[pc])' = QuietAt(pollingTime')[pc']
    BY DEF QuietAt, Overhead
  <2> QED
    BY <2>1, QuietAtType
<1>2. Excused' \in Nat
  <2>1. 2 * pollingTime' + Overhead \in Nat
    BY RoundType
  <2>2. Excused' = lost' * (2 * pollingTime' + Overhead)
    BY DEF Excused, Overhead
  <2> QED
    BY <2>1, <2>2
<1>3. Excused' + (QuietAt(pollingTime)[pc])' \in Nat /\ Excused' + sentAge' \in Nat
  <2>1. sentAge' \in Nat
    BY ConstantTypes
  <2> QED
    BY <1>1, <1>2, <2>1, SumType
<1>4. /\ quiet' =< Excused' + (QuietAt(pollingTime)[pc])'
      /\ quiet' =< Excused' + sentAge'
  BY <1>3
<1> QED
  BY <1>4, ConstantTypes DEF TimesOK

LEMMA OtherInv ==
  ASSUME TimingInv,
         NetDown \/ add_client \/ send_handshake_response \/ handle_config
           \/ disconnect_client \/ SendPad \/ SendFails \/ PadModeChanges
  PROVE  TimingInv'
<1> USE ConstantTypes
<1>0. /\ quiet \in 0 .. MaxAge /\ pollingTime \in Nat /\ timeout \in Nat
      /\ sentAge \in 0 .. MaxAge /\ pc \in {"ctrl", "wait", "event", "push", "rest"}
      /\ TimesOK /\ Second \in Nat /\ MinPolling \in Nat /\ 0 \in 0 .. MaxAge
      /\ lost \in 0 .. MaxLost /\ 0 \in 0 .. MaxLost
  BY DEF TimingInv, TimingTypeOK, TimesOK
<1>1. CASE NetDown
  <2>1. TimesOK' /\ TimingTypeOK'
    BY <1>0, <1>1, QuietIsZero DEF NetDown, NothingDue, TimingInv, TimingTypeOK
  <2>2. IntervalInForce'
    BY <1>1 DEF NetDown, TimingInv, IntervalInForce, Wanted
  <2> QED
    BY <1>1, <2>1, <2>2 DEF NetDown, NothingDue, TimingInv, TimesOK, TimeoutOK
<1>2. CASE add_client
  <2>1. TimesOK' /\ TimingTypeOK'
    BY <1>0, <1>2, QuietIsZero DEF add_client, NothingDue, TimingInv, TimingTypeOK
  <2>2. IntervalInForce'
    <3>1. ~SendsConfig => Wanted = MinPolling
      BY MinimaAgree DEF TimingInv, TimingTypeOK
    <3>2. Wanted' = Wanted /\ SendsConfig' = SendsConfig
      BY <1>2 DEF add_client, Wanted, SendsConfig, polling_interval
    <3> QED
      BY <1>2, <3>1, <3>2 DEF add_client, IntervalInForce
  <2> QED
    BY <1>2, <2>1, <2>2 DEF add_client, NothingDue, TimingInv, TimesOK, TimeoutOK
<1>3. CASE send_handshake_response
  <2>1. quiet = 0
    BY <1>3 DEF send_handshake_response, TimingInv, Due
  <2>2. TimesOK' /\ TimingTypeOK'
    BY <1>0, <1>3, <2>1, QuietIsZero DEF send_handshake_response, TimingInv, TimingTypeOK
  <2>3. IntervalInForce'
    BY <1>3 DEF send_handshake_response, TimingInv, IntervalInForce, Wanted, SendsConfig,
       polling_interval
  <2> QED
    BY <1>3, <2>1, <2>2, <2>3 DEF send_handshake_response, TimingInv, TimesOK, TimeoutOK
<1>4. CASE handle_config
  <2>1. /\ Wanted = Larger(polling_interval, MinPolling)
        /\ polling_interval \in Nat /\ Wanted \in Nat
        /\ pollingTime \in {MinPolling, Wanted}
    BY MinimaAgree DEF TimingInv, TimingTypeOK, IntervalInForce
  <2>2. pollingTime' = IF polling_interval > MinPolling THEN polling_interval ELSE pollingTime
    BY <1>4 DEF handle_config
  <2>3. pollingTime' = Wanted /\ Wanted' = Wanted /\ Wanted >= MinPolling
    <3>1. Wanted >= MinPolling
      BY <1>0, <2>1 DEF Larger
    <3>2. Wanted' = Wanted
      BY <1>4 DEF handle_config, Wanted
    <3>3. CASE polling_interval > MinPolling
      BY <1>0, <2>1, <2>2, <3>1, <3>2, <3>3 DEF Larger
    <3>4. CASE ~(polling_interval > MinPolling)
      BY <1>0, <2>1, <2>2, <3>1, <3>2, <3>4 DEF Larger
    <3> QED
      BY <3>3, <3>4
  <2>4. IntervalInForce'
    BY <2>3 DEF IntervalInForce
  <2>5. pollingTime' >= pollingTime
    BY <1>0, <2>1, <2>3
  <2>6. TimingTypeOK'
    BY <1>4, <2>1, <2>3 DEF handle_config, TimingInv, TimingTypeOK
  <2>7. quiet' = quiet /\ pc' = "event" /\ pc = "event" /\ sentAge' = sentAge /\ Due' = Due
    BY <1>4 DEF handle_config, Due
  <2>8. TimesOK'
    <3> SUFFICES ASSUME Fits(pollingTime')
                 PROVE  /\ quiet' =< Excused' + QuietAt(pollingTime')["event"]
                        /\ quiet' =< Excused' + sentAge'
      BY <2>7 DEF TimesOK, QuietAt, Overhead, Fits
    <3>1. pollingTime' \in Nat /\ Fits(pollingTime)
      BY <1>0, <2>1, <2>3, <2>5 DEF Fits
    <3>2. /\ quiet =< Excused + QuietAt(pollingTime)["event"]
          /\ quiet =< Excused + sentAge
      BY <2>7, <3>1 DEF TimesOK, TimingInv
    <3>3. Excused =< Excused' /\ Excused \in Nat /\ Excused' \in Nat
      <4> DEFINE a == 2 * pollingTime + Overhead  b == 2 * pollingTime' + Overhead
      <4>1. a \in Nat /\ b \in Nat /\ a =< b
        BY <1>0, <2>5, <3>1, RoundType, RoundMonotone
      <4>2. lost \in Nat /\ Excused = lost * a /\ Excused' = lost * b
        BY <1>0, <1>4 DEF handle_config, Excused, Overhead
      <4> HIDE DEF a, b
      <4> QED
        BY <4>1, <4>2, ProductMonotone
    <3>4. QuietAt(pollingTime)["event"] =< QuietAt(pollingTime')["event"]
      BY <1>0, <2>5, <3>1, QuietAtMonotone
    <3>5. QuietAt(pollingTime)["event"] \in Nat /\ QuietAt(pollingTime')["event"] \in Nat
      BY <1>0, <3>1, QuietAtType
    <3> QED
      <4>1. quiet \in Nat /\ sentAge \in Nat /\ sentAge =< sentAge
        BY <1>0
      <4> QED
        BY <2>7, <3>2, <3>3, <3>4, <3>5, <4>1, SumMonotone
  <2>9. TimeoutOK'
    BY <1>0, <1>4, <2>1, <2>3, <2>5 DEF handle_config, TimingInv, TimeoutOK
  <2> QED
    BY <2>4, <2>6, <2>7, <2>8, <2>9 DEF TimingInv, TimesOK
<1>5. CASE disconnect_client
  <2>1. TimesOK' /\ TimingTypeOK'
    BY <1>0, <1>5, QuietIsZero DEF disconnect_client, NothingDue, TimingInv, TimingTypeOK
  <2>2. IntervalInForce'
    BY <1>5 DEF disconnect_client, TimingInv, IntervalInForce, Wanted
  <2> QED
    BY <1>5, <2>1, <2>2 DEF disconnect_client, NothingDue, TimingInv, TimesOK, TimeoutOK
<1>6. CASE PadModeChanges
  <2>1. TimesOK' /\ TimingTypeOK'
    BY <1>0, <1>6, QuietIsZero DEF PadModeChanges, NothingDue, TimingInv, TimingTypeOK
  <2>2. IntervalInForce'
    BY <1>6 DEF PadModeChanges, TimingInv, IntervalInForce, Wanted, SendsConfig,
       polling_interval
  <2> QED
    BY <1>6, <2>1, <2>2 DEF PadModeChanges, NothingDue, TimingInv, TimesOK, TimeoutOK
<1>7. CASE SendPad
  <2>1. PICK d \in 0 .. Work : sentAge' = Older(0, d) /\ quiet' = IF Due THEN Older(0, d) ELSE 0
    BY <1>7 DEF SendPad
  <2>2. sentAge' \in 0 .. MaxAge /\ sentAge' =< Work
    BY <2>1, OlderType
  <2>3. quiet' \in {0, sentAge'} /\ (~Due => quiet' = 0)
    BY <2>1
  <2>4. TimesOK'
    <3>1. quiet' =< sentAge' /\ quiet' =< Work /\ quiet' \in Nat
      BY <2>2, <2>3
    <3>2. pc' \in {"ctrl", "rest"} /\ pollingTime' = pollingTime
      BY <1>7 DEF SendPad
    <3>3. Excused' = 0
      BY <1>0, <1>7 DEF SendPad, Excused, Overhead
    <3>4. (QuietAt(pollingTime)[pc])' >= Work
      BY <1>0, <3>2 DEF QuietAt
    <3> QED
      <4>1. (QuietAt(pollingTime)[pc])' \in Nat
        <5>1. (QuietAt(pollingTime)[pc])' = QuietAt(pollingTime')[pc']
          BY DEF QuietAt, Overhead
        <5> QED
          BY <1>0, <3>2, <5>1, QuietAtType
      <4>2. /\ quiet' =< Excused' + (QuietAt(pollingTime)[pc])'
            /\ quiet' =< Excused' + sentAge'
        <5>1. quiet' =< (QuietAt(pollingTime)[pc])'
          BY <3>1, <3>4, <4>1
        <5>2. Excused' \in Nat /\ sentAge' \in Nat
          BY <2>2, <3>3
        <5> QED
          BY <3>1, <4>1, <5>1, <5>2, SumIsMore
      <4> QED
        BY <4>2 DEF TimesOK
  <2>5. TimingTypeOK'
    <3>1. pc' \in {"ctrl", "rest"} /\ lost' = 0
      BY <1>7 DEF SendPad
    <3>2. quiet' \in 0 .. MaxAge
      BY <1>0, <2>2, <2>3
    <3> QED
      BY <1>0, <1>7, <2>2, <3>1, <3>2 DEF SendPad, TimingInv, TimingTypeOK
  <2>6. IntervalInForce' /\ Due' = Due
    BY <1>7 DEF SendPad, TimingInv, IntervalInForce, Wanted, SendsConfig, polling_interval,
       Due
  <2>7. TimeoutOK'
    BY <1>7 DEF SendPad, TimeoutOK
  <2> QED
    BY <2>3, <2>4, <2>5, <2>6, <2>7 DEF TimingInv, TimesOK
<1>8. CASE SendFails
  <2>1. PICK d \in 0 .. Work :
          sentAge' = Older(0, d) /\ quiet' = IF Due THEN Older(quiet, d) ELSE 0
    BY <1>8 DEF SendFails
  <2>2. /\ sentAge' \in 0 .. MaxAge
        /\ quiet' \in 0 .. MaxAge /\ quiet' =< quiet + d /\ (~Due => quiet' = 0)
    <3>1. d \in Nat /\ quiet \in Nat
      BY <1>0
    <3>2. /\ Older(0, d) \in 0 .. MaxAge
          /\ Older(quiet, d) \in 0 .. MaxAge /\ Older(quiet, d) =< quiet + d
      BY <3>1, OlderType
    <3>3. CASE Due
      BY <2>1, <3>2, <3>3
    <3>4. CASE ~Due
      BY <1>0, <2>1, <3>1, <3>2, <3>4
    <3> QED
      BY <3>3, <3>4
  <2>3. pc = "push" /\ pc' = "ctrl" /\ lost' = lost + 1 /\ lost' \in 0 .. MaxLost
    BY <1>0, <1>8 DEF SendFails
  <2>4. UNCHANGED <<session, timeout, padMode>>
    BY <1>8 DEF SendFails
  <2>5. Excused \in Nat /\ Excused' = Excused + (2 * pollingTime + Overhead)
    <3>1. Excused' = (lost + 1) * (2 * pollingTime + Overhead)
      BY <2>3, <2>4 DEF Excused, Overhead
    <3> QED
      BY <1>0, <3>1, OneMore, ExcusedType
  <2>6. TimesOK'
    <3> SUFFICES ASSUME Fits(pollingTime)
                 PROVE  /\ quiet' =< Excused' + QuietAt(pollingTime)["ctrl"]
                        /\ quiet' =< Excused' + sentAge'
      BY <2>3, <2>4 DEF TimesOK, QuietAt, Overhead, Fits
    <3>1. quiet =< Excused'
      BY <1>0, <2>3, <2>5 DEF TimesOK, QuietAt
    <3>2. Excused' \in Nat
      BY <1>0, <2>5 DEF Overhead
    <3>3. quiet' =< Excused' + sentAge'
      <4>1. Older(quiet, d) =< Excused' + Older(0, d)
        BY <1>0, <3>1, <3>2, OlderAhead
      <4>2. Excused' + Older(0, d) >= 0
        BY <3>2, OlderType
      <4> QED
        BY <2>1, <4>1, <4>2
    <3>4. quiet' =< Excused' + QuietAt(pollingTime)["ctrl"]
      <4> DEFINE room == QuietAt(pollingTime)["ctrl"]
      <4>1. room \in Nat /\ room >= Work
        BY <1>0 DEF QuietAt
      <4>2. d \in Nat /\ d =< Work /\ quiet \in Nat /\ quiet' \in Nat
        BY <1>0, <2>2
      <4> HIDE DEF room
      <4>3. quiet' =< Excused' + room
        <5>1. d =< room
          BY <4>1, <4>2
        <5> QED
          BY <2>2, <3>1, <3>2, <4>1, <4>2, <5>1, SumMonotone
      <4> QED
        BY <4>3 DEF room
    <3> QED
      BY <3>3, <3>4
  <2>7. TimingTypeOK'
    BY <1>0, <2>2, <2>3, <2>4 DEF TimingInv, TimingTypeOK
  <2>8. IntervalInForce' /\ Due' = Due
    BY <2>4 DEF TimingInv, IntervalInForce, Wanted, SendsConfig, polling_interval, Due
  <2>9. TimeoutOK'
    <3> SUFFICES ASSUME client PROVE timeout =< pollingTime
      BY <2>4 DEF TimeoutOK
    <3>1. pollingTime >= MinPolling
      BY MinimaAgree DEF TimingInv, TimingTypeOK, IntervalInForce, Larger
    <3>2. ~(sentAge =< Work)
      BY <1>0, <1>8, <3>1 DEF SendFails, is_polling_time_elapsed
    <3> QED
      BY <2>3, <3>2 DEF TimingInv, TimeoutOK
  <2> QED
    BY <2>2, <2>6, <2>7, <2>8, <2>9 DEF TimingInv, TimesOK
<1> QED
  BY <1>1, <1>2, <1>3, <1>4, <1>5, <1>6, <1>7, <1>8

LEMMA StepInv == TimingInv /\ [TimingNext]_timingVars => TimingInv'
<1>1. ASSUME TimingInv, UNCHANGED timingVars PROVE TimingInv'
  BY <1>1 DEF TimingInv, TimingTypeOK, IntervalInForce, Wanted, SendsConfig,
     polling_interval, Due, QuietAt, Overhead, TimeoutOK, Excused, Fits
<1> QED
  BY <1>1, TurnInv, OtherInv DEF TimingNext

-------------------------------------------------------------------------------
\* The strengthened invariant holds of every reachable state.
THEOREM Invariance == TimingSpec => []TimingInv
BY InitInv, StepInv, PTL DEF TimingSpec

\* The polling time is the one the user asked for, or the server's minimum,
\* whatever the three minima of client, schema and server are.
THEOREM AskedIsInForce == TimingSpec => []IntervalInForce
<1>1. TimingInv => IntervalInForce
  BY DEF TimingInv
<1> QED
  BY <1>1, Invariance, PTL

\* A client that is due pad data waits two polling times and a turn at most, for
\* each push that fails and the one that does not.
THEOREM PadDataInTime == TimingSpec => []DataInTime
<1>1. TimingInv => DataInTime
  <2> SUFFICES ASSUME TimingInv PROVE DataInTime
    OBVIOUS
  <2> SUFFICES ASSUME Fits(pollingTime)
               PROVE  quiet =< (lost + 1) * (2 * pollingTime + Overhead)
    BY DEF DataInTime
  <2>1. /\ quiet \in Nat /\ pollingTime \in Nat /\ lost \in Nat /\ Excused \in Nat
        /\ quiet =< Excused + QuietAt(pollingTime)[pc]
        /\ pc \in {"ctrl", "wait", "event", "push", "rest"}
    BY ConstantTypes, ExcusedType DEF TimingInv, TimingTypeOK
  <2>2. QuietAt(pollingTime)[pc] =< 2 * pollingTime + Overhead
    BY <2>1, ConstantTypes DEF QuietAt, Overhead
  <2>3. QuietAt(pollingTime)[pc] \in Nat /\ 2 * pollingTime + Overhead \in Nat
    BY <2>1, QuietAtType, ConstantTypes DEF Overhead
  <2> QED
    BY <2>1, <2>2, <2>3, OneMore
<1> QED
  BY <1>1, Invariance, PTL
===============================================================================
