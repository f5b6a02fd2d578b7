------------------------------- MODULE PadTiming -------------------------------
(***************************************************************************)
(* When pad data is pushed.  The client program takes a polling interval   *)
(* from its settings (cli/src/main.rs, vitaoxipad_config) and may send it; *)
(* the network thread pushes when more than its polling time has passed    *)
(* since the last push, and in between waits for what remains of it        *)
(* (server/include/client.hpp:81-93, server/src/net.cpp:207-359).          *)
(*                                                                         *)
(* Time passes in the steps of a turn: ctrl -> wait -> event -> push ->    *)
(* rest -> ctrl.  The pad mode changes between steps; a change inside one  *)
(* would leave less of that step to be waited for.                         *)
(***************************************************************************)
EXTENDS Integers

CONSTANTS
  Intervals,   \* polling intervals that a user may ask for
  MinRate,     \* MIN_POLLING_RATE of the client program
  MinPolling,  \* MIN_POLLING_INTERVAL_MICROS of the server
  Second,      \* SECOND_IN_MICROS
  Delay,       \* sceKernelDelayThread at the end of a turn
  Volume,      \* sceKernelDelayThread while a volume key is held
  Sample,      \* bound: time until the pad has a new sample
  Work,        \* bound: time the code of one step takes
  Word,        \* 2^64, where uint64_t wraps
  UintWord,    \* 2^32, where unsigned int wraps; as an int its upper half is negative
  MaxLost,     \* bound: sends that fail in a row
  MaxAge,      \* bound: ages are counted up to this, and fit into a Word
  None,        \* a setting that is not given
  Missing      \* a file that does not exist

ASSUME TimingAssumption ==
  /\ Intervals \subseteq Nat /\ {None, Missing} \cap Nat = {} /\ None # Missing
  /\ MinRate \in Nat /\ MinPolling \in Nat /\ MinRate =< MinPolling
  /\ Second \in Nat /\ Delay \in Nat /\ Volume \in Nat /\ Sample \in Nat /\ Work \in Nat
  /\ Word \in Nat /\ MaxAge \in 0 .. Word - 1
  /\ UintWord \in Nat \ {0} /\ MaxLost \in Nat
  /\ Work =< MinPolling

VARIABLES
  asked,        \* the client's setting of the interval
  pc,           \* where net_thread is in its turn
  client,       \* does the slot hold a client?
  connected,    \* is its state_ Connected?  reset() leaves the bytes in place
  configured,   \* was its Config handled?
  pollingTime,  \* Client::polling_time_
  timeout,      \* of the next sceNetEpollWait
  sentAge,      \* Client::time_since_last_sent_data()
  padMode,
  quiet,        \* history: how long a client has been without the data it is due
  lost          \* history: the pushes of it that failed since then

timingVars == <<asked, pc, client, connected, configured, pollingTime, timeout, sentAge,
                padMode, quiet, lost>>
session == <<asked, client, connected, configured, pollingTime>>

TimingTypeOK ==
  /\ asked \in Intervals \cup {None}
  /\ pc \in {"ctrl", "wait", "event", "push", "rest"}
  /\ client \in BOOLEAN /\ connected \in BOOLEAN /\ configured \in BOOLEAN
  /\ padMode \in BOOLEAN
  /\ pollingTime \in Nat /\ timeout \in Nat
  /\ sentAge \in 0 .. MaxAge /\ quiet \in 0 .. MaxAge /\ lost \in 0 .. MaxLost

-------------------------------------------------------------------------------
(* The settings of the client program.                                      *)

Or(a, b) == IF a # None THEN a ELSE b

\* load_config: of the files only the first that exists counts, and the
\* environment goes before it.
load_config(env, files) ==
  LET found == {i \in DOMAIN files : files[i] # Missing}
  IN  Or(env, IF found = {} THEN None
              ELSE files[CHOOSE i \in found : \A j \in found : i =< j])

Larger(a, b) == IF a >= b THEN a ELSE b

\* main: the interval the program goes by, and whether it tells the server.
polling_interval == IF asked = None THEN MinRate ELSE Larger(asked, MinRate)
SendsConfig == polling_interval # MinRate

TimingInit ==
  /\ \E arg, env \in Intervals \cup {None},
        files \in [1 .. 2 -> Intervals \cup {None, Missing}] :
       asked = Or(arg, load_config(env, files))
  /\ pc = "ctrl"
  /\ client = FALSE /\ connected = FALSE /\ configured = FALSE
  /\ pollingTime = MinPolling /\ timeout = MinPolling
  /\ sentAge = 0 /\ padMode = FALSE /\ quiet = 0 /\ lost = 0

-------------------------------------------------------------------------------
(* A turn of the loop of net_thread.                                        *)

Older(age, d) == IF age + d < MaxAge THEN age + d ELSE MaxAge

\* A client is due pad data while it is connected and pad mode is on.
Due == client /\ connected /\ padMode

Pass(d) ==
  /\ sentAge' = Older(sentAge, d)
  /\ quiet' = IF Due THEN Older(quiet, d) ELSE 0

is_polling_time_elapsed == sentAge > pollingTime

\* The difference wraps before it is clamped.
Wrapped(a, b) == IF a >= b THEN a - b ELSE a - b + Word

\* Mutant of remaining_polling_time: the difference is not clamped.
remaining_unclamped == Wrapped(pollingTime, sentAge)

remaining_polling_time ==
  LET left == Wrapped(pollingTime, sentAge)
  IN  IF left > pollingTime THEN pollingTime ELSE left

\* get_ctrl spins until the pad has a new sample.
get_ctrl ==
  /\ pc = "ctrl" /\ pc' = "wait"
  /\ \E d \in 0 .. Sample, key \in {0, Volume} : Pass(d + key)
  /\ UNCHANGED <<session, timeout, padMode, lost>>

\* A number of microseconds that the int of a timeout can hold.
Fits(t) == 2 * t < UintWord

\* sceNetEpollWait returns after the timeout, or before it with an event; a negative
\* timeout waits for an event however long.
EpollWait ==
  /\ pc = "wait" /\ pc' = "event"
  /\ \E d \in 0 .. (IF Fits(timeout) THEN timeout + Work ELSE MaxAge) : Pass(d)
  /\ UNCHANGED <<session, timeout, padMode, lost>>

\* The client is due nothing any more, or not yet.
NothingDue == quiet' = 0 /\ lost' = 0

\* The interface went down.
NetDown ==
  /\ pc = "event"
  /\ client' = FALSE /\ timeout' = Second /\ NothingDue
  /\ UNCHANGED <<asked, pc, connected, configured, pollingTime, sentAge, padMode>>

add_client ==
  /\ pc = "event" /\ ~client
  /\ client' = TRUE /\ connected' = FALSE /\ configured' = FALSE
  /\ pollingTime' = MinPolling /\ sentAge' = 0 /\ NothingDue
  /\ UNCHANGED <<asked, pc, timeout, padMode>>

send_handshake_response ==
  /\ pc = "event" /\ client /\ ~connected
  /\ connected' = TRUE
  /\ UNCHANGED <<asked, pc, client, configured, pollingTime, timeout, sentAge, padMode,
                 quiet, lost>>

\* Mutant of handle_config: any interval is taken.
handle_config_any ==
  /\ pc = "event" /\ client /\ connected /\ ~configured /\ SendsConfig
  /\ configured' = TRUE
  /\ pollingTime' = polling_interval
  /\ UNCHANGED <<asked, pc, client, connected, timeout, sentAge, padMode, quiet, lost>>

handle_config ==
  /\ pc = "event" /\ client /\ connected /\ ~configured /\ SendsConfig
  /\ configured' = TRUE
  /\ pollingTime' = IF polling_interval > MinPolling THEN polling_interval ELSE pollingTime
  /\ UNCHANGED <<asked, pc, client, connected, timeout, sentAge, padMode, quiet, lost>>

\* By an event or, after the events, by the heartbeat timeout.
disconnect_client ==
  /\ pc \in {"event", "push"} /\ client
  /\ client' = FALSE /\ NothingDue
  /\ UNCHANGED <<asked, pc, connected, configured, pollingTime, timeout, sentAge, padMode>>

EventsHandled ==
  /\ pc = "event"
  /\ pc' = IF client THEN "push" ELSE "ctrl"
  /\ \E d \in 0 .. Work : Pass(d)
  /\ UNCHANGED <<session, timeout, padMode, lost>>

\* Mutant of SendPad: the time of the push is not taken.
SendPadUntimed ==
  /\ pc = "push"
  /\ connected /\ is_polling_time_elapsed /\ padMode
  /\ \E d \in 0 .. Work : Pass(d)
  /\ pc' = IF client THEN "rest" ELSE "ctrl"
  /\ lost' = 0
  /\ UNCHANGED <<session, timeout, padMode>>

\* The state that is read may be that of a client just dropped.
SendPad ==
  /\ pc = "push"
  /\ connected /\ is_polling_time_elapsed /\ padMode
  /\ \E d \in 0 .. Work : sentAge' = Older(0, d) /\ quiet' = IF Due THEN Older(0, d) ELSE 0
  /\ pc' = IF client THEN "rest" ELSE "ctrl"
  /\ lost' = 0
  /\ UNCHANGED <<session, timeout, padMode>>

\* sceNetSendto fails: the time of the push was taken before it, so the next try is
\* a polling time away, and the timeout stays what it was.
SendFails ==
  /\ pc = "push" /\ pc' = "ctrl"
  /\ connected /\ is_polling_time_elapsed /\ padMode
  /\ lost < MaxLost
  /\ lost' = lost + 1
  /\ \E d \in 0 .. Work : sentAge' = Older(0, d) /\ quiet' = IF Due THEN Older(quiet, d) ELSE 0
  /\ UNCHANGED <<session, timeout, padMode>>

SkipPad ==
  /\ pc = "push"
  /\ ~(connected /\ is_polling_time_elapsed /\ padMode)
  /\ \E d \in 0 .. Work : Pass(d)
  /\ pc' = IF client THEN "rest" ELSE "ctrl"
  /\ UNCHANGED <<session, timeout, padMode, lost>>

\* The rest is a uint64_t, the timeout an unsigned int.
Rest ==
  /\ pc = "rest" /\ pc' = "ctrl"
  /\ timeout' = remaining_polling_time % UintWord
  /\ \E d \in 0 .. Work : Pass(Delay + d)
  /\ UNCHANGED <<session, padMode, lost>>

PadModeChanges ==
  /\ padMode' = ~padMode /\ NothingDue
  /\ UNCHANGED <<asked, pc, client, connected, configured, pollingTime, timeout, sentAge>>

TimingNext ==
  \/ get_ctrl \/ EpollWait \/ NetDown \/ add_client \/ send_handshake_response
  \/ handle_config \/ disconnect_client \/ EventsHandled \/ SendPad \/ SendFails
  \/ SkipPad \/ Rest \/ PadModeChanges

TimingSpec == TimingInit /\ [][TimingNext]_timingVars

-------------------------------------------------------------------------------
(* Properties.                                                              *)

\* The interval that the user has a right to: "minimum = 6000" (main.rs:34).
Wanted == IF asked = None THEN MinPolling ELSE Larger(asked, MinPolling)

\* The three minima, 4000 in the client, "> 4500us" in the schema and 6000 in the
\* server, work out as the help says: the polling time is what the user asked
\* for, or the server's own where he asked for less or for nothing.
IntervalInForce ==
  /\ pollingTime \in {MinPolling, Wanted}
  /\ client /\ (configured \/ ~SendsConfig) => pollingTime = Wanted

Overhead == Delay + Volume + Sample + 4 * Work

\* A client that is due data gets it within two polling times and what a turn
\* takes, for each send that fails and the one that does not.  Two, because the time
\* may elapse between the check and the subtraction, which then wraps: the thread
\* waits a whole polling time more.  A polling time of half an hour would not fit the
\* timeout, and nothing is said of it.
DataInTime == Fits(pollingTime) => quiet =< (lost + 1) * (2 * pollingTime + Overhead)

\* The inductive invariant behind DataInTime: how long a client may have been
\* without data at each place of the turn, since the last push that was tried.
QuietAt(interval) ==
  [rest |-> interval + Work,
   ctrl |-> interval + Delay + 2 * Work,
   wait |-> interval + Delay + Volume + Sample + 2 * Work,
   event |-> 2 * interval + Delay + Volume + Sample + 3 * Work,
   push |-> 2 * interval + Overhead]

\* The timeout is too long only for a client that has just come, and whom no push
\* can carry past the place where it is set.
TimeoutOK ==
  client => \/ timeout =< pollingTime
            \/ pc = "event" /\ sentAge = 0
            \/ pc = "push" /\ sentAge =< Work
            \/ pc = "rest"

\* What the sends that failed account for.
Excused == lost * (2 * pollingTime + Overhead)

TimingInv ==
  /\ TimingTypeOK
  /\ IntervalInForce
  /\ Fits(pollingTime) => /\ quiet =< Excused + QuietAt(pollingTime)[pc]
                          /\ quiet =< Excused + sentAge
  /\ ~Due => quiet = 0
  /\ TimeoutOK
===============================================================================
