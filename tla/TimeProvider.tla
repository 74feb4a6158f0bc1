---------------------------- MODULE TimeProvider ----------------------------
(***************************************************************************)
(* LocalTimeProvider (src/src/transaction/local-time-provider.cpp): the    *)
(* per-executor source of local timestamps.  GetTime hands out             *)
(* time_value_ + count_ and every Interval calls re-reads the wall clock;  *)
(* SetTime(t) moves the clock forward past a commit timestamp.  The wall   *)
(* clock (std::chrono::system_clock) is not steady: it may move backwards  *)
(* as well as forwards, so it is a free input bounded by MaxWall.          *)
(***************************************************************************)
EXTENDS Integers

CONSTANTS
    Interval,   \* Constant::TIME_PROVIDER_INTERVAL
    MaxWall,    \* largest wall-clock reading considered
    MaxTime     \* bound on time_value_ + count_, caps GetTime/SetTime

ASSUME Interval \in Nat \ {0} /\ MaxWall \in Nat /\ MaxTime \in Nat

VARIABLES
    time_value,  \* time_value_
    count,       \* count_
    wall,        \* current reading of system_clock::now()
    got,         \* last value GetTime returned (history), -1 before any
    floor        \* largest argument SetTime was given (history), -1 before any

vars == <<time_value, count, wall, got, floor>>

MaxOf(a, b) == IF a >= b THEN a ELSE b

\* Constructor: time_value_ starts at the wall clock, count_ at 0.
Init ==
    /\ wall \in 0..MaxWall
    /\ time_value = wall
    /\ count = 0
    /\ got = -1
    /\ floor = -1

\* The value GetTime returns and the time_value_ it leaves, given the state:
\* at count_ = Interval the clock is refreshed from the wall clock first.
Refreshed == count = Interval
\* Mutant: the refresh takes the wall clock without the max.
GetTimeBaseWallOnly == IF Refreshed THEN wall ELSE time_value
GetTimeBase == IF Refreshed THEN MaxOf(time_value, wall) ELSE time_value
\* Mutant: count_ is not reset on a refresh.
GetTimeCountNoReset == count
GetTimeCount == IF Refreshed THEN 0 ELSE count

GetTime ==
    /\ GetTimeBase + GetTimeCount < MaxTime
    /\ time_value' = GetTimeBase
    /\ count' = GetTimeCount + 1
    /\ got' = GetTimeBase + GetTimeCount
    /\ UNCHANGED <<wall, floor>>

\* SetTime(t) with t a commit timestamp chosen elsewhere.
SetTime ==
    \E t \in 0..MaxTime :
        /\ time_value' = MaxOf(time_value + count, t)
        /\ count' = 0
        /\ floor' = MaxOf(floor, t)
        /\ UNCHANGED <<wall, got>>

\* The system clock moves, in either direction.
WallMoves ==
    /\ wall' \in (0..MaxWall) \ {wall}
    /\ UNCHANGED <<time_value, count, got, floor>>

Next == GetTime \/ SetTime \/ WallMoves

Spec == Init /\ [][Next]_vars

TypeOK ==
    /\ time_value \in Int /\ count \in 0..Interval
    /\ wall \in 0..MaxWall /\ got \in Int /\ floor \in Int

(***************************************************************************)
(* Properties                                                              *)
(***************************************************************************)

\* A timestamp handed out after SetTime(t) is never below t: an executor's
\* next local time is past every commit timestamp it adopted (SetTime is
\* called from TransactionExecution::SetCommitTs).
NotBelowAdoptedTs == [][GetTime => got' >= floor]_vars

\* GetTime is strictly increasing: every value it returns is larger than
\* the one before (spec: "strictly increasing local timestamps").
StrictlyIncreasing == [][GetTime => got' > got]_vars
=============================================================================
