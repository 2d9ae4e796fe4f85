---------------------------- MODULE ChainHealth ----------------------------
(***************************************************************************)
(* The status of the chain in the side bar (useChainHealthQuery).  Every   *)
(* three seconds a poll reads the latest block and then the one before it, *)
(* and judges the chain by their times; nothing keeps polls from           *)
(* overlapping, and a poll whose read fails goes silently.                 *)
(***************************************************************************)
EXTENDS Integers, Sequences

CONSTANTS
  Polls,    \* polls that may be under way at once (a bound)
  Average,  \* the average block time of the indexer
  Limit,    \* 60 seconds
  MaxTime,  \* bound on the clock
  None

VARIABLES
  now,      \* the clock
  times,    \* times[h]: when block h was produced
  average,  \* state of the query of the average block time
  poll,     \* the polls under way
  health    \* requestState, with the age of the block judged (history)

vars == <<now, times, average, poll, health>>

Idle == [stage |-> "idle", height |-> 0]
NoHealth(is) == [is |-> is, status |-> None, height |-> 0, age |-> 0]

Init ==
  /\ now = 0
  /\ times = <<0>>
  /\ average = "loading"
  /\ poll = [p \in Polls |-> Idle]
  /\ health = NoHealth("initial")

Tick ==
  /\ now < MaxTime
  /\ now' = now + 1
  /\ UNCHANGED <<times, average, poll, health>>

Produce ==
  /\ Len(times) < MaxTime
  /\ times' = Append(times, now)
  /\ UNCHANGED <<now, average, poll, health>>

AverageComes ==
  /\ average = "loading"
  /\ average' \in {"loaded", "error"}
  /\ UNCHANGED <<now, times, poll, health>>

\* The interval calls fetchChainHealth.
Poll(p) ==
  /\ poll[p].stage = "idle"
  /\ \/ /\ average # "loaded"
        /\ health' = NoHealth(average)
        /\ UNCHANGED poll
     \/ /\ average = "loaded"
        /\ poll' = [poll EXCEPT ![p].stage = "latest"]
        /\ UNCHANGED health
  /\ UNCHANGED <<now, times, average>>

Judged(status, height) ==
  [is |-> "loaded", status |-> status, height |-> height, age |-> now - times[height]]

\* getBlock(): a first block has none before it.
LatestComes(p) ==
  LET height == Len(times) IN
  /\ poll[p].stage = "latest"
  /\ \/ /\ height < 2
        /\ health' = Judged("online", height)
        /\ poll' = [poll EXCEPT ![p] = Idle]
     \/ /\ height >= 2
        /\ poll' = [poll EXCEPT ![p] = [stage |-> "previous", height |-> height]]
        /\ UNCHANGED health
  /\ UNCHANGED <<now, times, average>>

\* differenceInSeconds(left, right) is left - right.
DifferenceInSeconds(left, right) == left - right

\* getBlock(height - 1): the times are compared now.
PreviousComes(p) ==
  LET height == poll[p].height
      nowToLatest == DifferenceInSeconds(times[height], now)
      latestToPrevious == DifferenceInSeconds(times[height - 1], times[height])
      status == IF nowToLatest > Limit THEN "halted"
                ELSE IF latestToPrevious > 3 * Average THEN "congested"
                ELSE "online"
  IN
  /\ poll[p].stage = "previous"
  /\ health' = Judged(status, height)
  /\ poll' = [poll EXCEPT ![p] = Idle]
  /\ UNCHANGED <<now, times, average>>

\* A read fails: an unhandled rejection, and the status stays as it was.
PollFails(p) ==
  /\ poll[p].stage # "idle"
  /\ poll' = [poll EXCEPT ![p] = Idle]
  /\ UNCHANGED <<now, times, average, health>>

Next ==
  \/ Tick \/ Produce \/ AverageComes
  \/ \E p \in Polls : Poll(p) \/ LatestComes(p) \/ PreviousComes(p) \/ PollFails(p)

Spec == Init /\ [][Next]_vars

\* "If the chain doesn't produce blocks for more than 1 minute, it is
\* considered as halted": a status judged from a block older than a minute,
\* with one before it, says so.
HaltedAfterAMinute ==
  health.is = "loaded" /\ health.height >= 2 /\ health.age > Limit
    => health.status = "halted"
=============================================================================
