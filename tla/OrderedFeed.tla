---------------------------- MODULE OrderedFeed -----------------------------
(***************************************************************************)
(* What the executor assumes of the readers that feed its channels:        *)
(* heights are sent in order, starting at the expected one, and a height   *)
(* is left out only if the executor has passed it already.  The actions    *)
(* of the soft and the firm reader in module Executor are the actions of   *)
(* this module (the firm reader never skips).                              *)
(***************************************************************************)
EXTENDS Naturals, Sequences

CONSTANTS First,        \* height expected when the reader is started
          StopHeight,   \* last height of the session, 0 if there is none
          Capacity      \* capacity of the channel

VARIABLES next,         \* next height to send
          task,         \* "run", "ok" or "err"
          channel,
          expected,     \* NextSoft (NextFirm) of the executor
          executing,    \* height the executor is working on, 0 if none
          cancelled     \* reader_cancellation_token

vars == <<next, task, channel, expected, executing, cancelled>>

PastStopHeight(h) == StopHeight # 0 /\ h > StopHeight

Init ==
    /\ next = First /\ expected = First
    /\ task = "run" /\ channel = << >> /\ executing = 0 /\ cancelled = FALSE

Send ==
    /\ task = "run" /\ ~cancelled /\ ~PastStopHeight(next)
    /\ Len(channel) < Capacity
    /\ channel' = Append(channel, next)
    /\ next' \in {next + 1} \cup next + 1 .. expected
    /\ UNCHANGED <<task, expected, executing, cancelled>>

Skip ==
    /\ task = "run"
    /\ next' \in next + 1 .. expected
    /\ UNCHANGED <<task, channel, expected, executing, cancelled>>

(* a block that cannot be sent is lost with the reader *)
Finish ==
    /\ task = "run"
    /\ \/ task' = "ok" /\ (PastStopHeight(next) \/ cancelled) /\ UNCHANGED next
       \/ task' = "err" /\ next' \in {next, next + 1}
    /\ UNCHANGED <<channel, expected, executing, cancelled>>

(* The executor drops older blocks, commits the expected one, and may be   *)
(* moved on by the other feed while it has no block in hand.               *)
Take ==
    /\ executing = 0 /\ channel # << >>
    /\ channel' = Tail(channel)
    /\ executing' = IF Head(channel) < expected THEN 0 ELSE Head(channel)
    /\ UNCHANGED <<next, task, expected, cancelled>>

Commit ==
    /\ executing # 0
    /\ expected' = executing + 1 /\ executing' = 0
    /\ UNCHANGED <<next, task, channel, cancelled>>

Overtake ==
    /\ executing = 0
    /\ expected' = expected + 1
    /\ UNCHANGED <<next, task, channel, executing, cancelled>>

Cancel == cancelled' = TRUE /\ UNCHANGED <<next, task, channel, expected, executing>>

(* A Conductor that starts again resumes at the height it expects.         *)
Restart ==
    /\ next' = expected /\ task' = "run" /\ channel' = << >>
    /\ executing' = 0 /\ cancelled' = FALSE
    /\ UNCHANGED expected

Next == Send \/ Skip \/ Finish \/ Take \/ Commit \/ Overtake \/ Cancel \/ Restart

Spec == Init /\ [][Next]_vars
=============================================================================
