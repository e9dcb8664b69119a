-------------------------------- MODULE Call --------------------------------
(***************************************************************************)
(* One run of a script of OVK by the listener: llm.sh through              *)
(* run_with_timeout, or panel-aggregate.sh through Command::output         *)
(* (server/src/listener.rs).  The caller and the child share two pipes of  *)
(* bounded capacity; what goes through them is counted in blocks.          *)
(*                                                                         *)
(* The script is external: it reads, speaks and ends in any order.  It may *)
(* leave an heir, a process of its own that keeps its standard output open *)
(* (a model server started in the background).                             *)
(***************************************************************************)
EXTENDS Naturals

CONSTANTS
    Pipe,       \* the capacity of a pipe
    MaxInput,   \* the longest input
    MaxSaid,    \* the longest output
    Limit,      \* polls until the time limit is over
    Faults      \* what the script may do besides, from FaultKinds

FaultKinds == {"hang",      \* it stops doing anything
               "fail",      \* it exits with an error
               "garbled",   \* what it says is not UTF-8
               "heir"}      \* it leaves an heir

ASSUME CallAssumption ==
    /\ {Pipe, MaxInput, MaxSaid, Limit} \subseteq Nat
    /\ Pipe > 0
    /\ Faults \subseteq FaultKinds

VARIABLES
    script,     \* "llm" or "aggregate"
    speech,     \* blocks it has to say before it is done
    caller,     \* where the caller stands
    input,      \* blocks still to be written by the caller
    stdin,      \* blocks in the pipe to the child
    child,      \* "running", "hung", "done", "failed" or "killed"
    collected,  \* the caller has waited for the child
    heir,       \* an heir holds the output open
    said,       \* blocks the child and its heir have written
    stdout,     \* blocks in the pipe from the child
    out,        \* blocks the caller has read
    polls       \* polls since the input was written

callerVars == <<caller, input, out, polls, collected>>
vars == <<script, speech, callerVars, stdin, child, heir, said, stdout>>

\* The input of panel-aggregate.sh is in files.
Init ==
    /\ \/ script = "llm" /\ caller = "write" /\ input \in 0 .. MaxInput
       \/ script = "aggregate" /\ caller = "drain" /\ input = 0
    /\ speech \in 0 .. MaxSaid
    /\ stdin = 0
    /\ child = "running"
    /\ collected = FALSE
    /\ heir = FALSE
    /\ said = 0
    /\ stdout = 0
    /\ out = 0
    /\ polls = 0

-----------------------------------------------------------------------------
(* The script. *)

ChildReads ==
    /\ child = "running"
    /\ stdin > 0
    /\ stdin' = stdin - 1
    /\ UNCHANGED <<script, speech, callerVars, child, heir, said, stdout>>

Speaks ==
    /\ child = "running" \/ heir
    /\ said < MaxSaid
    /\ stdout < Pipe
    /\ said' = said + 1
    /\ stdout' = stdout + 1
    /\ UNCHANGED <<script, speech, callerVars, stdin, child, heir>>

ChildHangs ==
    /\ "hang" \in Faults
    /\ child = "running"
    /\ child' = "hung"
    /\ UNCHANGED <<script, speech, callerVars, stdin, heir, said, stdout>>

LeavesHeir ==
    /\ "heir" \in Faults
    /\ child = "running"
    /\ heir' = TRUE
    /\ UNCHANGED <<script, speech, callerVars, stdin, child, said, stdout>>

HeirEnds ==
    /\ heir
    /\ heir' = FALSE
    /\ UNCHANGED <<script, speech, callerVars, stdin, child, said, stdout>>

ChildExits ==
    /\ child = "running"
    /\ said >= speech
    /\ child' = "done"
    /\ UNCHANGED <<script, speech, callerVars, stdin, heir, said, stdout>>

ChildFails ==
    /\ "fail" \in Faults
    /\ child = "running"
    /\ child' = "failed"
    /\ UNCHANGED <<script, speech, callerVars, stdin, heir, said, stdout>>

-----------------------------------------------------------------------------
(* run_with_timeout. *)

Alive  == child \in {"running", "hung"}
Exited == child \in {"done", "failed"}

\* write_all: blocked while the pipe is full; an error, as when nobody reads
\* any more, is ignored.
Write ==
    /\ caller = "write"
    /\ input > 0
    /\ \/ Alive /\ stdin < Pipe /\ stdin' = stdin + 1 /\ input' = input - 1
       \/ ~Alive /\ input' = 0 /\ UNCHANGED stdin
    /\ UNCHANGED <<script, speech, caller, out, polls, collected, child, heir, said, stdout>>

\* The pipe is closed and the clock starts.
CloseInput ==
    /\ caller = "write"
    /\ input = 0
    /\ caller' = "wait"
    /\ UNCHANGED <<script, speech, input, out, polls, collected, stdin, child, heir, said, stdout>>

\* try_wait; the exit status is not looked at.
TryWait ==
    /\ caller = "wait"
    /\ \/ Exited /\ collected' = TRUE /\ caller' = "read"
       \/ ~Exited /\ caller' = "clock" /\ UNCHANGED collected
    /\ UNCHANGED <<script, speech, input, out, polls, stdin, child, heir, said, stdout>>

\* Mutant: the clock starts anew with every poll.
ClockRestarts ==
    /\ caller = "clock"
    /\ caller' = "wait"
    /\ UNCHANGED <<script, speech, input, out, polls, collected, stdin, child, heir, said, stdout>>

\* Mutant: the killed child is not waited for.
ClockNoWait ==
    /\ caller = "clock"
    /\ \/ polls < Limit /\ polls' = polls + 1 /\ caller' = "wait" /\ UNCHANGED child
       \/ /\ polls = Limit
          /\ child' = IF Exited THEN child ELSE "killed"
          /\ caller' = "error"
          /\ UNCHANGED polls
    /\ UNCHANGED <<script, speech, input, out, collected, stdin, heir, said, stdout>>

\* elapsed() > timeout: kill and wait, otherwise sleep.  A child that has ended
\* since the last try_wait is past killing, and what it said is dropped.
Clock ==
    /\ caller = "clock"
    /\ \/ /\ polls < Limit
          /\ polls' = polls + 1
          /\ caller' = "wait"
          /\ UNCHANGED <<child, collected>>
       \/ /\ polls = Limit
          /\ child' = IF Exited THEN child ELSE "killed"
          /\ collected' = TRUE
          /\ caller' = "error"
          /\ UNCHANGED polls
    /\ UNCHANGED <<script, speech, input, out, stdin, heir, said, stdout>>

\* Mutant: one read instead of read_to_string.
ReadOnce ==
    /\ caller = "read"
    /\ out' = IF stdout > 0 THEN 1 ELSE 0
    /\ stdout' = stdout - out'
    /\ caller' = "returned"
    /\ UNCHANGED <<script, speech, input, polls, collected, stdin, child, heir, said>>

\* read_to_string ends when no process holds the other end any more.  Its error
\* is ignored: of an output that is not UTF-8 it has kept nothing.
Read ==
    /\ caller = "read"
    /\ \/ stdout > 0 /\ stdout' = stdout - 1 /\ out' = out + 1 /\ UNCHANGED caller
       \/ stdout = 0 /\ ~heir /\ caller' = "returned" /\ UNCHANGED <<stdout, out>>
       \/ /\ "garbled" \in Faults
          /\ stdout = 0 /\ ~heir
          /\ caller' = "returned"
          /\ out' = 0
          /\ UNCHANGED stdout
    /\ UNCHANGED <<script, speech, input, polls, collected, stdin, child, heir, said>>

-----------------------------------------------------------------------------
(* Command::output in aggregate: it reads while the script runs and has no *)
(* time limit; the exit status decides, and bytes that are not UTF-8 are   *)
(* replaced one by one.                                                    *)

\* Mutant: the script is waited for first.
DrainAfterExit ==
    /\ caller = "drain"
    /\ Exited
    /\ \/ stdout > 0 /\ stdout' = stdout - 1 /\ out' = out + 1 /\ UNCHANGED <<caller, collected>>
       \/ /\ stdout = 0 /\ ~heir
          /\ collected' = TRUE
          /\ caller' = IF child = "done" /\ out > 0 THEN "returned" ELSE "error"
          /\ UNCHANGED <<stdout, out>>
    /\ UNCHANGED <<script, speech, input, polls, stdin, child, heir, said>>

Drain ==
    /\ caller = "drain"
    /\ \/ stdout > 0 /\ stdout' = stdout - 1 /\ out' = out + 1 /\ UNCHANGED <<caller, collected>>
       \/ /\ stdout = 0 /\ ~heir /\ Exited
          /\ collected' = TRUE
          /\ caller' = IF child = "done" /\ out > 0 THEN "returned" ELSE "error"
          /\ UNCHANGED <<stdout, out>>
    /\ UNCHANGED <<script, speech, input, polls, stdin, child, heir, said>>

-----------------------------------------------------------------------------

Over == caller \in {"returned", "error"}

ScriptSteps == ChildReads \/ Speaks \/ ChildHangs \/ LeavesHeir \/ HeirEnds \/ ChildExits \/ ChildFails
CallerSteps == Write \/ CloseInput \/ TryWait \/ Clock \/ Read \/ Drain

Next == ScriptSteps \/ CallerSteps

Spec == Init /\ [][Next]_vars

\* Fairness: the caller's thread runs, and so does a script that does not hang.
FairSpec == Spec /\ WF_vars(CallerSteps) /\ WF_vars(Speaks) /\ WF_vars(ChildExits)

-----------------------------------------------------------------------------
(* Properties. *)

\* A reply is whole or there is none: what a call returns is everything the
\* script and its heirs have said, never a part of it that happened to be in the
\* pipe (listener.rs 332-338, 304-312); or nothing, when llm.sh said something
\* that is not UTF-8, and then its persona is dropped.  It is so for a llm.sh that
\* failed as well, against the comment quoted at FailedDropped.
WholeReply == caller = "returned" => out = said \/ (script = "llm" /\ out = 0)

\* "A failed/empty model call drops the persona" (listener.rs 143-145).  The code
\* does not keep that with the fault fail: run_with_timeout does not look at the
\* exit status (listener.rs 332), and what was said before the failure is the
\* persona's reply.
FailedDropped == caller = "returned" /\ script = "llm" /\ child = "failed" => out = 0

\* However a call ends, its child is gone and waited for: no process is left
\* behind by a persona that timed out (listener.rs 340-344).
ChildCollected == Over => collected /\ ~Alive

\* A call of the model ends within its time limit whatever the script does, a
\* script that hangs, floods its output or never reads included - as long as
\* the input fits into the pipe and nobody inherits the output: the clock
\* starts when the input is written, and the output is read without a clock.
ModelCallEnds ==
    /\ script = "llm"
    /\ input <= Pipe
    /\ [](~heir)
    => <>Over

\* The aggregation, which has no limit, ends when its script does not hang and
\* its heirs end, however much it says: its output is read while it runs.
AggregationEnds ==
    /\ script = "aggregate"
    /\ [](child # "hung")
    /\ <>[](~heir)
    => <>Over

=============================================================================
