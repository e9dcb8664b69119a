------------------------------- MODULE Reader -------------------------------
(***************************************************************************)
(* A reader of the queue request by request: the loops of consumer::run    *)
(* and listener::run over cursor_create, cursor_position, get and          *)
(* cursor_commit of server/src/flow.rs.                                    *)
(*                                                                         *)
(* Consumer and Listener let a request succeed or fail.  Here a request    *)
(* may also be refused (ok: false, as by a hub that wants another secret)  *)
(* or lose its answer, and each method of the client makes something else  *)
(* of that: a refused get reads like the head of the queue, a refused      *)
(* position like a fresh cursor, a refused create like a created one.      *)
(***************************************************************************)
EXTENDS Integers

CONSTANTS
    MaxLen,     \* entries that are ever appended
    Faults      \* the faults a reader of either kind meets, from FaultKinds

Kinds      == {"consumer", "listener"}
FaultKinds == {"refused",  \* a request is refused
               "failed",   \* a request fails, or the entry cannot be ingested
               "lost",     \* a request takes effect and its answer is lost
               "create",   \* these befall cursor_create as well
               "crash"}    \* the process dies

ASSUME ReaderAssumption ==
    /\ MaxLen \in Nat
    /\ Faults \in [Kinds -> SUBSET FaultKinds]

VARIABLES
    kind,       \* which of the two loops
    len,        \* entries on the queue
    cursor,     \* its cursor, as in Rapids
    rpc,        \* the request that comes next
    baseline,   \* what was on the queue when the process started; consumer: 0
    next, target, pos,   \* locals of step and of cursor_commit
    processed,  \* ordinals that were ingested or taken up
    start,      \* where its reading began
    healthy     \* no faults any more

locals == <<next, target, pos>>
vars == <<kind, len, cursor, rpc, baseline, locals, processed, start, healthy>>

Absent == -2
Fresh  == -1

Init ==
    /\ kind \in Kinds
    /\ len \in 0 .. MaxLen
    /\ cursor = Absent
    /\ rpc = "boot"
    /\ baseline = 0
    /\ next = 0 /\ target = 0 /\ pos = 0
    /\ processed = {}
    /\ start = 0
    /\ healthy = FALSE

Append ==
    /\ len < MaxLen
    /\ len' = len + 1
    /\ UNCHANGED <<kind, cursor, rpc, baseline, locals, processed, start, healthy>>

May(fault) == ~healthy /\ fault \in Faults[kind]

\* A request for which the daemon would answer `ok' ends as one of these.
Ends(ok, result) ==
    \/ result = "answered" /\ ok
    \/ result = "refused" /\ (~ok \/ May("refused"))
    \/ result = "failed" /\ May("failed")
    \/ result = "lost" /\ ok /\ May("lost")

Takes(result) == result \in {"answered", "lost"}
Results == {"answered", "refused", "failed", "lost"}

\* The loops sleep after an error and go on with their first request.
Again == IF kind = "listener" THEN "create" ELSE "position"

-----------------------------------------------------------------------------
(* Start. *)

\* cursor_create, whose error is only logged.
Boot ==
    /\ rpc = "boot"
    /\ \E result \in Results :
        /\ Ends(TRUE, result)
        /\ result = "answered" \/ May("create")
        /\ cursor' = IF Takes(result) /\ cursor = Absent THEN Fresh ELSE cursor
    /\ rpc' = IF kind = "listener" THEN "len" ELSE "position"
    /\ UNCHANGED <<kind, len, baseline, locals, processed, start, healthy>>

\* len() until it is answered; a refusal has no length in it.
ReadLen ==
    /\ rpc = "len"
    /\ baseline' = len
    /\ start' = IF cursor < 0 THEN len ELSE start
    /\ rpc' = Again
    /\ UNCHANGED <<kind, len, cursor, locals, processed, healthy>>

-----------------------------------------------------------------------------
(* step. *)

\* Mutant: the cursor is not created again.
CreateNever ==
    /\ rpc = "create"
    /\ rpc' = "position"
    /\ UNCHANGED <<kind, len, cursor, baseline, locals, processed, start, healthy>>

Create ==
    /\ rpc = "create"
    /\ \E result \in Results :
        /\ Ends(TRUE, result)
        /\ cursor' = IF Takes(result) /\ cursor = Absent THEN Fresh ELSE cursor
        /\ rpc' = IF result \in {"answered", "refused"} THEN "position" ELSE "create"
    /\ UNCHANGED <<kind, len, baseline, locals, processed, start, healthy>>

\* What cursor_position makes of an answer.
Position(result) == IF result = "answered" /\ cursor >= 0 THEN cursor ELSE Fresh

\* The next entry, or the backlog to be skipped by a listener.
ReadPosition ==
    /\ rpc = "position"
    /\ \E result \in Results :
        /\ Ends(TRUE, result)
        /\ IF result \in {"answered", "refused"}
             THEN LET p == Position(result) IN
                  IF p = Fresh /\ baseline > 0
                  THEN next' = baseline /\ target' = baseline - 1 /\ rpc' = "commit"
                  ELSE next' = p + 1 /\ rpc' = "get" /\ UNCHANGED target
             ELSE rpc' = Again /\ UNCHANGED <<next, target>>
    /\ UNCHANGED <<kind, len, cursor, baseline, pos, processed, start, healthy>>

\* get(next): a refusal is the head of the queue.
Get ==
    /\ rpc = "get"
    /\ \E result \in Results :
        /\ Ends(next < len, result)
        /\ rpc' = IF result = "answered" THEN "process" ELSE Again
    /\ UNCHANGED <<kind, len, cursor, baseline, locals, processed, start, healthy>>

\* ingest, which may fail, or answer, whose error is passed over.
Process ==
    /\ rpc = "process"
    /\ \/ /\ processed' = processed \cup {next}
          /\ target' = next
          /\ rpc' = "commit"
       \/ /\ kind = "consumer" /\ May("failed")
          /\ rpc' = Again
          /\ UNCHANGED <<processed, target>>
    /\ UNCHANGED <<kind, len, cursor, baseline, next, pos, start, healthy>>

-----------------------------------------------------------------------------
(* cursor_commit(target). *)

\* When the cursor is taken to stand at p.
Goes(p) ==
    /\ pos' = p
    /\ rpc' = IF p < target THEN "walk" ELSE IF target = next THEN Again ELSE "get"

\* The position is read anew; one beyond the target is an error.
Commit ==
    /\ rpc = "commit"
    /\ \E result \in Results :
        /\ Ends(TRUE, result)
        /\ IF result \in {"answered", "refused"}
             THEN LET p == Position(result) IN
                  \/ p = Fresh /\ rpc' = "origin" /\ UNCHANGED pos
                  \/ p > target /\ rpc' = Again /\ UNCHANGED pos
                  \/ p \in 0 .. target /\ Goes(p)
             ELSE rpc' = Again /\ UNCHANGED pos
    /\ UNCHANGED <<kind, len, cursor, baseline, next, target, processed, start, healthy>>

\* cursor_move, of which a refusal is an error.
MoveTo(place, ok, p) ==
    \E result \in Results :
        /\ Ends(ok, result)
        /\ cursor' = IF Takes(result) THEN place ELSE cursor
        /\ IF result = "answered" THEN Goes(p) ELSE rpc' = Again /\ UNCHANGED pos

MoveToOrigin ==
    /\ rpc = "origin"
    /\ MoveTo(0, cursor # Absent /\ len > 0, 0)
    /\ UNCHANGED <<kind, len, baseline, next, target, processed, start, healthy>>

\* Mutant: a move that fails is requested again.
MoveToNextAgain ==
    /\ rpc = "walk"
    /\ \E result \in Results :
        /\ Ends(cursor >= 0 /\ cursor + 1 < len, result)
        /\ cursor' = IF Takes(result) THEN cursor + 1 ELSE cursor
        /\ IF result = "answered" THEN Goes(pos + 1) ELSE UNCHANGED <<rpc, pos>>
    /\ UNCHANGED <<kind, len, baseline, next, target, processed, start, healthy>>

MoveToNext ==
    /\ rpc = "walk"
    /\ MoveTo(cursor + 1, cursor >= 0 /\ cursor + 1 < len, pos + 1)
    /\ UNCHANGED <<kind, len, baseline, next, target, processed, start, healthy>>

-----------------------------------------------------------------------------

Heal ==
    /\ ~healthy
    /\ healthy' = TRUE
    /\ UNCHANGED <<kind, len, cursor, rpc, baseline, locals, processed, start>>

Crash ==
    /\ rpc # "boot"
    /\ May("crash")
    /\ rpc' = "boot"
    /\ baseline' = 0
    /\ next' = 0 /\ target' = 0 /\ pos' = 0
    /\ UNCHANGED <<kind, len, cursor, processed, start, healthy>>

Step ==
    \/ Boot \/ ReadLen \/ Create \/ ReadPosition \/ Get \/ Process
    \/ Commit \/ MoveToOrigin \/ MoveToNext

Next == Step \/ Append \/ Heal \/ Crash

Spec == Init /\ [][Next]_vars

\* Fairness: the loops go on for ever.
FairSpec == Spec /\ WF_vars(Step)

-----------------------------------------------------------------------------
(* Properties. *)

\* No entry is skipped: the entries are first processed in their order, and those
\* up to the cursor that are not history were, however often a position was
\* misread and the cursor was sent to the origin and walked again
\* (flow.rs 226-242, consumer.rs 58-66).
NeverSkipped == \A n \in processed \cup {cursor} : start .. n \subseteq processed

\* Once requests are answered again the reader gets to the end of the queue and
\* stays there: no refusal leaves anything behind that it cannot get over.
Recovers == <>healthy => <>[](cursor = len - 1)

=============================================================================
