---------------------------- MODULE ReaderProofs ----------------------------
(***************************************************************************)
(* No entry is skipped, for every length of the queue and every fault but  *)
(* one: a listener whose requests are refused.                             *)
(***************************************************************************)
EXTENDS Reader, TLAPS

\* Everything from the start of the reading up to n was taken up.
Done(n) == start .. n \subseteq processed

Places == {"boot", "len", "create", "position", "get", "process", "commit", "origin", "walk"}

Typed ==
    /\ kind \in Kinds
    /\ rpc \in Places
    /\ len \in Nat /\ start \in Nat /\ baseline \in Nat
    /\ cursor \in Int
    /\ next \in Int /\ target \in Int /\ pos \in Int
    /\ processed \in SUBSET (0 .. len - 1)

\* A listener without a position starts where the queue ended when it came up;
\* a consumer starts at the origin.
Started ==
    IF kind = "consumer"
      THEN baseline = 0 /\ start = 0 /\ rpc \notin {"len", "create"}
      ELSE cursor < 0 /\ rpc \notin {"boot", "len"} => start = baseline

\* What is fetched comes after what is done, what is committed is done, and a
\* walk is at the cursor.
InHand ==
    /\ rpc \in {"get", "process"} => next \in Nat /\ Done(next - 1)
    /\ rpc = "process" => next < len
    /\ rpc \in {"commit", "origin", "walk"} =>
         target \in Nat /\ Done(target) /\ next \in {target, target + 1}
    /\ rpc = "walk" => pos = cursor /\ 0 <= pos /\ pos < target

\* The inductive invariant.
ReaderInv == Typed /\ Started /\ InHand /\ NeverSkipped

\* What is done up to n is done up to any m before it.
LEMMA DoneBefore ==
    ASSUME start \in Int, NEW n \in Int, NEW m \in Int, Done(n), m <= n
    PROVE  Done(m)
BY DEF Done

LEMMA SkippedIsDone == NeverSkipped <=> \A n \in processed \cup {cursor} : Done(n)
BY DEF NeverSkipped, Done

LEMMA ReaderInit == Init => ReaderInv
BY ReaderAssumption DEF Init, ReaderInv, Typed, Started, InHand, NeverSkipped, Places, Kinds, Absent

LEMMA ReaderStep ==
    ASSUME "refused" \notin Faults["listener"], ReaderInv, [Next]_vars
    PROVE  ReaderInv'
<1> USE DEF ReaderInv, Typed, Started, InHand, NeverSkipped, Done, Places, Kinds, Absent, Fresh
<1>1. CASE Boot
  BY <1>1 DEF Boot, Takes, locals
<1>2. CASE ReadLen
  BY <1>2 DEF ReadLen, Again, locals
<1>3. CASE Create
  BY <1>3 DEF Create, Takes, locals
<1>4. CASE ReadPosition
  <2>1. PICK result \in Results :
          /\ Ends(TRUE, result)
          /\ IF result \in {"answered", "refused"}
               THEN LET p == Position(result) IN
                    IF p = Fresh /\ baseline > 0
                    THEN next' = baseline /\ target' = baseline - 1 /\ rpc' = "commit"
                    ELSE next' = p + 1 /\ rpc' = "get" /\ UNCHANGED target
               ELSE rpc' = Again /\ UNCHANGED <<next, target>>
    BY <1>4 DEF ReadPosition
  <2>2. UNCHANGED <<kind, len, cursor, baseline, pos, processed, start, healthy>>
    BY <1>4 DEF ReadPosition
  <2>3. CASE result \notin {"answered", "refused"}
    <3>1. rpc' = Again /\ next' = next /\ target' = target /\ rpc = "position"
      BY <1>4, <2>1, <2>3 DEF ReadPosition
    <3>2. QED
      BY <2>2, <3>1 DEF Again
  <2>4. CASE result \in {"answered", "refused"} /\ Position(result) = Fresh /\ baseline > 0
    <3>1. next' = baseline /\ target' = baseline - 1 /\ rpc' = "commit"
      BY <2>1, <2>4
    <3>2. start = baseline
      BY <1>4, <2>1, <2>4 DEF ReadPosition, Position, Ends, May
    <3>3. Done(target)'
      BY <2>2, <3>1, <3>2
    <3>4. target' \in Nat /\ next' = target' + 1
      BY <2>4, <3>1
    <3>5. rpc = "position" /\ kind = "listener"
      BY <1>4, <2>4 DEF ReadPosition
    <3>6. Typed' /\ Started'
      BY <2>2, <3>1, <3>5
    <3>7. InHand' /\ NeverSkipped'
      BY <2>2, <3>1, <3>3, <3>4
    <3>8. QED
      BY <3>6, <3>7
  <2>5. CASE result \in {"answered", "refused"} /\ ~(Position(result) = Fresh /\ baseline > 0)
    <3>1. next' = Position(result) + 1 /\ rpc' = "get" /\ target' = target
      BY <2>1, <2>5
    <3>2. Position(result) \in {cursor, -1} /\ Position(result) >= -1
      BY DEF Position
    <3>3. Done(Position(result)) /\ Position(result) \in Int
      BY <3>2
    <3>4. next' \in Nat /\ Done(next - 1)'
      BY <2>2, <3>1, <3>2, <3>3
    <3>5. InHand' /\ NeverSkipped'
      BY <2>2, <3>1, <3>4
    <3>6. rpc = "position"
      BY <1>4 DEF ReadPosition
    <3>7. Typed' /\ Started'
      BY <2>2, <3>1, <3>4, <3>6
    <3>8. QED
      BY <3>5, <3>7
  <2>6. QED
    BY <2>3, <2>4, <2>5
<1>5. CASE Get
  <2>1. UNCHANGED <<kind, len, cursor, baseline, next, target, pos, processed, start>>
    BY <1>5 DEF Get, locals
  <2>2. rpc' = Again \/ (rpc' = "process" /\ next < len)
    BY <1>5 DEF Get, Ends
  <2>3. rpc = "get"
    BY <1>5 DEF Get
  <2>4. QED
    BY <2>1, <2>2, <2>3 DEF Again
<1>6. CASE Process
  <2>1. CASE rpc' = Again /\ UNCHANGED <<processed, target>>
    BY <1>6, <2>1 DEF Process, Again
  <2>2. CASE processed' = processed \cup {next} /\ target' = next /\ rpc' = "commit"
    BY <1>6, <2>2 DEF Process
  <2>3. QED
    BY <1>6, <2>1, <2>2 DEF Process
<1>7. CASE Commit
  <2>1. UNCHANGED <<kind, len, cursor, baseline, next, target, processed, start, healthy>>
    BY <1>7 DEF Commit
  <2>2. \/ rpc' = Again
        \/ rpc' = "origin"
        \/ cursor \in 0 .. target /\ Goes(cursor)
    BY <1>7 DEF Commit, Position
  <2>3. rpc = "commit" /\ pos' \in Int
    BY <1>7 DEF Commit, Position, Goes
  <2>4. QED
    BY <2>1, <2>2, <2>3 DEF Goes, Again
<1>8. CASE MoveToOrigin
  <2>1. UNCHANGED <<kind, len, baseline, next, target, processed, start, healthy>>
    BY <1>8 DEF MoveToOrigin
  <2>2. \/ cursor' \in {0, cursor} /\ rpc' = Again /\ pos' = pos
        \/ cursor' = 0 /\ Goes(0)
    BY <1>8 DEF MoveToOrigin, MoveTo, Takes
  <2>3. rpc = "origin" /\ Done(0)
    BY <1>8, DoneBefore DEF MoveToOrigin
  <2>4. QED
    BY <2>1, <2>2, <2>3 DEF Goes, Again
<1>9. CASE MoveToNext
  <2>1. UNCHANGED <<kind, len, baseline, next, target, processed, start, healthy>>
    BY <1>9 DEF MoveToNext
  <2>2. \/ cursor' \in {cursor + 1, cursor} /\ rpc' = Again /\ pos' = pos
        \/ cursor' = cursor + 1 /\ Goes(pos + 1)
    BY <1>9 DEF MoveToNext, MoveTo, Takes
  <2>3. rpc = "walk" /\ Done(cursor + 1)
    BY <1>9, DoneBefore DEF MoveToNext
  <2>4. QED
    BY <2>1, <2>2, <2>3 DEF Goes, Again
<1>10. CASE Append
  BY <1>10 DEF Append, locals
<1>11. CASE Heal
  BY <1>11 DEF Heal, locals
<1>12. CASE Crash
  BY <1>12 DEF Crash
<1>13. CASE UNCHANGED vars
  BY <1>13 DEF vars, locals
<1>14. QED
  BY <1>1, <1>2, <1>3, <1>4, <1>5, <1>6, <1>7, <1>8, <1>9, <1>10, <1>11, <1>12, <1>13
     DEF Next, Step

\* However often a position was misread and the cursor was walked again, every
\* entry up to it was taken up, in order: the listener must not be refused,
\* because it takes a refusal for a fresh cursor and skips what was waiting.
THEOREM NothingSkipped ==
    ASSUME "refused" \notin Faults["listener"]
    PROVE  Spec => []NeverSkipped
<1>1. ReaderInv => NeverSkipped
  BY DEF ReaderInv
<1>2. ReaderInv /\ [Next]_vars => ReaderInv'
  BY ReaderStep
<1>3. QED
  BY ReaderInit, <1>1, <1>2, PTL DEF Spec

=============================================================================
