----------------------------- MODULE CallProofs -----------------------------
(***************************************************************************)
(* What a call of a script returns and leaves behind, for every capacity   *)
(* of the pipes, every length of input and output, every time limit and    *)
(* everything the script may do.                                           *)
(***************************************************************************)
EXTENDS Call, TLAPS

\* What was said is in the pipe or has been read, and is kept until the call ends.
Counted ==
    /\ said \in Nat /\ out \in Nat /\ stdout \in Nat
    /\ caller # "returned" => said = out + stdout

\* Nobody is left to say more when a call returns, because a child that has
\* exited stays so, and only a running one leaves an heir.
Ending ==
    /\ caller \in {"write", "wait", "clock", "read"} => script = "llm"
    /\ caller \in {"read", "returned"} => Exited /\ collected
    /\ caller = "returned" => stdout = 0 /\ ~heir /\ WholeReply
    /\ caller = "error" => ~Alive /\ collected

\* The inductive invariant.
CallInv == Counted /\ Ending

LEMMA CallInit == Init => CallInv
BY DEF Init, CallInv, Counted, Ending, WholeReply

\* What the script and its heir do: they speak as long as there is one of them.
LEMMA ScriptStep == CallInv /\ ScriptSteps => CallInv'
<1> SUFFICES ASSUME CallInv, ScriptSteps PROVE CallInv'
  OBVIOUS
<1> USE DEF CallInv, Counted, Ending, WholeReply, callerVars, Exited, Alive
<1>1. CASE ChildReads
  BY <1>1 DEF ChildReads
<1>2. CASE Speaks
  BY <1>2 DEF Speaks
<1>3. CASE ChildHangs
  BY <1>3 DEF ChildHangs
<1>4. CASE LeavesHeir
  BY <1>4 DEF LeavesHeir
<1>5. CASE HeirEnds
  BY <1>5 DEF HeirEnds
<1>6. CASE ChildExits
  BY <1>6 DEF ChildExits
<1>7. CASE ChildFails
  BY <1>7 DEF ChildFails
<1>8. QED
  BY <1>1, <1>2, <1>3, <1>4, <1>5, <1>6, <1>7 DEF ScriptSteps

\* What the caller does: it kills and collects, or reads to the end.
LEMMA CallerStep == CallInv /\ CallerSteps => CallInv'
<1> SUFFICES ASSUME CallInv, CallerSteps PROVE CallInv'
  OBVIOUS
<1> USE DEF CallInv, Counted, Ending, WholeReply, Exited, Alive
<1>1. CASE Write
  BY <1>1 DEF Write
<1>2. CASE CloseInput
  BY <1>2 DEF CloseInput
<1>3. CASE TryWait
  BY <1>3 DEF TryWait
<1>4. CASE Clock
  BY <1>4 DEF Clock
<1>5. CASE Read
  BY <1>5 DEF Read
<1>6. CASE Drain
  BY <1>6 DEF Drain
<1>7. QED
  BY <1>1, <1>2, <1>3, <1>4, <1>5, <1>6 DEF CallerSteps

LEMMA CallSpec == Spec => []CallInv
<1>1. CallInv /\ UNCHANGED vars => CallInv'
  BY DEF CallInv, Counted, Ending, WholeReply, Exited, Alive, vars, callerVars
<1>2. CallInv /\ [Next]_vars => CallInv'
  BY <1>1, ScriptStep, CallerStep DEF Next
<1>3. QED
  BY CallInit, <1>2, PTL DEF Spec

\* A call never returns a part of what was said: run_with_timeout and
\* Command::output read on until nobody holds the other end of the pipe, and
\* keep all of it or, if it is not UTF-8, nothing.
THEOREM RepliesWhole == Spec => []WholeReply
<1>1. CallInv => WholeReply
  BY DEF CallInv, Ending, WholeReply
<1>2. QED
  BY CallSpec, <1>1, PTL

\* A call that is over has no child: it exited or was killed, and was waited for.
THEOREM ChildrenCollected == Spec => []ChildCollected
<1>1. CallInv => ChildCollected
  BY DEF CallInv, Ending, ChildCollected, Over, Exited, Alive
<1>2. QED
  BY CallSpec, <1>1, PTL

=============================================================================
