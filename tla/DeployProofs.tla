---------------------------- MODULE DeployProofs ----------------------------
(***************************************************************************)
(* What a deploy that says it succeeded has left behind, for any number of *)
(* commits and of deploys that follow each other, whatever scripts of      *)
(* earlier ones are still running on the host.                             *)
(***************************************************************************)
EXTENDS Deploy, TLAPS

AtSteps  == {"new", "check", "upload", "push", "remote", "clean", "health", "verify", "ok", "failed"}
RemSteps == {"none", "backup", "unpack", "build", "building", "restart", "active", "clean", "done",
             "failed"}

Typed ==
    /\ commits \in Nat /\ started \in 0 .. MaxDeploys
    /\ want \in [Deploys -> Nat]
    /\ at \in [Deploys -> AtSteps] /\ rem \in [Deploys -> RemSteps]

\* A deploy has no script on the host before it has pushed, and is past it when
\* that script is done.
Stages ==
    \A d \in Deploys :
        /\ d > started => at[d] = "new"
        /\ d < started => Ended(d)
        /\ at[d] \in {"new", "check", "upload", "push"} => rem[d] = "none"
        /\ at[d] \in {"clean", "health", "verify", "ok"} => rem[d] = "done"

\* The archives are the newest deploy's, or cleared away: whichever script on the
\* host unpacks one, it is that.
Archives ==
    \A d \in Deploys : d = started =>
        /\ at[d] = "push" => hostTar = want[d]
        /\ rem[d] # "none" => boxTar \in {None, want[d]}
        /\ rem[d] = "done" => boxTar = None
        /\ at[d] = "ok" => marker = want[d]

\* Nor is the tree another once the newest deploy has unpacked its own.
Unpacked ==
    \A d \in Deploys : d = started =>
        /\ rem[d] \in {"build", "building", "restart", "active", "clean", "done"} => tree = want[d]
        /\ rem[d] = "building" => compiling.by = d /\ compiling.tree = want[d]

\* Every build that begins after the newest deploy's is one of its tree.
Built ==
    \A d \in Deploys : d = started =>
        /\ rem[d] \in {"restart", "active", "clean", "done"} /\ compiling # Idle =>
             compiling.tree = want[d]
        /\ rem[d] \in {"restart", "active", "clean", "done"} /\ d \notin unbuilt => binary = want[d]
        /\ rem[d] \in {"active", "clean", "done"} /\ d \notin unbuilt => running \in {binary, None}

\* One build at a time.
Locked ==
    \A d \in Deploys : rem[d] = "building" => compiling # Idle /\ compiling.by = d

\* The inductive invariant.
DeployInv == Typed /\ Stages /\ Archives /\ Unpacked /\ Built /\ Locked
\* Every step below needs all parts of it.
USE DEF DeployInv, Typed, Stages, Archives, Unpacked, Built, Locked, Ended

LEMMA DeployInit == Init => DeployInv
<1> SUFFICES ASSUME Init PROVE DeployInv
  OBVIOUS
<1>1. /\ started = 0 /\ compiling = Idle
      /\ want = [d \in Deploys |-> None] /\ at = [d \in Deploys |-> "new"]
      /\ rem = [d \in Deploys |-> "none"]
  BY DEF Init
<1>2. Typed
  BY <1>1, DeployAssumption DEF Init, AtSteps, RemSteps, None
<1>3. \A d \in Deploys : d > started /\ d # started /\ at[d] = "new" /\ rem[d] = "none"
  BY <1>1 DEF Deploys
<1>4. QED
  BY <1>1, <1>2, <1>3 DEF Deploys

-----------------------------------------------------------------------------
(* New deploys. *)

\* A new deploy finds all others ended, and has no script on the host yet.
LEMMA StartStep ==
    ASSUME "overlap" \notin Faults, DeployInv, Start
    PROVE  DeployInv'
<1> DEFINE s == started + 1
<1>1. /\ s \in Deploys /\ started' = s /\ \A d \in 1 .. started : Ended(d)
      /\ at' = [at EXCEPT ![s] = "check"] /\ UNCHANGED <<commits, rem, box>>
  BY DeployAssumption DEF Start, Deploys, Goto
<1>2. PICK c \in Nat : want' = [want EXCEPT ![s] = c]
  <2>1. PICK c \in 1 .. commits : want' = [want EXCEPT ![started'] = c]
    BY DEF Start
  <2>2. c \in Nat /\ want' = [want EXCEPT ![s] = c]
    BY <1>1, <2>1
  <2>3. QED
    BY <2>2
<1>3. at[s] = "new" /\ rem[s] = "none"
  BY <1>1
<1>4. Typed'
  BY <1>1, <1>2 DEF AtSteps, Deploys
<1>5. Stages'
  BY <1>1, <1>3 DEF Deploys
<1>6. Archives' /\ Unpacked' /\ Built' /\ Locked'
  BY <1>1, <1>3 DEF box
<1>7. QED
  BY <1>4, <1>5, <1>6

\* A commit concerns no deploy, and a restart by somebody else runs what is installed.
LEMMA OtherStep ==
    ASSUME DeployInv, Commit \/ Reboot
    PROVE  DeployInv'
BY DEF Commit, Reboot, box

-----------------------------------------------------------------------------
(* The steps of one deploy. *)

\* A deploy under way is the newest.
LEMMA UnderWay ==
    ASSUME DeployInv, NEW d \in Deploys, at[d] # "new", ~Ended(d)
    PROVE  d = started /\ d # None
BY DEF Deploys, None

\* What deploy.sh does: it sends the archive, clears it away and looks.
LEMMA ScriptStep ==
    ASSUME DeployInv, NEW d \in Deploys, Script(d)
    PROVE  DeployInv'
<1> USE DEF AtSteps, Goto, box
<1>1. CASE Preflight(d)
  BY <1>1 DEF Preflight
<1>2. CASE Upload(d)
  BY <1>2, UnderWay DEF Upload
<1>3. CASE Push(d)
  BY <1>3, UnderWay DEF Push, Then, RemSteps
<1>4. CASE Wait(d)
  BY <1>4 DEF Wait
<1>5. CASE CleanHost(d)
  BY <1>5, UnderWay DEF CleanHost
<1>6. CASE Health(d)
  BY <1>6 DEF Health
<1>7. CASE Verify(d)
  BY <1>7 DEF Verify
<1>8. CASE Cut(d)
  BY <1>8 DEF Cut
<1>9. QED
  BY <1>1, <1>2, <1>3, <1>4, <1>5, <1>6, <1>7, <1>8 DEF Script

\* Nobody builds when cargo's lock is free.
LEMMA LockFree ==
    ASSUME DeployInv, compiling = Idle
    PROVE  \A e \in Deploys : rem[e] # "building"
OBVIOUS

\* cargo begins with the tree of the newest deploy, if that has unpacked one, or
\* leaves a binary of another commit and is excepted for it.
LEMMA StartBuildStep ==
    ASSUME DeployInv, NEW d \in Deploys, StartBuild(d)
    PROVE  DeployInv'
<1>1. /\ rem[d] = "build" /\ compiling = Idle
      /\ UNCHANGED <<commits, started, want, at, hostTar, boxTar, tree, marker, running, binary>>
  BY DEF StartBuild, LeftAsIs
<1>2. \A e \in Deploys : rem[e] # "building"
  BY <1>1, LockFree
<1>3. CASE Dirty
  <2>1. /\ rem' = [rem EXCEPT ![d] = "building"] /\ UNCHANGED unbuilt
        /\ compiling' = [by |-> d, tree |-> tree, seen |-> commits]
    BY <1>3 DEF StartBuild, Then
  <2>2. compiling' # Idle /\ compiling'.by = d /\ compiling'.tree = tree
    BY <2>1 DEF Idle, None, Deploys
  <2>3. Typed' /\ Stages' /\ Archives'
    BY <1>1, <2>1 DEF RemSteps
  <2>4. Unpacked' /\ Built' /\ Locked'
    BY <1>1, <1>2, <2>1, <2>2
  <2>5. QED
    BY <2>3, <2>4
<1>4. CASE ~Dirty
  <2>1. /\ rem' = [rem EXCEPT ![d] = "restart"] /\ compiling' = compiling
        /\ unbuilt' = IF binary = tree THEN unbuilt ELSE unbuilt \cup {d}
    BY <1>4 DEF StartBuild, Then, LeftAsIs
  <2>2. Typed' /\ Stages' /\ Archives'
    BY <1>1, <2>1 DEF RemSteps
  <2>3. Unpacked' /\ Locked'
    BY <1>1, <1>2, <2>1
  <2>4. Built'
    BY <1>1, <2>1
  <2>5. QED
    BY <2>2, <2>3, <2>4
<1>5. QED
  BY <1>3, <1>4

\* A build ends with the tree it began with or the one that replaced it: both are
\* the newest deploy's once that has unpacked.
LEMMA FinishBuildStep ==
    ASSUME DeployInv, NEW d \in Deploys, FinishBuild(d)
    PROVE  DeployInv'
<1>1. /\ rem[d] = "building" /\ compiling' = Idle /\ rem' = [rem EXCEPT ![d] = "restart"]
      /\ UNCHANGED <<commits, started, want, at, hostTar, boxTar, tree, marker, running>>
  BY DEF FinishBuild, Then
<1>2. \/ binary' \in {compiling.tree, tree} /\ unbuilt' = unbuilt
      \/ binary' = binary /\ unbuilt' = IF binary = tree THEN unbuilt ELSE unbuilt \cup {d}
  BY DEF FinishBuild, LeftAsIs
<1>3. compiling # Idle /\ \A e \in Deploys : rem[e] = "building" => e = d
  BY <1>1
<1>4. Typed' /\ Stages' /\ Archives'
  BY <1>1 DEF RemSteps
<1>5. Unpacked' /\ Locked'
  BY <1>1, <1>3
<1>6. ASSUME NEW e \in Deploys, e = started,
             rem'[e] \in {"restart", "active", "clean", "done"}
      PROVE  /\ e \notin unbuilt' => binary' = want[e]
             /\ rem'[e] \in {"active", "clean", "done"} /\ e \notin unbuilt' =>
                  running \in {binary', None}
  <2>1. CASE e = d
    BY <1>1, <1>2, <1>6, <2>1
  <2>2. CASE e # d
    <3>1. rem'[e] = rem[e] /\ tree = want[e] /\ compiling.tree = want[e]
      BY <1>1, <1>3, <1>6, <2>2
    <3>2. e \notin unbuilt' => e \notin unbuilt
      BY <1>2
    <3>3. QED
      BY <1>2, <1>6, <3>1, <3>2
  <2>3. QED
    BY <2>1, <2>2
<1>7. Built'
  BY <1>1, <1>6
<1>8. QED
  BY <1>4, <1>5, <1>7

\* What the script on the host does.
LEMMA HostStep ==
    ASSUME DeployInv, NEW d \in Deploys, OnHost(d)
    PROVE  DeployInv'
<1> USE DEF RemSteps, Then
<1>1. CASE Backup(d)
  BY <1>1 DEF Backup
<1>2. CASE Unpack(d)
  BY <1>2 DEF Unpack
<1>3. CASE Restart(d)
  BY <1>3 DEF Restart
<1>4. CASE IsActive(d)
  BY <1>4 DEF IsActive, box
<1>5. CASE CleanBox(d)
  BY <1>5 DEF CleanBox
<1>6. CASE Stop(d)
  BY <1>6 DEF Stop
<1>7. CASE StartBuild(d) \/ FinishBuild(d)
  BY <1>7, StartBuildStep, FinishBuildStep
<1>8. QED
  BY <1>1, <1>2, <1>3, <1>4, <1>5, <1>6, <1>7 DEF OnHost

\* A deploy that exits with 0 has left its commit in the tree and the marker and,
\* unless cargo failed in it or found nothing to do, on disk and in the service:
\* whatever is committed and asked for meanwhile, and whatever scripts of deploys
\* that were cut off still do on the host.  One deploy is started at a time.
THEOREM SuccessTrue ==
    ASSUME "overlap" \notin Faults
    PROVE  Spec => []SuccessIsBuilt
<1>1. DeployInv /\ [Next]_vars => DeployInv'
  <2> SUFFICES ASSUME DeployInv, [Next]_vars PROVE DeployInv'
    OBVIOUS
  <2>1. CASE UNCHANGED vars
    BY <2>1 DEF vars, box
  <2>2. QED
    BY <2>1, StartStep, OtherStep, ScriptStep, HostStep DEF Next
<1>2. DeployInv => SuccessIsBuilt
  <2> SUFFICES ASSUME DeployInv, started > 0, at[started] = "ok"
               PROVE  /\ marker = want[started] /\ tree = want[started]
                      /\ started \notin unbuilt =>
                           binary = want[started] /\ running \in {binary, None}
    BY DEF SuccessIsBuilt
  <2>1. started \in Deploys
    BY DEF Deploys
  <2>2. rem[started] = "done"
    BY <2>1
  <2>3. QED
    BY <2>1, <2>2
<1>3. QED
  BY DeployInit, <1>1, <1>2, PTL DEF Spec

=============================================================================
