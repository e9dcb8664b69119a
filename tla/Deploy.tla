------------------------------- MODULE Deploy -------------------------------
(***************************************************************************)
(* deploy/deploy.sh, as the workflow of .github/workflows/deploy.yml or an *)
(* operator runs it: pack, upload, then a script on the host that unpacks, *)
(* builds and restarts in the container, and the verification.             *)
(*                                                                         *)
(* The script on the host is a process of its own: it does not die with    *)
(* the connection that started it.  Commits are numbered in the order of   *)
(* their commit times.  Of a tree only its commit is kept, and of a binary *)
(* the commit it was built from.                                           *)
(***************************************************************************)
EXTENDS Naturals

CONSTANTS
    MaxCommits,  \* commits that are ever made
    MaxDeploys,  \* deploys that are ever started
    Faults       \* what may go wrong, from FaultKinds

FaultKinds == {"cut",      \* a connection of the script is lost
               "stop",     \* the script on the host is stopped
               "build",    \* cargo build fails
               "down",     \* the new binary does not come up
               "reboot",   \* the service is restarted by somebody else
               "older",    \* a deploy is asked for another commit than the newest
               "overlap"}  \* a deploy outside of the workflow's concurrency group

ASSUME DeployAssumption ==
    /\ MaxCommits \in Nat \ {0}
    /\ MaxDeploys \in Nat
    /\ Faults \subseteq FaultKinds

VARIABLES
    commits,    \* commits made so far
    started,    \* deploys started so far
    want,       \* COMMIT of each deploy
    at,         \* where deploy.sh stands
    rem,        \* where its script on the host stands
    hostTar,    \* /tmp/ovk-deploy.tar on the host
    boxTar,     \* and in the container
    tree,       \* $APPPATH
    marker,     \* $APPPATH/.deployed-commit
    compiling,  \* the build that holds cargo's lock
    binary,     \* target/release/ovk-prototype-server
    seen,       \* commits that existed when the build of that binary began
    backup,     \* /tmp/ovk-binary-previous
    running,    \* what the service runs
    unbuilt     \* auxiliary: deploys whose cargo failed, or had nothing to do,
                \* and left a binary of another commit than the tree

box  == <<hostTar, boxTar, tree, marker, compiling, binary, seen, backup, running,
          unbuilt>>
vars == <<commits, started, want, at, rem, box>>

None    == 0
Deploys == 1 .. MaxDeploys
Idle    == [by |-> None, tree |-> None, seen |-> 0]

\* A container that runs a deployed commit, or a new one.
Init ==
    /\ commits = 1
    /\ started = 0
    /\ want = [d \in Deploys |-> None]
    /\ at = [d \in Deploys |-> "new"]
    /\ rem = [d \in Deploys |-> "none"]
    /\ hostTar = None /\ boxTar = None
    /\ compiling = Idle
    /\ backup = None /\ unbuilt = {}
    /\ \E c \in {None, 1} : tree = c /\ marker = c /\ binary = c /\ seen = c /\ running = c

Ended(d) == at[d] \in {"ok", "failed"}

\* Whatever the deploys are doing.
Commit ==
    /\ commits < MaxCommits
    /\ commits' = commits + 1
    /\ UNCHANGED <<started, want, at, rem, box>>

-----------------------------------------------------------------------------
(* deploy.sh. *)

Goto(d, step) == at' = [at EXCEPT ![d] = step]

\* The ref is resolved and packed.
Start ==
    /\ started < MaxDeploys
    /\ "overlap" \in Faults \/ \A d \in 1 .. started : Ended(d)
    /\ started' = started + 1
    /\ \E c \in 1 .. commits :
        /\ c = commits \/ "older" \in Faults
        /\ want' = [want EXCEPT ![started'] = c]
    /\ Goto(started', "check")
    /\ UNCHANGED <<commits, rem, box>>

\* Preflight: nothing is changed on the host.
Preflight(d) ==
    /\ at[d] = "check"
    /\ Goto(d, "upload")
    /\ UNCHANGED <<commits, started, want, rem, box>>

Upload(d) ==
    /\ at[d] = "upload"
    /\ hostTar' = want[d]
    /\ Goto(d, "push")
    /\ UNCHANGED <<commits, started, want, rem, boxTar, tree, marker, compiling, binary, seen,
                   backup, running, unbuilt>>

\* lxc file push, then the script is sent.
Push(d) ==
    /\ at[d] = "push"
    /\ \/ /\ hostTar # None
          /\ boxTar' = hostTar
          /\ Goto(d, "remote")
          /\ rem' = [rem EXCEPT ![d] = "backup"]
       \/ hostTar = None /\ Goto(d, "failed") /\ UNCHANGED <<rem, boxTar>>
    /\ UNCHANGED <<commits, started, want, hostTar, tree, marker, compiling, binary, seen, backup,
                   running, unbuilt>>

\* The exit status of the script on the host.
Wait(d) ==
    /\ at[d] = "remote"
    /\ \/ rem[d] = "done" /\ Goto(d, "clean")
       \/ rem[d] = "failed" /\ Goto(d, "failed")
    /\ UNCHANGED <<commits, started, want, rem, box>>

CleanHost(d) ==
    /\ at[d] = "clean"
    /\ hostTar' = None
    /\ Goto(d, "health")
    /\ UNCHANGED <<commits, started, want, rem, boxTar, tree, marker, compiling, binary, seen,
                   backup, running, unbuilt>>

\* GET /mockup, which every version answers alike.
Health(d) ==
    /\ at[d] = "health"
    /\ Goto(d, IF running # None THEN "verify" ELSE "failed")
    /\ UNCHANGED <<commits, started, want, rem, box>>

Verify(d) ==
    /\ at[d] = "verify"
    /\ Goto(d, IF marker = want[d] THEN "ok" ELSE "failed")
    /\ UNCHANGED <<commits, started, want, rem, box>>

\* set -e; the script on the host does not notice.
Cut(d) ==
    /\ "cut" \in Faults
    /\ at[d] # "new" /\ ~Ended(d)
    /\ Goto(d, "failed")
    /\ UNCHANGED <<commits, started, want, rem, box>>

-----------------------------------------------------------------------------
(* The script on the host. *)

Then(d, step) == rem' = [rem EXCEPT ![d] = step]

\* The binary on disk, if there is one.
Backup(d) ==
    /\ rem[d] = "backup"
    /\ backup' = IF binary = None THEN backup ELSE binary
    /\ Then(d, "unpack")
    /\ UNCHANGED <<commits, started, want, at, hostTar, boxTar, tree, marker, compiling, binary,
                   seen, running, unbuilt>>

\* Mutant: the marker is written whether or not tar succeeds.
UnpackUnchecked(d) ==
    /\ rem[d] = "unpack"
    /\ tree' = IF boxTar # None THEN boxTar ELSE tree
    /\ marker' = want[d]
    /\ Then(d, "build")
    /\ UNCHANGED <<commits, started, want, at, hostTar, boxTar, compiling, binary, seen, backup,
                   running, unbuilt>>

\* tar xf && printf: the marker is written before anything is built.
Unpack(d) ==
    /\ rem[d] = "unpack"
    /\ \/ boxTar # None /\ tree' = boxTar /\ marker' = want[d] /\ Then(d, "build")
       \/ boxTar = None /\ Then(d, "failed") /\ UNCHANGED <<tree, marker>>
    /\ UNCHANGED <<commits, started, want, at, hostTar, boxTar, compiling, binary, seen, backup,
                   running, unbuilt>>

\* Every file of an archive has the commit time, and cargo builds what changed
\* since its last build began.
Dirty == binary = None \/ tree > seen

\* A build step that changes nothing, of a deploy or of a tree that is built.
LeftAsIs(d) ==
    /\ UNCHANGED <<binary, seen>>
    /\ unbuilt' = IF binary = tree THEN unbuilt ELSE unbuilt \cup {d}

\* cargo build waits for its lock and finds what there is to do.
StartBuild(d) ==
    /\ rem[d] = "build"
    /\ compiling = Idle
    /\ IF Dirty
         THEN Then(d, "building") /\ compiling' = [by |-> d, tree |-> tree, seen |-> commits]
              /\ UNCHANGED <<binary, seen, unbuilt>>
         ELSE Then(d, "restart") /\ LeftAsIs(d) /\ UNCHANGED compiling
    /\ UNCHANGED <<commits, started, want, at, hostTar, boxTar, tree, marker, backup, running>>

\* cargo build | tail: the next step comes whatever cargo's exit status.  A tree
\* that was replaced meanwhile may have been read before or after.
FinishBuild(d) ==
    /\ rem[d] = "building"
    /\ \/ binary' \in {compiling.tree, tree} /\ seen' = compiling.seen /\ UNCHANGED unbuilt
       \/ "build" \in Faults /\ LeftAsIs(d)
    /\ compiling' = Idle
    /\ Then(d, "restart")
    /\ UNCHANGED <<commits, started, want, at, hostTar, boxTar, tree, marker, backup, running>>

\* systemctl restart
Restart(d) ==
    /\ rem[d] = "restart"
    /\ \/ running' = binary
       \/ "down" \in Faults /\ running' = None
    /\ Then(d, "active")
    /\ UNCHANGED <<commits, started, want, at, hostTar, boxTar, tree, marker, compiling, binary,
                   seen, backup, unbuilt>>

IsActive(d) ==
    /\ rem[d] = "active"
    /\ Then(d, IF running # None THEN "clean" ELSE "failed")
    /\ UNCHANGED <<commits, started, want, at, box>>

CleanBox(d) ==
    /\ rem[d] = "clean"
    /\ boxTar' = None
    /\ Then(d, "done")
    /\ UNCHANGED <<commits, started, want, at, hostTar, tree, marker, compiling, binary, seen,
                   backup, running, unbuilt>>

Stop(d) ==
    /\ "stop" \in Faults
    /\ rem[d] \notin {"none", "done", "failed"}
    /\ Then(d, "failed")
    /\ compiling' = IF compiling.by = d THEN Idle ELSE compiling
    /\ UNCHANGED <<commits, started, want, at, hostTar, boxTar, tree, marker, binary, seen, backup,
                   running, unbuilt>>

\* The unit is restarted on whatever binary there is.
Reboot ==
    /\ "reboot" \in Faults
    /\ running # binary
    /\ running' = binary
    /\ UNCHANGED <<commits, started, want, at, rem, hostTar, boxTar, tree, marker, compiling,
                   binary, seen, backup, unbuilt>>

-----------------------------------------------------------------------------

Script(d) ==
    \/ Preflight(d) \/ Upload(d) \/ Push(d) \/ Wait(d) \/ CleanHost(d) \/ Health(d) \/ Verify(d)
    \/ Cut(d)

OnHost(d) ==
    \/ Backup(d) \/ Unpack(d) \/ StartBuild(d) \/ FinishBuild(d) \/ Restart(d) \/ IsActive(d)
    \/ CleanBox(d) \/ Stop(d)

Next == Commit \/ Start \/ Reboot \/ \E d \in Deploys : Script(d) \/ OnHost(d)

Spec == Init /\ [][Next]_vars

-----------------------------------------------------------------------------
(* Properties. *)

\* A deploy that says it succeeded did: until the next one is started, what is
\* installed, and runs unless the service is down, is the commit it was asked
\* for, and the marker says so.  ("Verifies: ... A failed deploy exits non-zero",
\* deploy/README.md 58-61.)  The code does not keep that: the status of cargo is
\* lost in a pipe, and a commit made before the last build began is older than
\* what that build left, so that cargo finds nothing to do (deploy.sh 98).
SuccessIsLive ==
    started > 0 /\ at[started] = "ok"
    => /\ binary = want[started]
       /\ marker = want[started]
       /\ running \in {binary, None}

\* With these two exceptions, and one deploy at a time (deploy.yml 27-30), it
\* does, whatever commits are made and asked for meanwhile: a script on the host
\* that outlives its lost connection unpacks the next deploy's archive, or builds
\* a tree that is replaced under it, and both are cut, stopped and tried again.
SuccessIsBuilt ==
    started > 0 /\ at[started] = "ok"
    => /\ marker = want[started] /\ tree = want[started]
       /\ started \notin unbuilt => /\ binary = want[started]
                                   /\ running \in {binary, None}

=============================================================================
