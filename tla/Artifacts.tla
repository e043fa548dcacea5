------------------------------ MODULE Artifacts ------------------------------
(***************************************************************************)
(* Files that managed processes produce, their commit to the repository of  *)
(* artifacts, and their delivery (src/mmag/execution/, application/          *)
(* delivery.py).                                                             *)
(*                                                                           *)
(* A script of a Skill runs in a workspace of its own; an agent's shell, in  *)
(* the workspace of its run, which outlives the command and is committed     *)
(* under a key.  The repository keeps a directory and a row for an artifact, *)
(* written one after the other; a crash may come between any two steps, and  *)
(* a process that the command left behind may write the file meanwhile.      *)
(* A content is a member of Content; the hash of a file stands for it.       *)
(***************************************************************************)
EXTENDS Naturals, Sequences, SequencesExt

CONSTANTS
  ScriptOutput,     \* outputs of scripts: every execution makes a new artifact
  WorkspaceOutput,  \* files of a run's workspace: the key of the commit names run and file
  Content,          \* what a file may hold, "bad" if it is not of its declared kind
  MaxRunnerCrashes  \* bound

ASSUME ArtifactsAssumption == "bad" \in Content /\ MaxRunnerCrashes \in Nat

VARIABLES
  \* ---- the file system and the processes
  staged,      \* [Output -> content of the file to commit, "none" if there is none]
  child,       \* [Output -> the process that may write it: "none", or the runner it is under]
  tmpDir,      \* [Output -> content of a ".commit-" directory]
  artifactDir, \* [Output -> content of the artifact's directory]
  \* ---- SQLite
  artifactRow, \* [Output -> sha256 of the row]
  fileIds,     \* the file ids saved with the Outbox row: what was uploaded
  \* ---- memory
  runnerUp,     \* [Output -> the execution: "idle", "running", "output", "over"]
  commit,      \* the commit under way: output, next step and the hash it expects
  sending,     \* the delivery under way: its file ids so far, or "idle"
  up,          \* the process runs, "broken" if it cannot start
  \* ---- the world
  refs,        \* the artifacts that the message is to carry, <<>> before it is queued
  sentFiles,   \* the files of the post, <<>> before it is made
  runnerCrashes

artifactVars == <<staged, child, tmpDir, artifactDir, artifactRow, fileIds, runnerUp, commit,
                  sending, up, refs, sentFiles, runnerCrashes>>
disk == <<tmpDir, artifactDir, artifactRow>>
delivering == <<fileIds, sending, refs, sentFiles>>

Output == ScriptOutput \cup WorkspaceOutput
Runner == {"bubblewrap", "host"}
NoCommit == [of |-> "nothing", at |-> "idle", hash |-> "none"]
Free == up = "yes" /\ commit = NoCommit

-----------------------------------------------------------------------------
(* Executions: ProcessRunner, ScriptExecutor._execute, LocalExecutionBackend. *)

\* The preflight passed and the workspace is there; a shell has no sandbox.
StartExecution(o, runner) ==
  /\ Free /\ runnerUp[o] = "idle" /\ child[o] = "none"
  /\ o \in WorkspaceOutput => runner = "host"
  /\ runnerUp' = [runnerUp EXCEPT ![o] = "running"]
  /\ child' = [child EXCEPT ![o] = runner]
  /\ UNCHANGED <<staged, disk, commit, up, runnerCrashes, delivering>>

\* At any time as long as it lives, even while the file is committed.
ChildWrites(o, c) ==
  /\ child[o] # "none" /\ staged[o] # c
  /\ staged' = [staged EXCEPT ![o] = c]
  /\ UNCHANGED <<child, disk, runnerUp, commit, up, runnerCrashes, delivering>>

ChildEnds(o) ==
  /\ child[o] # "none" /\ runnerUp[o] # "running"
  /\ child' = [child EXCEPT ![o] = "none"]
  /\ UNCHANGED <<staged, disk, runnerUp, commit, up, runnerCrashes, delivering>>

\* The command returned.  Its sandbox ends with it; on the host what it put into the
\* background goes on.
CommandReturns(o) ==
  /\ Free /\ runnerUp[o] = "running"
  /\ runnerUp' = [runnerUp EXCEPT ![o] = "output"]
  /\ child' \in {[child EXCEPT ![o] = "none"], [child EXCEPT ![o] = IF @ = "host" THEN "host" ELSE "none"]}
  /\ UNCHANGED <<staged, disk, commit, up, runnerCrashes, delivering>>

\* An exit code, a deadline, the limit of output or a cancellation: the process group is
\* killed if it is alive; a script's workspace is removed.
Kept(o) == IF o \in ScriptOutput THEN [staged EXCEPT ![o] = "none"] ELSE staged
ExecutionFails(o) ==
  /\ Free /\ runnerUp[o] = "running"
  /\ runnerUp' = [runnerUp EXCEPT ![o] = IF o \in ScriptOutput THEN "over" ELSE "output"]
  /\ child' = [child EXCEPT ![o] = "none"]
  /\ staged' = Kept(o)
  /\ UNCHANGED <<disk, commit, up, runnerCrashes, delivering>>

-----------------------------------------------------------------------------
(* ArtifactRepository.commit.                                              *)

\* A commit that ends: a script's workspace goes, a run may go on in its own.
Ended(o) ==
  /\ commit' = NoCommit
  /\ staged' = Kept(o)
  /\ runnerUp' = [runnerUp EXCEPT ![o] = IF o \in ScriptOutput THEN "over" ELSE "idle"]

\* validate_artifact_output looks at the file for its kind.
BeginCommit(o) ==
  /\ Free /\ runnerUp[o] = "output"
  /\ IF staged[o] \in {"none", "bad"}
     THEN Ended(o)
     ELSE commit' = [of |-> o, at |-> "inspect", hash |-> "none"] /\ UNCHANGED <<staged, runnerUp>>
  /\ UNCHANGED <<child, disk, up, runnerCrashes, delivering>>

\* _inspect and _existing: an artifact with the key is the result if it is the same, and an
\* error if not.
Inspect(o) ==
  /\ up = "yes" /\ commit.of = o /\ commit.at = "inspect"
  /\ IF artifactRow[o] # "none" THEN Ended(o)
     ELSE commit' = [commit EXCEPT !.at = "copy", !.hash = staged[o]] /\ UNCHANGED <<staged, runnerUp>>
  /\ UNCHANGED <<child, disk, up, runnerCrashes, delivering>>

Copy(o) ==
  /\ up = "yes" /\ commit.of = o /\ commit.at = "copy"
  /\ tmpDir' = [tmpDir EXCEPT ![o] = staged[o]]
  /\ commit' = [commit EXCEPT !.at = "replace"]
  /\ UNCHANGED <<staged, child, artifactDir, artifactRow, runnerUp, up, runnerCrashes, delivering>>

\* The copy is hashed again and becomes the artifact's directory; a mutant trusts the copy.
Trusted(o) == TRUE
SameAsInspected(o) == tmpDir[o] = commit.hash

\* Whatever raises removes both directories.
CommitFails(o) ==
  /\ tmpDir' = [tmpDir EXCEPT ![o] = "none"]
  /\ artifactDir' = [artifactDir EXCEPT ![o] = "none"]
  /\ Ended(o)
  /\ UNCHANGED artifactRow

Replace(o) ==
  /\ up = "yes" /\ commit.of = o /\ commit.at = "replace"
  /\ \/ /\ SameAsInspected(o) /\ artifactDir[o] = "none"
        /\ artifactDir' = [artifactDir EXCEPT ![o] = tmpDir[o]]
        /\ tmpDir' = [tmpDir EXCEPT ![o] = "none"]
        /\ commit' = [commit EXCEPT !.at = "insert"]
        /\ UNCHANGED <<staged, runnerUp, artifactRow>>
     \/ CommitFails(o)
  /\ UNCHANGED <<child, up, runnerCrashes, delivering>>

InsertRow(o) ==
  /\ up = "yes" /\ commit.of = o /\ commit.at = "insert"
  /\ \/ artifactRow' = [artifactRow EXCEPT ![o] = commit.hash] /\ Ended(o) /\ UNCHANGED <<tmpDir, artifactDir>>
     \/ CommitFails(o)
  /\ UNCHANGED <<child, up, runnerCrashes, delivering>>

-----------------------------------------------------------------------------
(* Delivery.                                                               *)

Committed == {o \in Output : artifactRow[o] # "none"}

\* The answer is presented with the artifacts of its run; the row enters the Outbox.
QueueMessage ==
  /\ Free /\ refs = <<>> /\ Committed # {}
  /\ refs' = SetToSeq(Committed)
  /\ UNCHANGED <<staged, child, disk, runnerUp, commit, up, runnerCrashes, fileIds, sending, sentFiles>>

BeginDelivery ==
  /\ Free /\ refs # <<>> /\ sentFiles = <<>> /\ sending = <<"idle">>
  /\ sending' = fileIds
  /\ UNCHANGED <<staged, child, disk, runnerUp, commit, up, runnerCrashes, fileIds, refs, sentFiles>>

\* Resolve, upload, and save the ids with the row.  A crash after the upload and before the
\* save leaves a file on the server that no post refers to.
RefsToUpload == SubSeq(refs, Len(sending) + 1, Len(refs))

Upload ==
  /\ Free /\ sending # <<"idle">> /\ Len(sending) < Len(refs)
  /\ sending' = Append(sending, artifactDir[Head(RefsToUpload)])
  /\ fileIds' = sending'
  /\ UNCHANGED <<staged, child, disk, runnerUp, commit, up, runnerCrashes, refs, sentFiles>>

UploadLost ==
  /\ Free /\ sending # <<"idle">>
  /\ sending' = <<"idle">>
  /\ UNCHANGED <<staged, child, disk, runnerUp, commit, up, runnerCrashes, fileIds, refs, sentFiles>>

SendFiles ==
  /\ Free /\ sending # <<"idle">> /\ Len(sending) >= Len(refs)
  /\ sentFiles' = sending /\ sending' = <<"idle">>
  /\ UNCHANGED <<staged, child, disk, runnerUp, commit, up, runnerCrashes, fileIds, refs>>

-----------------------------------------------------------------------------
(* Crash and restart.                                                      *)

\* A sandbox dies with its parent, a process on the host does not.
CrashRunner ==
  /\ up = "yes" /\ runnerCrashes < MaxRunnerCrashes
  /\ up' = "no" /\ commit' = NoCommit /\ sending' = <<"idle">>
  /\ child' = [o \in Output |-> IF child[o] = "host" THEN "host" ELSE "none"]
  /\ runnerUp' = [o \in Output |-> IF o \in ScriptOutput /\ runnerUp[o] # "idle" THEN "over" ELSE "idle"]
  /\ runnerCrashes' = runnerCrashes + 1
  /\ UNCHANGED <<staged, disk, fileIds, refs, sentFiles>>

\* reconcile(): a row without its file stops the start; directories without a row go.  A
\* mutant removes unfinished commits only.  cleanup_stale() removes workspaces older than
\* the retention, that of a run which waits for an approval included.
WithoutOrphansKept(o) == artifactDir[o]
WithoutOrphans(o) == IF artifactRow[o] = "none" THEN "none" ELSE artifactDir[o]

RestartRunner ==
  /\ up = "no"
  /\ IF \E o \in Committed : artifactDir[o] = "none"
     THEN up' = "broken" /\ UNCHANGED <<tmpDir, artifactDir, staged>>
     ELSE /\ up' = "yes"
          /\ tmpDir' = [o \in Output |-> "none"]
          /\ artifactDir' = [o \in Output |-> WithoutOrphans(o)]
          /\ \E old \in SUBSET WorkspaceOutput :
               staged' = [o \in Output |-> IF o \in ScriptOutput \cup old THEN "none" ELSE staged[o]]
  /\ UNCHANGED <<child, artifactRow, runnerUp, commit, runnerCrashes, delivering>>

-----------------------------------------------------------------------------
ArtifactsInit ==
  /\ staged = [o \in Output |-> "none"] /\ child = [o \in Output |-> "none"]
  /\ tmpDir = [o \in Output |-> "none"] /\ artifactDir = [o \in Output |-> "none"]
  /\ artifactRow = [o \in Output |-> "none"] /\ fileIds = <<>>
  /\ runnerUp = [o \in Output |-> "idle"] /\ commit = NoCommit /\ sending = <<"idle">>
  /\ up = "yes" /\ refs = <<>> /\ sentFiles = <<>> /\ runnerCrashes = 0

ArtifactsNext ==
  \/ QueueMessage \/ BeginDelivery \/ Upload \/ UploadLost \/ SendFiles
  \/ CrashRunner \/ RestartRunner
  \/ \E o \in Output :
       \/ ChildEnds(o) \/ CommandReturns(o) \/ ExecutionFails(o)
       \/ BeginCommit(o) \/ Inspect(o) \/ Copy(o) \/ Replace(o) \/ InsertRow(o)
       \/ \E runner \in Runner : StartExecution(o, runner)
       \/ \E c \in Content : ChildWrites(o, c)

ArtifactsSpec == ArtifactsInit /\ [][ArtifactsNext]_artifactVars

-----------------------------------------------------------------------------
ArtifactsTypeOK ==
  /\ staged \in [Output -> Content \cup {"none"}] /\ artifactRow \in [Output -> Content \cup {"none"}]
  /\ child \in [Output -> Runner \cup {"none"}]
  /\ runnerUp \in [Output -> {"idle", "running", "output", "over"}]
  /\ commit.at \in {"idle", "inspect", "copy", "replace", "insert"}
  /\ up \in {"yes", "no", "broken"}
  /\ commit = NoCommit => \A o \in Output : up = "yes" => tmpDir[o] = "none"

\* An artifact's row names a file that is there and holds what the row's hash says, whatever
\* wrote to the staged file during the commit and wherever a crash interrupted it; so the
\* repository can always be opened again, and while it is open no directory is without a row
\* except the one of the commit under way (commit, reconcile, resolve).
RowsHaveTheirFiles ==
  /\ \A o \in Committed : artifactDir[o] = artifactRow[o]
  /\ up # "broken"
  /\ Free => \A o \in Output : artifactDir[o] # "none" => o \in Committed

\* The post that delivers artifacts carries each of them once and in order, although uploads
\* are repeated after failures and crashes (deliver, save_delivery_files).
PostCarriesEachArtifact ==
  sentFiles # <<>> => sentFiles = [i \in DOMAIN refs |-> artifactRow[refs[i]]]

\* From the runner's staged file to the post an artifact arrives whole: the two above.
ArtifactsArriveWhole == RowsHaveTheirFiles /\ PostCarriesEachArtifact
=============================================================================
