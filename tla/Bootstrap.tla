----------------------------- MODULE Bootstrap ------------------------------
(***************************************************************************)
(* plugin/hooks/bootstrap.sh: the script between the agent and the guard's *)
(* binary.  Several runs of it share one path in the plugin directory: the *)
(* hook starts one for every shell command of the agent, and /explain one  *)
(* for "evaluate".  A hook run only uses the binary; any other run that    *)
(* does not find it builds or downloads it in place.                       *)
(*                                                                         *)
(* A file is named after the run that created it.  Its data is "good" for  *)
(* the bytes the checksum is of, "bad" for other complete bytes, "partial" *)
(* while or after being written in part.  Only the path is shared: a file  *)
(* that was removed is still written by whoever has it open.               *)
(***************************************************************************)
EXTENDS Integers

CONSTANTS Runs,       \* runs of the script, each runs once
          Hooks,      \* those in mode "hook"
          Installed,  \* the file an earlier installation left
          None        \* no file

ASSUME HooksAssumption == Hooks \subseteq Runs
ASSUME FilesAssumption == Installed \notin Runs /\ None \notin Runs \cup {Installed}

VARIABLES host,      \* what the machine offers: see Hosts
          binary,    \* the file at $BINARY, or None
          data, x,   \* of every file: its bytes, its executable bit
          pc, exit,  \* of every run
          writing,   \* the file its curl has open, or None
          mixed,     \* runs whose curl shared its file with another
          image,     \* the bytes a run exec'ed
          raced      \* whether two runs have installed at the same time (only
                     \* the properties read it)

files == <<binary, data, x>>
vars == <<host, files, pc, exit, writing, mixed, image, raced>>

(* supported: uname names a platform that there are binaries for.          *)
(* goSource: the Go source and a go command are there.                     *)
(* token: a token is given or can be looked up, which takes a HOME.        *)
Hosts == [supported : BOOLEAN, goSource : BOOLEAN, token : BOOLEAN]

Files == Runs \cup {Installed}
Executable == binary # None /\ x[binary]
UnderWay(r) == pc[r] \notin {"idle", "ended"}
Installing(r) == pc[r] \in {"build", "fetch", "write", "sums", "hash", "chmod"}

Init ==
    /\ host \in Hosts
    /\ binary \in {None, Installed}
    /\ x \in [Files -> BOOLEAN] /\ \A r \in Runs : ~x[r]
    /\ data = [f \in Files |-> IF f = Installed /\ x[f] THEN "good" ELSE "partial"]
    /\ pc = [r \in Runs |-> "idle"]
    /\ exit = [r \in Runs |-> "none"]
    /\ writing = [r \in Runs |-> None]
    /\ mixed = {}
    /\ image = [r \in Runs |-> "none"]
    /\ raced = FALSE

-----------------------------------------------------------------------------
Goto(r, label) == pc' = [pc EXCEPT ![r] = label] /\ UNCHANGED exit

End(r, code) ==
    /\ pc' = [pc EXCEPT ![r] = "ended"]
    /\ exit' = [exit EXCEPT ![r] = code]

(* fatal_error: exit 2 blocks the command of a hook, 1 is a plain error.   *)
Fatal(r) == End(r, IF r \in Hooks THEN "block" ELSE "error")

Remove == binary' = None /\ UNCHANGED <<data, x>>

NoteRace(r) == raced' = (raced \/ (Installing(r)' /\ \E q \in Runs : Installing(q)))

AlwaysFetch(r) ==
    /\ pc[r] = "idle"
    /\ IF ~host.supported THEN Fatal(r)
       ELSE IF r \in Hooks /\ Executable THEN Goto(r, "check")
       ELSE IF r \in Hooks THEN End(r, "allow")
       ELSE Goto(r, IF host.goSource THEN "build" ELSE "fetch")
    /\ NoteRace(r)
    /\ UNCHANGED <<host, files, writing, mixed, image>>

(* The platform, then the test of -x; a hook without a binary warns and    *)
(* allows the command.                                                     *)
Start(r) ==
    /\ pc[r] = "idle"
    /\ IF ~host.supported THEN Fatal(r)
       ELSE IF Executable THEN Goto(r, "check")
       ELSE IF r \in Hooks THEN End(r, "allow")
       ELSE Goto(r, IF host.goSource THEN "build" ELSE "fetch")
    /\ NoteRace(r)
    /\ UNCHANGED <<host, files, writing, mixed, image>>

RemoveThenBuild(r) ==
    /\ pc[r] = "build"
    /\ \/ /\ binary' = r
          /\ data' = [data EXCEPT ![r] = "good"]
          /\ x' = [x EXCEPT ![r] = TRUE]
          /\ Goto(r, "check")
       \/ Remove /\ Fatal(r)
    /\ UNCHANGED <<host, writing, mixed, image, raced>>

(* go build renames its result into place (it does where its work directory *)
(* is on the file system of the plugin, which is assumed).                 *)
Build(r) ==
    /\ pc[r] = "build"
    /\ \/ /\ binary' = r
          /\ data' = [data EXCEPT ![r] = "good"]
          /\ x' = [x EXCEPT ![r] = TRUE]
          /\ Goto(r, "check")
       \/ Fatal(r) /\ UNCHANGED files
    /\ UNCHANGED <<host, writing, mixed, image, raced>>

(* The plugin's version cannot be read, or the directory not be made.      *)
NoPluginVersion(r) ==
    /\ pc[r] = "fetch"
    /\ Fatal(r)
    /\ UNCHANGED <<host, files, writing, mixed, image, raced>>

(* curl -o: with the first bytes the file is created, not executable, or   *)
(* an existing one emptied.                                                *)
OpenDownload(r) ==
    LET f == IF binary = None THEN r ELSE binary
        sharing == {q \in Runs : writing[q] = f}
    IN /\ pc[r] = "fetch"
       /\ binary' = f
       /\ data' = [data EXCEPT ![f] = "partial"]
       /\ x' = [x EXCEPT ![f] = binary # None /\ x[f]]
       /\ writing' = [writing EXCEPT ![r] = f]
       /\ mixed' = IF sharing = {} THEN mixed ELSE mixed \cup sharing \cup {r}
       /\ Goto(r, "write")
       /\ UNCHANGED <<host, image, raced>>

(* What two curls that share a file leave behind may have holes. *)
FinishDownload(r) ==
    /\ pc[r] = "write"
    /\ \E d \in {"good", "bad"} \cup (IF r \in mixed THEN {"partial"} ELSE {}) :
          data' = [data EXCEPT ![writing[r]] = d]
    /\ writing' = [writing EXCEPT ![r] = None]
    /\ Goto(r, "sums")
    /\ UNCHANGED <<host, binary, x, mixed, image, raced>>

RetryForever(r) ==
    /\ pc[r] \in {"fetch", "write"}
    /\ Remove
    /\ writing' = [writing EXCEPT ![r] = None]
    /\ Goto(r, "fetch")
    /\ UNCHANGED <<host, mixed, image, raced>>

CurlFails(r) ==
    /\ pc[r] \in {"fetch", "write"}
    /\ Remove
    /\ writing' = [writing EXCEPT ![r] = None]
    /\ Fatal(r)
    /\ UNCHANGED <<host, mixed, image, raced>>

SkipChecksums(r) ==
    /\ pc[r] = "sums"
    /\ Goto(r, "chmod")
    /\ UNCHANGED <<host, files, writing, mixed, image, raced>>

(* The expected checksum, or none of it: no list, an empty entry, no tool. *)
(* A list without the entry makes grep fail, which ends the script at once *)
(* (errexit, pipefail) and leaves the file.                                *)
FetchChecksums(r) ==
    /\ pc[r] = "sums"
    /\ \/ Goto(r, "hash") /\ UNCHANGED files
       \/ Remove /\ Fatal(r)
       \/ End(r, "error") /\ UNCHANGED files
    /\ UNCHANGED <<host, writing, mixed, image, raced>>

(* The file at the path is hashed; without one the script ends (errexit).  *)
Verify(r) ==
    /\ pc[r] = "hash"
    /\ CASE binary = None -> End(r, "error") /\ UNCHANGED files
         [] binary # None /\ data[binary] = "good" -> Goto(r, "chmod") /\ UNCHANGED files
         [] OTHER -> Remove /\ Fatal(r)
    /\ UNCHANGED <<host, writing, mixed, image, raced>>

MakeExecutable(r) ==
    /\ pc[r] = "chmod"
    /\ IF binary = None
       THEN End(r, "error") /\ UNCHANGED x
       ELSE Goto(r, "check") /\ x' = [x EXCEPT ![binary] = TRUE]
    /\ UNCHANGED <<host, binary, data, writing, mixed, image, raced>>

CheckExecutable(r) ==
    /\ pc[r] = "check"
    /\ IF Executable THEN Goto(r, "token") ELSE Fatal(r)
    /\ UNCHANGED <<host, files, writing, mixed, image, raced>>

(* Without a token in the environment the path of score.env is expanded:   *)
(* an unset HOME ends the script (nounset), and not through fatal_error.   *)
ResolveToken(r) ==
    /\ pc[r] = "token"
    /\ IF host.token THEN Goto(r, "exec") ELSE End(r, "error")
    /\ UNCHANGED <<host, files, writing, mixed, image, raced>>

(* Linux refuses to execute a file that is open for writing, macOS does    *)
(* not; a failed exec exits 126 or 127, which does not block a hook.       *)
Exec(r) ==
    /\ pc[r] = "exec"
    /\ \/ /\ Executable
          /\ image' = [image EXCEPT ![r] = data[binary]]
          /\ End(r, "active")
       \/ /\ ~Executable \/ \E q \in Runs : writing[q] = binary
          /\ End(r, "error")
          /\ UNCHANGED image
    /\ UNCHANGED <<host, files, writing, mixed, raced>>

(* Interrupted, or stopped by the hook's timeout, together with its curl.  *)
Kill(r) ==
    /\ UnderWay(r)
    /\ End(r, "killed")
    /\ writing' = [writing EXCEPT ![r] = None]
    /\ UNCHANGED <<host, files, mixed, image, raced>>

Work(r) ==
    \/ Build(r) \/ NoPluginVersion(r)
    \/ OpenDownload(r) \/ FinishDownload(r) \/ CurlFails(r)
    \/ FetchChecksums(r) \/ Verify(r) \/ MakeExecutable(r)
    \/ CheckExecutable(r) \/ ResolveToken(r) \/ Exec(r)

Next == \E r \in Runs : Start(r) \/ Work(r) \/ Kill(r)

(* A run that was started goes on: both transfers have a --max-time, and   *)
(* go build, which may fetch modules without one, is assumed to end.       *)
(* Nothing makes a run start or be killed.                                 *)
Spec == Init /\ [][Next]_vars /\ \A r \in Runs : WF_vars(Work(r))

-----------------------------------------------------------------------------
(* Properties *)

Labels == {"idle", "build", "fetch", "write", "sums", "hash", "chmod", "check", "token", "exec",
           "ended"}
Bytes == {"partial", "good", "bad"}

(* A run has a file open exactly while its curl is writing.                *)
TypeOK ==
    /\ host \in Hosts
    /\ binary \in Files \cup {None}
    /\ data \in [Files -> Bytes] /\ x \in [Files -> BOOLEAN]
    /\ pc \in [Runs -> Labels]
    /\ exit \in [Runs -> {"none", "active", "allow", "block", "error", "killed"}]
    /\ writing \in [Runs -> Files \cup {None}]
    /\ mixed \subseteq Runs
    /\ image \in [Runs -> Bytes \cup {"none"}]
    /\ raced \in BOOLEAN
    /\ \A r \in Runs : writing[r] # None <=> pc[r] = "write"

(* No bytes are executed but those that were built or that match the       *)
(* checksum (bootstrap.sh:112), wherever other runs are and wherever one   *)
(* was killed.                                                             *)
OnlyVerifiedRuns == \A r \in Runs : image[r] \in {"none", "good"}

(* What the script can promise.  It has no lock: once two runs have        *)
(* downloaded at the same time, which nothing in it prevents, all that     *)
(* follows may fail.  Builds may overlap: go build replaces the file in    *)
(* one step.                                                               *)
Orderly == host.goSource \/ ~raced

(* Until two downloads have overlapped, no bytes are executed but those    *)
(* that were built or that match the checksum, wherever runs were killed   *)
(* and whatever was found at the path.                                     *)
OrderlyRunsAreVerified == Orderly => OnlyVerifiedRuns

(* Until two downloads have overlapped, the executable bit is the commit   *)
(* point: a file that carries it at the path is complete and verified, so  *)
(* that a run that stops anywhere leaves nothing that the next one would   *)
(* take for installed, and a run past the test finds it still there.       *)
ExecutableIsVerified ==
    Orderly =>
        /\ Executable => data[binary] = "good"
        /\ \A r \in Runs :
              /\ pc[r] = "chmod" => binary # None /\ data[binary] = "good"
              /\ pc[r] \in {"check", "token", "exec"} => Executable

(* Until two downloads have overlapped, what is installed stays installed: *)
(* no run that lost a connection, found an older file or replaces a build  *)
(* removes or empties the binary under the others.                         *)
InstalledStays ==
    [][Orderly' /\ Executable => Executable' /\ data'[binary'] = "good"]_vars

(* Until two downloads have overlapped, a hook blocks only on a platform   *)
(* without binaries, and ends in an error, which the agent does not take   *)
(* for a block, only where no token is given and HOME is not set           *)
(* (bootstrap.sh:164): never for what the other runs do to the binary.     *)
HookFailsForTheHost ==
    Orderly => \A r \in Hooks : /\ exit[r] = "block" => ~host.supported
                              /\ exit[r] = "error" => ~host.token

(* Every run that was started ends. *)
RunsEnd == \A r \in Runs : UnderWay(r) ~> ~UnderWay(r)
=============================================================================
