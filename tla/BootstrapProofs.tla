-------------------------- MODULE BootstrapProofs ---------------------------
(***************************************************************************)
(* Proofs about Bootstrap for any number of runs and hooks.  No order of   *)
(* the runs is assumed: the theorems hold until two downloads overlap.     *)
(***************************************************************************)
EXTENDS Bootstrap, TLAPS

OneInstalls == \A q, r \in Runs : Installing(q) /\ Installing(r) => q = r

(* The executable bit is only on verified files, and the one run that may  *)
(* be installing does so while nothing at the path is executable, so that  *)
(* nobody else is past the test for it.                                    *)
Committed ==
    /\ Executable => data[binary] = "good"
    /\ \A r \in Runs :
          /\ Installing(r) => r \notin Hooks /\ ~Executable
          /\ pc[r] = "chmod" => binary # None /\ data[binary] = "good"
          /\ pc[r] \in {"check", "token", "exec"} => Executable

MayEnd(code) ==
    /\ code = "block" => ~host.supported
    /\ code = "error" => ~host.token

EndsForTheHost(r) == MayEnd(exit[r])

HooksEnd == \A r \in Hooks : EndsForTheHost(r)

(* What holds as long as no two runs have installed at the same time, and  *)
(* the inductive invariant.                                                *)
Safe ==
    /\ TypeOK
    /\ OneInstalls
    /\ Committed
    /\ OnlyVerifiedRuns
    /\ HooksEnd

IInv == ~raced => Safe

(* Where a run goes next, and with which exit code.                        *)
LEMMA GotoFacts ==
    ASSUME TypeOK, NEW r \in Runs, NEW l \in Labels, Goto(r, l)
    PROVE  /\ pc' \in [Runs -> Labels] /\ exit' = exit /\ pc'[r] = l
           /\ \A q \in Runs : q # r => pc'[q] = pc[q]
BY DEF Goto, TypeOK

(* What the end of a run changes.                                          *)
LEMMA EndFacts ==
    ASSUME TypeOK, NEW r \in Runs,
           NEW code \in {"none", "active", "allow", "block", "error", "killed"}, End(r, code)
    PROVE  /\ pc' \in [Runs -> Labels] /\ pc'[r] = "ended"
           /\ exit' \in [Runs -> {"none", "active", "allow", "block", "error", "killed"}]
           /\ exit'[r] = code
           /\ \A q \in Runs : q # r => pc'[q] = pc[q] /\ exit'[q] = exit[q]
BY DEF End, TypeOK, Labels

(* While a run installs, no other run is past the test for the binary, and *)
(* no other run installs.                                                  *)
LEMMA InstallsAlone ==
    ASSUME Safe, NEW r \in Runs, Installing(r)
    PROVE  /\ r \notin Hooks /\ ~Executable
           /\ \A q \in Runs : q # r => ~Installing(q) /\ pc[q] \in {"idle", "ended"}
<1>1. r \notin Hooks /\ ~Executable /\ UnderWay(r)
  BY DEF Safe, Committed, Installing, UnderWay
<1>2. ASSUME NEW q \in Runs, q # r
      PROVE  ~Installing(q) /\ pc[q] \in {"idle", "ended"}
  <2>1. ~Installing(q) /\ pc[q] \notin {"check", "token", "exec"}
    BY <1>1, <1>2 DEF Safe, Committed, OneInstalls
  <2>2. pc[q] \in Labels
    BY DEF Safe, TypeOK
  <2>3. QED
    BY <2>1, <2>2 DEF Labels, Installing
<1>3. QED
  BY <1>1, <1>2

(* A step of a run that leaves the files alone, and takes the run to a     *)
(* place where it may be, keeps the invariant.                             *)
LEMMA FilesKept ==
    ASSUME Safe, NEW r \in Runs, UNCHANGED files,
           TypeOK',
           \A q \in Runs : q # r => pc'[q] = pc[q] /\ exit'[q] = exit[q] /\ image'[q] = image[q],
           UNCHANGED host,
           r \in Hooks => EndsForTheHost(r)',
           image'[r] \in {"none", "good"},
           OneInstalls',
           Installing(r)' => r \notin Hooks /\ ~Executable,
           pc'[r] = "chmod" => binary # None /\ data[binary] = "good",
           pc'[r] \in {"check", "token", "exec"} => Executable
    PROVE  Safe'
<1>1. Executable' = Executable /\ binary' = binary /\ data' = data
  BY DEF files, Executable
<1>2. Committed'
  BY <1>1 DEF Safe, Committed, Installing
<1>3. OnlyVerifiedRuns' /\ HooksEnd'
  BY HooksAssumption DEF Safe, OnlyVerifiedRuns, HooksEnd, EndsForTheHost, MayEnd
<1>4. QED
  BY <1>2, <1>3 DEF Safe

(* A step of an installing run that changes the files keeps the invariant  *)
(* if afterwards it is past the test only with a verified binary.          *)
LEMMA InstallStep ==
    ASSUME Safe, NEW r \in Runs, Installing(r), TypeOK',
           \A q \in Runs : q # r => pc'[q] = pc[q] /\ exit'[q] = exit[q],
           UNCHANGED <<host, image>>,
           Executable' => data'[binary'] = "good",
           Installing(r)' => ~Executable',
           pc'[r] = "chmod" => binary' # None /\ data'[binary'] = "good",
           pc'[r] \in {"check", "token", "exec"} => Executable'
    PROVE  Safe'
<1>1. /\ r \notin Hooks
      /\ \A q \in Runs : q # r => ~Installing(q) /\ pc[q] \in {"idle", "ended"}
  BY InstallsAlone
<1>2. \A q \in Runs : q # r => /\ ~Installing(q)'
                               /\ pc'[q] \notin {"chmod", "check", "token", "exec"}
  BY <1>1 DEF Installing
<1>3. Committed'
  BY <1>1, <1>2 DEF Committed
<1>4. OneInstalls'
  BY <1>2 DEF OneInstalls
<1>5. OnlyVerifiedRuns' /\ HooksEnd'
  BY <1>1, HooksAssumption DEF Safe, OnlyVerifiedRuns, HooksEnd, EndsForTheHost, MayEnd
<1>6. QED
  BY <1>3, <1>4, <1>5 DEF Safe

-----------------------------------------------------------------------------
(* At the start nothing runs, and what an earlier installation made        *)
(* executable is complete.                                                 *)
LEMMA InitSafe == Init => Safe
<1> SUFFICES ASSUME Init
             PROVE  Safe
  OBVIOUS
<1>1. TypeOK
  BY FilesAssumption DEF Init, TypeOK, Files, Bytes, Labels
<1>2. Executable => data[binary] = "good"
  BY FilesAssumption DEF Init, Executable, Files
<1>3. \A r \in Runs : pc[r] = "idle" /\ exit[r] = "none" /\ image[r] = "none"
  BY DEF Init
<1>4. QED
  BY <1>1, <1>2, <1>3, HooksAssumption
     DEF Safe, OneInstalls, UnderWay, Committed, Installing, OnlyVerifiedRuns,
         HooksEnd, EndsForTheHost, MayEnd

(* A run that starts installs alone, or the runs have raced.               *)
LEMMA StartInv ==
    ASSUME Safe, NEW r \in Runs, Start(r), ~raced'
    PROVE  Safe'
<1>1. /\ pc[r] = "idle" /\ UNCHANGED <<host, files, writing, mixed, image>>
      /\ UNCHANGED files /\ UNCHANGED <<binary, data, x>> /\ raced' \in BOOLEAN
      /\ Installing(r)' => \A q \in Runs : ~Installing(q)
  BY DEF Start, files, NoteRace
<1>2. /\ pc' \in [Runs -> Labels] /\ pc'[r] \in Labels
      /\ exit' \in [Runs -> {"none", "active", "allow", "block", "error", "killed"}]
      /\ \A q \in Runs : q # r => pc'[q] = pc[q] /\ exit'[q] = exit[q]
      /\ \/ ~host.supported /\ pc'[r] = "ended" /\ exit'[r] = IF r \in Hooks THEN "block" ELSE "error"
         \/ Executable /\ pc'[r] = "check" /\ exit' = exit
         \/ ~Executable /\ r \in Hooks /\ pc'[r] = "ended" /\ exit'[r] = "allow"
         \/ ~Executable /\ r \notin Hooks /\ pc'[r] \in {"build", "fetch"} /\ exit' = exit
  <2>1. CASE ~host.supported
    BY <2>1, EndFacts DEF Start, Fatal, Safe, Labels
  <2>2. CASE host.supported /\ Executable
    BY <2>2, GotoFacts DEF Start, Labels, Safe, TypeOK
  <2>3. CASE host.supported /\ ~Executable /\ r \in Hooks
    BY <2>3, EndFacts DEF Start, Safe, Labels
  <2>4. CASE host.supported /\ ~Executable /\ r \notin Hooks
    <3>1. PICK l \in {"build", "fetch"} : Goto(r, l)
      BY <2>4 DEF Start
    <3>2. QED
      BY <2>4, <3>1, GotoFacts DEF Safe, TypeOK, Labels
  <2>5. QED
    BY <2>1, <2>2, <2>3, <2>4
<1>3. TypeOK'
  <2>1. \A q \in Runs : writing'[q] # None <=> pc'[q] = "write"
    BY <1>1, <1>2 DEF Safe, TypeOK
  <2>2. QED
    BY <1>1, <1>2, <2>1 DEF Safe, TypeOK, Files
<1>4. OneInstalls'
  <2>1. \A q \in Runs : q # r => Installing(q)' = Installing(q)
    BY <1>2 DEF Installing
  <2>2. QED
    BY <1>1, <2>1 DEF Safe, OneInstalls
<1>5. image'[r] \in {"none", "good"} /\ (r \in Hooks => EndsForTheHost(r)')
  BY <1>1, <1>2 DEF Safe, OnlyVerifiedRuns, HooksEnd, EndsForTheHost, MayEnd
<1>6. UNCHANGED host
  BY <1>1
<1>7. QED
  BY <1>1, <1>2, <1>3, <1>4, <1>5, <1>6, FilesKept DEF Installing

(* A run that ends without touching the files.                             *)
LEMMA EndInv ==
    ASSUME Safe, NEW r \in Runs, UnderWay(r),
           NEW code \in {"none", "active", "allow", "block", "error", "killed"}, End(r, code),
           UNCHANGED <<host, files, mixed, raced>>,
           writing' = [writing EXCEPT ![r] = None],
           r \in Hooks => MayEnd(code),
           \A q \in Runs : q # r => image'[q] = image[q],
           image'[r] \in {"none", "good"},
           image' \in [Runs -> Bytes \cup {"none"}]
    PROVE  Safe'
<1>1. /\ UNCHANGED files /\ UNCHANGED <<binary, data, x>>
      /\ UNCHANGED <<host, mixed, raced>>
  BY DEF files
<1>2. /\ pc' \in [Runs -> Labels] /\ pc'[r] = "ended"
      /\ exit' \in [Runs -> {"none", "active", "allow", "block", "error", "killed"}]
      /\ exit'[r] = code
      /\ \A q \in Runs : q # r => pc'[q] = pc[q] /\ exit'[q] = exit[q]
  BY EndFacts DEF Safe
<1>3. TypeOK'
  <2>1. /\ writing' \in [Runs -> Files \cup {None}]
        /\ \A q \in Runs : writing'[q] # None <=> pc'[q] = "write"
    BY <1>2 DEF Safe, TypeOK
  <2>2. QED
    BY <1>1, <1>2, <2>1 DEF Safe, TypeOK, Files
<1>4. OneInstalls'
  BY <1>2 DEF Safe, OneInstalls, Installing
<1>5. r \in Hooks => EndsForTheHost(r)'
  BY <1>1, <1>2 DEF EndsForTheHost, MayEnd
<1>6. UNCHANGED host
  BY <1>1
<1>7. QED
  BY <1>1, <1>2, <1>3, <1>4, <1>5, <1>6, FilesKept DEF Installing

(* The types after a step of an installing run, and who else moved.        *)
LEMMA InstallTypes ==
    ASSUME Safe, NEW r \in Runs, Installing(r),
           binary' \in Files \cup {None}, data' \in [Files -> Bytes], x' \in [Files -> BOOLEAN],
           UNCHANGED <<host, image, raced>>, mixed' \subseteq Runs,
           \/ \E l \in Labels : Goto(r, l)
           \/ End(r, "error"),
           writing' \in [Runs -> Files \cup {None}],
           \A q \in Runs : q # r => writing'[q] = writing[q],
           writing'[r] # None <=> pc'[r] = "write"
    PROVE  /\ TypeOK'
           /\ \A q \in Runs : q # r => pc'[q] = pc[q] /\ exit'[q] = exit[q]
           /\ UNCHANGED <<host, image>>
<1>1. /\ pc' \in [Runs -> Labels]
      /\ exit' \in [Runs -> {"none", "active", "allow", "block", "error", "killed"}]
      /\ \A q \in Runs : q # r => pc'[q] = pc[q] /\ exit'[q] = exit[q]
  <2>1. CASE \E l \in Labels : Goto(r, l)
    BY <2>1, GotoFacts DEF Safe, TypeOK
  <2>2. CASE End(r, "error")
    BY <2>2, EndFacts DEF Safe
  <2>3. QED
    BY <2>1, <2>2
<1>2. \A q \in Runs : writing'[q] # None <=> pc'[q] = "write"
  BY <1>1 DEF Safe, TypeOK
<1>3. QED
  BY <1>1, <1>2 DEF Safe, TypeOK, Files

(* A fatal error of an installing run is a plain one: it is not a hook.    *)
LEMMA FatalEnds ==
    ASSUME Safe, NEW r \in Runs, Installing(r), Fatal(r)
    PROVE  End(r, "error") /\ pc'[r] = "ended"
<1>1. End(r, "error")
  BY InstallsAlone DEF Fatal
<1>2. QED
  BY <1>1, EndFacts DEF Safe

(* A build puts a complete executable in place, or ends the run.           *)
LEMMA BuildInv ==
    ASSUME Safe, NEW r \in Runs, Build(r)
    PROVE  Safe'
<1>1. /\ pc[r] = "build" /\ Installing(r) /\ UNCHANGED <<host, writing, mixed, image, raced>>
      /\ writing[r] = None
  BY DEF Build, Installing, Safe, TypeOK
<1>2. CASE /\ binary' = r /\ data' = [data EXCEPT ![r] = "good"]
           /\ x' = [x EXCEPT ![r] = TRUE] /\ Goto(r, "check")
  <2>1. r \in Files /\ r # None
    BY FilesAssumption DEF Files
  <2>2. /\ binary' \in Files \cup {None} /\ data' \in [Files -> Bytes]
        /\ x' \in [Files -> BOOLEAN]
        /\ binary' = r /\ data'[r] = "good" /\ x'[r] = TRUE
    BY <1>2, <2>1 DEF Safe, TypeOK, Bytes
  <2>3. pc'[r] = "check" /\ Goto(r, "check") /\ "check" \in Labels
    BY <1>2, GotoFacts DEF Labels, Safe
  <2>4. Executable' /\ data'[binary'] = "good"
    BY <2>1, <2>2 DEF Executable
  <2>5. /\ TypeOK' /\ UNCHANGED <<host, image>>
        /\ \A q \in Runs : q # r => pc'[q] = pc[q] /\ exit'[q] = exit[q]
    BY <1>1, <2>2, <2>3, InstallTypes DEF Safe, TypeOK
  <2>6. QED
    BY <1>1, <2>3, <2>4, <2>5, InstallStep DEF Installing
<1>3. CASE Fatal(r) /\ UNCHANGED files
  <2>1. End(r, "error") /\ UNCHANGED <<binary, data, x>> /\ r \notin Hooks /\ UnderWay(r)
    BY <1>1, <1>3, FatalEnds, InstallsAlone DEF files, UnderWay
  <2>2. writing' = [writing EXCEPT ![r] = None]
    BY <1>1 DEF Safe, TypeOK
  <2>3. image'[r] \in {"none", "good"} /\ image' \in [Runs -> Bytes \cup {"none"}]
    BY <1>1 DEF Safe, OnlyVerifiedRuns, TypeOK
  <2>4. QED
    BY <1>1, <1>3, <2>1, <2>2, <2>3, EndInv
<1>4. QED
  BY <1>2, <1>3 DEF Build

(* What removes the file and fails.                                        *)
LEMMA RemoveInv ==
    ASSUME Safe, NEW r \in Runs, Installing(r), Remove, Fatal(r),
           UNCHANGED <<host, mixed, image, raced>>,
           writing' = [writing EXCEPT ![r] = None]
    PROVE  Safe'
<1>1. End(r, "error") /\ pc'[r] = "ended"
  BY FatalEnds
<1>2. binary' = None /\ ~Executable' /\ UNCHANGED <<data, x>>
  BY DEF Remove, Executable
<1>3. /\ writing' \in [Runs -> Files \cup {None}] /\ writing'[r] = None
      /\ \A q \in Runs : q # r => writing'[q] = writing[q]
      /\ data' \in [Files -> Bytes] /\ x' \in [Files -> BOOLEAN] /\ mixed' \subseteq Runs
  BY <1>2 DEF Safe, TypeOK
<1>4. /\ TypeOK' /\ UNCHANGED <<host, image>>
      /\ \A q \in Runs : q # r => pc'[q] = pc[q] /\ exit'[q] = exit[q]
  BY <1>1, <1>2, <1>3, InstallTypes
<1>5. QED
  BY <1>1, <1>2, <1>4, InstallStep DEF Installing

(* The transfer: the file it writes is not executable, and no one else's.  *)
LEMMA DownloadInv ==
    ASSUME Safe, NEW r \in Runs,
           NoPluginVersion(r) \/ OpenDownload(r) \/ FinishDownload(r) \/ CurlFails(r)
    PROVE  Safe'
<1>1. CASE NoPluginVersion(r)
  <2>1. /\ pc[r] = "fetch" /\ Installing(r) /\ UnderWay(r) /\ writing[r] = None
        /\ UNCHANGED <<host, files, writing, mixed, image, raced>>
    BY <1>1 DEF NoPluginVersion, Installing, UnderWay, Safe, TypeOK
  <2>2. End(r, "error") /\ r \notin Hooks
    BY <1>1, <2>1, FatalEnds, InstallsAlone DEF NoPluginVersion
  <2>3. writing' = [writing EXCEPT ![r] = None]
    BY <2>1 DEF Safe, TypeOK
  <2>4. image'[r] \in {"none", "good"} /\ image' \in [Runs -> Bytes \cup {"none"}]
    BY <2>1 DEF Safe, OnlyVerifiedRuns, TypeOK
  <2>5. QED
    BY <2>1, <2>2, <2>3, <2>4, EndInv
<1>2. CASE OpenDownload(r)
  <2>1. PICK f, m : /\ f = (IF binary = None THEN r ELSE binary)
                    /\ m = (IF {q \in Runs : writing[q] = f} = {} THEN mixed
                            ELSE mixed \cup {q \in Runs : writing[q] = f} \cup {r})
    OBVIOUS
  <2>2. /\ pc[r] = "fetch" /\ Installing(r) /\ binary' = f /\ Goto(r, "write")
        /\ data' = [data EXCEPT ![f] = "partial"]
        /\ x' = [x EXCEPT ![f] = binary # None /\ x[f]]
        /\ writing' = [writing EXCEPT ![r] = f] /\ mixed' = m
        /\ UNCHANGED <<host, image, raced>>
    BY <1>2, <2>1 DEF OpenDownload, Installing
  <2>3. f \in Files /\ f # None /\ m \subseteq Runs
    BY <2>1, FilesAssumption DEF Files, Safe, TypeOK
  <2>4. ~Executable' /\ binary' \in Files
    <3>1. ~(binary # None /\ x[f])
      BY <2>1, <2>2, InstallsAlone DEF Executable
    <3>2. x'[f] = FALSE
      BY <2>2, <2>3, <3>1 DEF Safe, TypeOK
    <3>3. QED
      BY <2>2, <2>3, <3>2 DEF Executable
  <2>5. pc'[r] = "write" /\ "write" \in Labels
    BY <2>2, GotoFacts DEF Labels, Safe
  <2>6. /\ writing' \in [Runs -> Files \cup {None}] /\ writing'[r] # None
        /\ \A q \in Runs : q # r => writing'[q] = writing[q]
        /\ data' \in [Files -> Bytes] /\ x' \in [Files -> BOOLEAN] /\ mixed' \subseteq Runs
    BY <2>2, <2>3 DEF Safe, TypeOK, Bytes
  <2>7. /\ TypeOK' /\ UNCHANGED <<host, image>>
        /\ \A q \in Runs : q # r => pc'[q] = pc[q] /\ exit'[q] = exit[q]
    BY <2>2, <2>4, <2>5, <2>6, InstallTypes
  <2>8. QED
    BY <2>2, <2>4, <2>5, <2>7, InstallStep
<1>3. CASE FinishDownload(r)
  <2>1. PICK d \in Bytes : data' = [data EXCEPT ![writing[r]] = d]
    BY <1>3 DEF FinishDownload, Bytes
  <2>2. /\ pc[r] = "write" /\ Installing(r) /\ Goto(r, "sums")
        /\ writing' = [writing EXCEPT ![r] = None]
        /\ UNCHANGED <<host, binary, x, mixed, image, raced>>
    BY <1>3 DEF FinishDownload, Installing
  <2>3. ~Executable'
    BY <2>2, InstallsAlone DEF Executable
  <2>4. pc'[r] = "sums" /\ "sums" \in Labels
    BY <2>2, GotoFacts DEF Labels, Safe
  <2>5. /\ writing' \in [Runs -> Files \cup {None}] /\ writing'[r] = None
        /\ \A q \in Runs : q # r => writing'[q] = writing[q]
        /\ data' \in [Files -> Bytes] /\ x' \in [Files -> BOOLEAN] /\ mixed' \subseteq Runs
        /\ binary' \in Files \cup {None}
    BY <2>1, <2>2 DEF Safe, TypeOK
  <2>6. /\ TypeOK' /\ UNCHANGED <<host, image>>
        /\ \A q \in Runs : q # r => pc'[q] = pc[q] /\ exit'[q] = exit[q]
    BY <2>2, <2>4, <2>5, InstallTypes
  <2>7. QED
    BY <2>2, <2>3, <2>4, <2>6, InstallStep
<1>4. CASE CurlFails(r)
  BY <1>4, RemoveInv DEF CurlFails, Installing
<1>5. QED
  BY <1>1, <1>2, <1>3, <1>4

(* The checksum, and the executable bit once it matches.                   *)
LEMMA VerifyInv ==
    ASSUME Safe, NEW r \in Runs, FetchChecksums(r) \/ Verify(r) \/ MakeExecutable(r)
    PROVE  Safe'
<1>1. /\ pc[r] \in {"sums", "hash", "chmod"} /\ Installing(r) /\ UnderWay(r)
      /\ UNCHANGED <<host, writing, mixed, image, raced>>
      /\ writing' \in [Runs -> Files \cup {None}] /\ writing[r] = None /\ writing'[r] = None
      /\ writing' = [writing EXCEPT ![r] = None]
      /\ \A q \in Runs : q # r => writing'[q] = writing[q]
      /\ ~Executable /\ r \notin Hooks
  <2>1. /\ pc[r] \in {"sums", "hash", "chmod"} /\ Installing(r) /\ UnderWay(r)
        /\ UNCHANGED <<host, writing, mixed, image, raced>>
    BY DEF FetchChecksums, Verify, MakeExecutable, Installing, UnderWay
  <2>2. QED
    BY <2>1, InstallsAlone DEF Safe, TypeOK
<1>2. ASSUME NEW l \in {"hash", "chmod"}, Goto(r, l), UNCHANGED files,
             l = "chmod" => binary # None /\ data[binary] = "good"
      PROVE  Safe'
  <2>1. UNCHANGED <<binary, data, x>> /\ ~Executable'
    BY <1>1, <1>2 DEF files, Executable
  <2>2. pc'[r] = l /\ l \in Labels
    BY <1>2, GotoFacts DEF Labels, Safe
  <2>3. /\ binary' \in Files \cup {None} /\ data' \in [Files -> Bytes]
        /\ x' \in [Files -> BOOLEAN] /\ mixed' \subseteq Runs
    BY <1>1, <2>1 DEF Safe, TypeOK
  <2>4. /\ TypeOK' /\ UNCHANGED <<host, image>>
        /\ \A q \in Runs : q # r => pc'[q] = pc[q] /\ exit'[q] = exit[q]
    BY <1>1, <1>2, <2>2, <2>3, InstallTypes
  <2>5. QED
    BY <1>1, <1>2, <2>1, <2>2, <2>4, InstallStep
<1>3. ASSUME End(r, "error"), UNCHANGED files
      PROVE  Safe'
  <2>1. image'[r] \in {"none", "good"} /\ image' \in [Runs -> Bytes \cup {"none"}]
    BY <1>1 DEF Safe, OnlyVerifiedRuns, TypeOK
  <2>2. QED
    BY <1>1, <1>3, <2>1, EndInv
<1>4. ASSUME Remove, Fatal(r)
      PROVE  Safe'
  BY <1>1, <1>4, RemoveInv
<1>5. CASE FetchChecksums(r)
  BY <1>2, <1>3, <1>4, <1>5 DEF FetchChecksums
<1>6. CASE Verify(r)
  BY <1>2, <1>3, <1>4, <1>6 DEF Verify
<1>7. CASE MakeExecutable(r)
  <2>1. CASE binary = None
    BY <1>3, <1>7, <2>1 DEF MakeExecutable, files
  <2>2. CASE binary # None
    <3>1. /\ Goto(r, "check") /\ x' = [x EXCEPT ![binary] = TRUE] /\ UNCHANGED <<binary, data>>
          /\ pc[r] = "chmod" /\ data[binary] = "good"
      BY <1>7, <2>2 DEF MakeExecutable, Safe, Committed
    <3>2. pc'[r] = "check" /\ "check" \in Labels
      BY <3>1, GotoFacts DEF Labels, Safe
    <3>3. /\ binary' \in Files \cup {None} /\ data' \in [Files -> Bytes]
          /\ x' \in [Files -> BOOLEAN] /\ mixed' \subseteq Runs
          /\ Executable' /\ data'[binary'] = "good"
      BY <1>1, <2>2, <3>1 DEF Safe, TypeOK, Executable
    <3>4. /\ TypeOK' /\ UNCHANGED <<host, image>>
          /\ \A q \in Runs : q # r => pc'[q] = pc[q] /\ exit'[q] = exit[q]
      BY <1>1, <3>1, <3>2, <3>3, InstallTypes
    <3>5. QED
      BY <1>1, <3>2, <3>3, <3>4, InstallStep DEF Installing
  <2>3. QED
    BY <2>1, <2>2
<1>8. QED
  BY <1>5, <1>6, <1>7

(* Past the test the binary is there, verified and not being written.      *)
LEMMA RunInv ==
    ASSUME Safe, NEW r \in Runs, CheckExecutable(r) \/ ResolveToken(r) \/ Exec(r)
    PROVE  Safe'
<1>1. /\ pc[r] \in {"check", "token", "exec"} /\ Executable /\ UnderWay(r) /\ data[binary] = "good"
      /\ UNCHANGED <<host, files, writing, mixed, raced>> /\ UNCHANGED files
      /\ writing[r] = None /\ writing' = [writing EXCEPT ![r] = None]
  <2>1. pc[r] \in {"check", "token", "exec"} /\ UNCHANGED <<host, files, writing, mixed, raced>>
    BY DEF CheckExecutable, ResolveToken, Exec
  <2>2. QED
    BY <2>1 DEF UnderWay, Safe, Committed, TypeOK
<1>2. ASSUME NEW l \in {"token", "exec"}, Goto(r, l), UNCHANGED image
      PROVE  Safe'
  <2>1. /\ pc'[r] = l /\ l \in Labels /\ pc' \in [Runs -> Labels] /\ exit' = exit
        /\ \A q \in Runs : q # r => pc'[q] = pc[q]
    BY <1>2, GotoFacts DEF Labels, Safe
  <2>2. TypeOK'
    <3>1. \A q \in Runs : writing'[q] # None <=> pc'[q] = "write"
      BY <1>1, <2>1 DEF Safe, TypeOK
    <3>2. QED
      BY <1>1, <1>2, <2>1, <3>1 DEF Safe, TypeOK, files, Files
  <2>3. OneInstalls'
    BY <1>1, <2>1 DEF Safe, OneInstalls, Installing
  <2>4. image'[r] \in {"none", "good"} /\ (r \in Hooks => EndsForTheHost(r)')
    BY <1>1, <1>2, <2>1 DEF Safe, OnlyVerifiedRuns, HooksEnd, EndsForTheHost, MayEnd
  <2>5. UNCHANGED host
    BY <1>1
  <2>6. QED
    BY <1>1, <1>2, <2>1, <2>2, <2>3, <2>4, <2>5, FilesKept DEF Installing
<1>3. CASE CheckExecutable(r)
  BY <1>1, <1>2, <1>3 DEF CheckExecutable
<1>4. CASE ResolveToken(r)
  <2>1. UNCHANGED <<host, files, mixed, raced>> /\ UNCHANGED image
    BY <1>4 DEF ResolveToken
  <2>2. CASE host.token
    BY <1>2, <1>4, <2>1, <2>2 DEF ResolveToken
  <2>3. CASE ~host.token
    <3>1. End(r, "error")
      BY <1>4, <2>3 DEF ResolveToken
    <3>2. image'[r] \in {"none", "good"} /\ image' \in [Runs -> Bytes \cup {"none"}]
      BY <2>1 DEF Safe, OnlyVerifiedRuns, TypeOK
    <3>3. QED
      BY <1>1, <2>1, <2>3, <3>1, <3>2, EndInv DEF MayEnd
  <2>4. QED
    BY <2>2, <2>3
<1>5. CASE Exec(r)
  <2>1. \A q \in Runs : writing[q] # binary
    <3>1. \A q \in Runs : pc[q] # "write"
      BY <1>1 DEF Safe, Committed, Installing
    <3>2. \A q \in Runs : writing[q] = None
      BY <3>1 DEF Safe, TypeOK
    <3>3. QED
      BY <1>1, <3>2 DEF Executable
  <2>2. image' = [image EXCEPT ![r] = "good"] /\ End(r, "active")
    BY <1>1, <1>5, <2>1 DEF Exec
  <2>3. /\ image' \in [Runs -> Bytes \cup {"none"}] /\ image'[r] \in {"none", "good"}
        /\ \A q \in Runs : q # r => image'[q] = image[q]
    BY <2>2 DEF Safe, TypeOK, Bytes
  <2>4. QED
    BY <1>1, <2>2, <2>3, EndInv DEF MayEnd
<1>6. QED
  BY <1>3, <1>4, <1>5

(* A run may be stopped anywhere.                                          *)
LEMMA KillInv ==
    ASSUME Safe, NEW r \in Runs, Kill(r)
    PROVE  Safe'
<1>1. image'[r] \in {"none", "good"} /\ image' \in [Runs -> Bytes \cup {"none"}]
  BY DEF Kill, Safe, OnlyVerifiedRuns, TypeOK
<1>2. QED
  BY <1>1, EndInv DEF Kill, MayEnd

(* One step per action, as long as the runs have not raced.                *)
LEMMA StepSafe ==
    ASSUME Safe, [Next]_vars, ~raced'
    PROVE  Safe'
<1>1. CASE UNCHANGED vars
  BY <1>1 DEF vars, files, Safe, TypeOK, OneInstalls, Committed, Installing,
              Executable, OnlyVerifiedRuns, HooksEnd, EndsForTheHost, MayEnd
<1>2. ASSUME NEW r \in Runs, Start(r) \/ Work(r) \/ Kill(r)
      PROVE  Safe'
  BY <1>2, StartInv, BuildInv, DownloadInv, VerifyInv, RunInv, KillInv DEF Work
<1>3. QED
  BY <1>1, <1>2 DEF Next

(* Runs that have raced have: nothing takes that back.                     *)
LEMMA RacedStays == [Next]_vars /\ raced => raced'
BY DEF Next, vars, Start, NoteRace, Work, Build, NoPluginVersion, OpenDownload, FinishDownload,
   CurlFails, FetchChecksums, Verify, MakeExecutable, CheckExecutable, ResolveToken, Exec, Kill

(* For any number of runs and hooks the inductive invariant holds.         *)
THEOREM Invariance == Spec => []IInv
<1>1. Init => IInv
  BY InitSafe DEF IInv
<1>2. IInv /\ [Next]_vars => IInv'
  BY StepSafe, RacedStays DEF IInv
<1>3. QED
  BY <1>1, <1>2, PTL DEF Spec

-----------------------------------------------------------------------------
(* Without any order among the runs: where there is Go source nobody       *)
(* downloads, and what is at the path, once executable, stays executable   *)
(* and good whoever replaces it.                                           *)
BuildLabels == {"idle", "build", "check", "token", "exec", "ended"}
PastTheTest == \A r \in Runs : pc[r] \in {"check", "token", "exec"} => Executable

Replacing ==
    /\ pc \in [Runs -> BuildLabels]
    /\ exit \in [Runs -> {"none", "active", "allow", "block", "error", "killed"}]
    /\ image \in [Runs -> {"none", "good"}]
    /\ data \in [Files -> Bytes] /\ x \in [Files -> BOOLEAN]
    /\ \A r \in Runs : writing[r] = None
    /\ Executable => data[binary] = "good"
    /\ PastTheTest
    /\ \A r \in Hooks : pc[r] # "build"
    /\ HooksEnd

UnorderedInv == host.goSource => Replacing

(* The steps that are left where the binary is built.                      *)
LEMMA StepsOfBuilding ==
    ASSUME Replacing, NEW r \in Runs, Start(r) \/ Work(r) \/ Kill(r)
    PROVE  Start(r) \/ Build(r) \/ CheckExecutable(r) \/ ResolveToken(r) \/ Exec(r) \/ Kill(r)
<1>1. pc[r] \in BuildLabels
  BY DEF Replacing
<1>2. QED
  BY <1>1 DEF BuildLabels, Work, NoPluginVersion, OpenDownload, FinishDownload, CurlFails, FetchChecksums,
     Verify, MakeExecutable

(* A step that leaves the files alone.                                     *)
LEMMA ReplacingKept ==
    ASSUME Replacing, NEW r \in Runs, UNCHANGED <<host, files>>,
           NEW l \in BuildLabels, pc' = [pc EXCEPT ![r] = l],
           NEW e \in {"none", "active", "allow", "block", "error", "killed"},
           exit' = [exit EXCEPT ![r] = e],
           NEW i \in {"none", "good"}, image' = [image EXCEPT ![r] = i],
           \A q \in Runs : writing'[q] = None,
           l \in {"check", "token", "exec"} => Executable,
           r \in Hooks => l # "build" /\ MayEnd(e)
    PROVE  Replacing'
<1>1. Executable' = Executable /\ UNCHANGED <<binary, data, x>>
  BY DEF files, Executable
<1>2. \A q \in Runs : /\ pc'[q] = IF q = r THEN l ELSE pc[q]
                      /\ exit'[q] = IF q = r THEN e ELSE exit[q]
  BY DEF Replacing
<1>3. /\ pc' \in [Runs -> BuildLabels]
      /\ exit' \in [Runs -> {"none", "active", "allow", "block", "error", "killed"}]
      /\ image' \in [Runs -> {"none", "good"}]
  BY DEF Replacing
<1>4. PastTheTest'
  BY <1>1, <1>2 DEF Replacing, PastTheTest
<1>5. HooksEnd' /\ \A q \in Hooks : pc'[q] # "build"
  BY <1>2, HooksAssumption DEF Replacing, HooksEnd, EndsForTheHost, MayEnd
<1>6. QED
  BY <1>1, <1>3, <1>4, <1>5 DEF Replacing

LEMMA ReplacingGoto ==
    ASSUME Replacing, NEW r \in Runs, UNCHANGED <<host, files>>, UNCHANGED <<writing, image>>,
           NEW l \in BuildLabels, Goto(r, l),
           l \in {"check", "token", "exec"} => Executable,
           r \in Hooks => l # "build"
    PROVE  Replacing'
<1>1. /\ pc' = [pc EXCEPT ![r] = l]
      /\ exit' = [exit EXCEPT ![r] = exit[r]] /\ image' = [image EXCEPT ![r] = image[r]]
      /\ \A q \in Runs : writing'[q] = None
      /\ exit[r] \in {"none", "active", "allow", "block", "error", "killed"}
      /\ image[r] \in {"none", "good"}
  BY DEF Goto, Replacing
<1>2. r \in Hooks => l # "build" /\ MayEnd(exit[r])
  BY DEF Replacing, HooksEnd, EndsForTheHost
<1>3. QED
  BY <1>1, <1>2, ReplacingKept

(* Whether or not others install at the same time, a run that finds source *)
(* code only ever replaces the binary by a complete one.                   *)
LEMMA ReplacingStep ==
    ASSUME Replacing, host.goSource, NEW r \in Runs, Start(r) \/ Work(r) \/ Kill(r)
    PROVE  Replacing'
<1>1. /\ pc[r] \in BuildLabels /\ {"check", "build", "token", "exec", "ended"} \subseteq BuildLabels
      /\ exit[r] \in {"none", "active", "allow", "block", "error", "killed"}
      /\ image[r] \in {"none", "good"} /\ \A q \in Runs : writing[q] = None
      /\ exit = [exit EXCEPT ![r] = exit[r]] /\ image = [image EXCEPT ![r] = image[r]]
      /\ r \in Hooks => MayEnd(exit[r]) /\ pc[r] # "build"
      /\ MayEnd("allow") /\ MayEnd("active") /\ MayEnd("killed")
  BY DEF Replacing, HooksEnd, BuildLabels, EndsForTheHost, MayEnd
<1>2. CASE Start(r)
  <2>1. /\ UNCHANGED <<host, files>> /\ UNCHANGED <<writing, image>>
        /\ \/ ~host.supported /\ Fatal(r)
           \/ Executable /\ Goto(r, "check")
           \/ ~Executable /\ r \in Hooks /\ End(r, "allow")
           \/ ~Executable /\ r \notin Hooks /\ Goto(r, "build")
    BY <1>2 DEF Start
  <2>2. CASE ~host.supported /\ Fatal(r)
    BY <1>1, <2>1, <2>2, ReplacingKept DEF Fatal, End, MayEnd
  <2>3. CASE Executable /\ Goto(r, "check")
    BY <1>1, <2>1, <2>3, ReplacingGoto
  <2>4. CASE r \in Hooks /\ End(r, "allow")
    BY <1>1, <2>1, <2>4, ReplacingKept DEF End
  <2>5. CASE r \notin Hooks /\ Goto(r, "build")
    BY <1>1, <2>1, <2>5, ReplacingGoto
  <2>6. QED
    BY <2>1, <2>2, <2>3, <2>4, <2>5
<1>3. CASE Build(r)
  <2>1. pc[r] = "build" /\ r \notin Hooks /\ UNCHANGED <<host, writing, image>>
    BY <1>1, <1>3 DEF Build
  <2>2. CASE Fatal(r) /\ UNCHANGED files
    BY <1>1, <2>1, <2>2, ReplacingKept DEF Fatal, End
  <2>3. CASE /\ binary' = r /\ data' = [data EXCEPT ![r] = "good"]
             /\ x' = [x EXCEPT ![r] = TRUE] /\ Goto(r, "check")
    <3>1. r \in Files /\ r # None
      BY FilesAssumption DEF Files
    <3>2. /\ data' \in [Files -> Bytes] /\ x' \in [Files -> BOOLEAN]
          /\ binary' = r /\ data'[r] = "good" /\ x'[r] = TRUE
      BY <2>3, <3>1 DEF Replacing, Bytes
    <3>3. Executable' /\ data'[binary'] = "good"
      BY <3>1, <3>2 DEF Executable
    <3>4. /\ pc' \in [Runs -> BuildLabels]
          /\ \A q \in Runs : pc'[q] = IF q = r THEN "check" ELSE pc[q]
          /\ exit' = exit
      BY <1>1, <2>3 DEF Goto, Replacing
    <3>5. HooksEnd' /\ \A q \in Hooks : pc'[q] # "build"
      BY <2>1, <3>4, HooksAssumption DEF Replacing, HooksEnd, EndsForTheHost, MayEnd
    <3>6. QED
      BY <2>1, <3>2, <3>3, <3>4, <3>5 DEF Replacing, PastTheTest
  <2>4. QED
    BY <1>3, <2>2, <2>3 DEF Build
<1>4. CASE CheckExecutable(r)
  <2>1. /\ UNCHANGED <<host, files>> /\ UNCHANGED <<writing, image>> /\ Executable
        /\ Goto(r, "token")
    BY <1>4 DEF CheckExecutable, Replacing, PastTheTest
  <2>2. QED
    BY <1>1, <2>1, ReplacingGoto
<1>5. CASE ResolveToken(r)
  <2>1. /\ UNCHANGED <<host, files>> /\ UNCHANGED <<writing, image>> /\ Executable
        /\ IF host.token THEN Goto(r, "exec") ELSE End(r, "error")
    BY <1>5 DEF ResolveToken, Replacing, PastTheTest
  <2>2. CASE host.token
    BY <1>1, <2>1, <2>2, ReplacingGoto
  <2>3. CASE ~host.token
    BY <1>1, <2>1, <2>3, ReplacingKept DEF End, MayEnd
  <2>4. QED
    BY <2>2, <2>3
<1>6. CASE Exec(r)
  <2>1. Executable /\ binary # None /\ data[binary] = "good" /\ UNCHANGED <<host, files>>
        /\ UNCHANGED writing
    BY <1>6 DEF Exec, Replacing, PastTheTest, Executable
  <2>2. /\ image' = [image EXCEPT ![r] = "good"] /\ End(r, "active")
    BY <1>6, <2>1 DEF Exec, Replacing
  <2>3. QED
    BY <1>1, <2>1, <2>2, ReplacingKept DEF End
<1>7. CASE Kill(r)
  <2>1. /\ UNCHANGED <<host, files>> /\ UNCHANGED image /\ End(r, "killed")
        /\ \A q \in Runs : writing'[q] = None
    BY <1>7 DEF Kill, Replacing
  <2>2. QED
    BY <1>1, <2>1, ReplacingKept DEF End
<1>8. QED
  BY <1>2, <1>3, <1>4, <1>5, <1>6, <1>7, StepsOfBuilding

(* Any number of runs that find source code get along without an order.    *)
THEOREM BuildsGetAlong == Spec => []UnorderedInv
<1>1. Init => UnorderedInv
  <2> SUFFICES ASSUME Init
               PROVE  Replacing
    BY DEF UnorderedInv
  <2>1. data \in [Files -> Bytes] /\ x \in [Files -> BOOLEAN]
    BY DEF Init, Bytes
  <2>2. Executable => data[binary] = "good"
    BY FilesAssumption DEF Init, Executable, Files
  <2>3. \A r \in Runs : pc[r] = "idle" /\ exit[r] = "none"
    <3>1. pc = [r \in Runs |-> "idle"] /\ exit = [r \in Runs |-> "none"]
      BY DEF Init
    <3>2. QED
      BY <3>1
  <2>4. QED
    BY <2>1, <2>2, <2>3, HooksAssumption
       DEF Init, Replacing, PastTheTest, HooksEnd, EndsForTheHost, MayEnd, BuildLabels
<1>2. UnorderedInv /\ [Next]_vars => UnorderedInv'
  <2> SUFFICES ASSUME UnorderedInv, [Next]_vars, host'.goSource
               PROVE  Replacing'
    BY DEF UnorderedInv
  <2>1. host' = host
    BY DEF Next, vars, Start, Kill, Work, Build, NoPluginVersion, OpenDownload,
       FinishDownload, CurlFails, FetchChecksums, Verify, MakeExecutable, CheckExecutable,
       ResolveToken, Exec
  <2>2. CASE UNCHANGED vars
    BY <2>1, <2>2 DEF vars, files, UnorderedInv, Replacing, Executable, PastTheTest,
       HooksEnd, EndsForTheHost, MayEnd
  <2>3. CASE Next
    BY <2>1, <2>3, ReplacingStep DEF Next, UnorderedInv
  <2>4. QED
    BY <2>2, <2>3
<1>3. QED
  BY <1>1, <1>2, PTL DEF Spec

-----------------------------------------------------------------------------
(* Until two downloads have overlapped, no run executes bytes that were    *)
(* neither built nor verified.                                             *)
THEOREM VerifiedRuns == Spec => []OrderlyRunsAreVerified
<1>1. IInv /\ UnorderedInv => OrderlyRunsAreVerified
  BY DEF IInv, Safe, UnorderedInv, Replacing, OrderlyRunsAreVerified, Orderly, OnlyVerifiedRuns
<1>2. QED
  BY <1>1, Invariance, BuildsGetAlong, PTL

(* Until two downloads have overlapped, the executable bit at the path is  *)
(* on a verified file, and nobody past the test finds it gone.             *)
THEOREM CommitPoint == Spec => []ExecutableIsVerified
<1>1. IInv /\ UnorderedInv => ExecutableIsVerified
  BY DEF IInv, Safe, Committed, UnorderedInv, Replacing, BuildLabels, PastTheTest,
         ExecutableIsVerified, Orderly
<1>2. QED
  BY <1>1, Invariance, BuildsGetAlong, PTL

(* Until two downloads have overlapped, a hook blocks or errs only for the *)
(* platform or for an unset HOME.                                          *)
THEOREM HooksReachGuard == Spec => []HookFailsForTheHost
<1>1. IInv /\ UnorderedInv => HookFailsForTheHost
  BY DEF IInv, Safe, UnorderedInv, Replacing, HookFailsForTheHost, Orderly, HooksEnd,
         EndsForTheHost, MayEnd
<1>2. QED
  BY <1>1, Invariance, BuildsGetAlong, PTL

(* Until two downloads have overlapped, what is installed stays installed. *)
THEOREM StaysInstalled == Spec => InstalledStays
<1>1. ASSUME IInv, UnorderedInv, UnorderedInv', [Next]_vars, Orderly', Executable
      PROVE  Executable' /\ data'[binary'] = "good"
  <2>1. host' = host
    BY <1>1 DEF Next, vars, Start, Kill, Work, Build, NoPluginVersion, OpenDownload,
       FinishDownload, CurlFails, FetchChecksums, Verify, MakeExecutable, CheckExecutable,
       ResolveToken, Exec
  <2>2. CASE host.goSource
    <3>1. Replacing /\ Replacing' /\ data[binary] = "good"
      BY <1>1, <2>1, <2>2 DEF UnorderedInv, Replacing
    <3>2. Executable'
      <4>1. CASE UNCHANGED vars
        BY <1>1, <4>1 DEF vars, files, Executable
      <4>2. ASSUME NEW r \in Runs, Start(r) \/ Work(r) \/ Kill(r)
            PROVE  Executable'
        <5>1. Start(r) \/ Build(r) \/ CheckExecutable(r) \/ ResolveToken(r) \/ Exec(r) \/ Kill(r)
          BY <3>1, <4>2, StepsOfBuilding
        <5>2. r \in Files /\ r # None
          BY FilesAssumption DEF Files
        <5>3. QED
          BY <1>1, <3>1, <5>1, <5>2 DEF Start, Build, CheckExecutable, ResolveToken, Exec, Kill,
             files, Executable, Replacing
      <4>3. QED
        BY <1>1, <4>1, <4>2 DEF Next
    <3>3. QED
      BY <3>1, <3>2 DEF Replacing
  <2>3. CASE ~raced'
    <3>1. Safe
      BY <1>1, <2>3, RacedStays DEF IInv
    <3>2. data[binary] = "good" /\ \A r \in Runs : ~Installing(r)
      BY <1>1, <3>1 DEF Safe, Committed
    <3>3. UNCHANGED <<binary, data, x>>
      <4>1. CASE UNCHANGED vars
        BY <4>1 DEF vars, files
      <4>2. ASSUME NEW r \in Runs, Start(r) \/ Work(r) \/ Kill(r)
            PROVE  UNCHANGED <<binary, data, x>>
        <5>1. pc[r] \notin {"build", "fetch", "write", "sums", "hash", "chmod"}
          BY <3>2 DEF Installing
        <5>2. QED
          BY <4>2, <5>1 DEF Start, Kill, Work, Build, NoPluginVersion, OpenDownload,
             FinishDownload, CurlFails, FetchChecksums, Verify, MakeExecutable,
             CheckExecutable, ResolveToken, Exec, files
      <4>3. QED
        BY <1>1, <4>1, <4>2 DEF Next
    <3>4. QED
      BY <1>1, <3>2, <3>3 DEF Executable
  <2>4. QED
    BY <1>1, <2>1, <2>2, <2>3 DEF Orderly
<1>2. IInv /\ UnorderedInv /\ UnorderedInv' /\ [Next]_vars
          => [Orderly' /\ Executable => Executable' /\ data'[binary'] = "good"]_vars
  BY <1>1
<1>3. QED
  BY <1>2, Invariance, BuildsGetAlong, PTL DEF Spec, InstalledStays
=============================================================================
