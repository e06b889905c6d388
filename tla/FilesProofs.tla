---------------------------- MODULE FilesProofs ----------------------------
(***************************************************************************)
(* Proofs about the FAT disk of kernel.c for every disk, every size of it, *)
(* and every drive, however late it is.                                    *)
(***************************************************************************)
EXTENDS Files, LeastNumber, TLAPS

-----------------------------------------------------------------------------
(* ata_read, ata_write and the drive.                                      *)

\* What the commands do to the disk: they call, or are done with a call.
Caller ==
  /\ UNCHANGED <<medium, drive, late>>
  /\ \/ UNCHANGED call
     \/ call' = NoCall
     \/ \E op \in {"read", "write"} : \E lba, data : ata(op, lba, data)

DiskStep == Issue \/ Transfer \/ DriveStep \/ DrivePowerOff \/ Caller

LEMMA CommandsOnlyCall ==
  ASSUME [Next]_vars PROVE DiskStep
<1> USE DEF DiskStep
<1>1. CASE Step
  <2> USE DEF Caller, Rest, Return, ata_read, ata_write
  <2>1. CASE Issue \/ Transfer
    BY <2>1
  <2>2. CASE Mounted
    BY <2>2, Zenon DEF Mounted
  <2>3. CASE Listed
    BY <2>3, Zenon DEF Listed
  <2>4. CASE ChangedDirectory
    BY <2>4, Zenon DEF ChangedDirectory
  <2>5. CASE FileFound
    BY <2>5, Zenon DEF FileFound
  <2>6. CASE Printed
    BY <2>6, Zenon DEF Printed
  <2>7. CASE EditFound
    BY <2>7, Zenon DEF EditFound
  <2>8. CASE Opened
    BY <2>8, Zenon DEF Opened
  <2>9. CASE Looked
    BY <2>9, Zenon DEF Looked
  <2>10. CASE Marked
    BY <2>10, Zenon DEF Marked
  <2>11. CASE Allocated
    BY <2>11, Zenon DEF Allocated
  <2>12. CASE Saved
    BY <2>12, Zenon DEF Saved
  <2> QED
    BY <1>1, <2>1, <2>2, <2>3, <2>4, <2>5, <2>6, <2>7, <2>8, <2>9, <2>10, <2>11, <2>12, Zenon DEF Step
<1>2. CASE \/ Mount \/ Save
           \/ \E cmd, name : ReadDirectory(cmd, name)
  BY <1>2, Zenon DEF Mount, Save, ReadDirectory, Caller, Rest, ata_read
<1>3. CASE UNCHANGED diskVars
  BY <1>3, Zenon DEF diskVars, Caller
<1>4. CASE Refused \/ cd_home \/ pwd \/ EditNothing \/ Type \/ Quit \/ UNCHANGED vars
  BY <1>4, <1>3, Zenon DEF Refused, cd_home, pwd, EditNothing, Type, Quit, vars
<1>5. CASE DriveStep \/ PowerOff
  BY <1>5, Zenon DEF PowerOff
<1> QED
  BY <1>1, <1>2, <1>4, <1>5, Zenon DEF Next

\* The records, and the sectors the drive is at.
DriveInv ==
  /\ drive = [state |-> drive.state, lba |-> drive.lba, data |-> drive.data]
  /\ drive.state \in {"idle", "reading", "to read", "starting", "to write", "writing"}
  /\ drive.state # "idle" => drive.lba \in Lbas
  /\ drive.state = "to read" => drive.data = medium[drive.lba]
  /\ \E S : medium \in [Lbas -> S]

CallRecord ==
  /\ call = [op |-> call.op, lba |-> call.lba, data |-> call.data,
             step |-> call.step, missed |-> call.missed]
  /\ call.missed \in BOOLEAN
  /\ call.step \in {"none", "ready", "data", "done"}
  /\ call.step # "none" => call.op \in {"read", "write"}
  /\ call.step = "ready" => ~call.missed

\* A call in time has the drive at its own sector; a command refused leaves it idle.
CallInv ==
  /\ call.step = "data" /\ ~call.missed /\ drive.state # "idle" =>
       /\ drive.lba = call.lba
       /\ drive.state \in (IF call.op = "read" THEN {"reading", "to read"}
                          ELSE {"starting", "to write"})
  /\ call.step = "done" /\ ~call.missed =>
       /\ call.lba \in Lbas
       /\ \/ drive.state = "idle" /\ medium[call.lba] = call.data
          \/ /\ call.op = "write" /\ drive.state = "writing"
             /\ drive.lba = call.lba /\ drive.data = call.data

DiskInv == DriveInv /\ CallRecord /\ CallInv

LEMMA DiskInvIssue ==
  ASSUME DiskInv, Issue PROVE DiskInv'
<1> USE DEF DiskInv, Issue
<1>1. CallRecord' /\ call'.op = call.op /\ call'.lba = call.lba
      /\ call'.step = "data" /\ (call'.missed <=> Busy)
  <2>1. Busy \in BOOLEAN
    BY DEF Busy
  <2>2. call' = [op |-> call.op, lba |-> call.lba, data |-> call.data,
                 step |-> "data", missed |-> Busy]
    BY DEF CallRecord
  <2> QED
    BY <2>1, <2>2 DEF CallRecord
<1>2. DriveInv'
  <2>1. drive' = drive \/ drive' = Command(call.op, call.lba)
    OBVIOUS
  <2>0. medium' = medium /\ \E S : medium' \in [Lbas -> S]
    BY DEF DriveInv
  <2> HIDE DEF Issue
  <2>2. CASE drive' = drive
    BY <2>2, <2>0 DEF DriveInv
  <2>3. CASE drive' = Command(call.op, call.lba) /\ call.lba \in Lbas
    <3> DEFINE s == IF call.op = "read" THEN "reading" ELSE "starting"
    <3>1. drive' = [state |-> s, lba |-> call.lba, data |-> NoData]
      BY <2>3 DEF Command
    <3>2. s \in {"reading", "starting"}
      OBVIOUS
    <3> HIDE DEF s
    <3>3. drive'.state \in {"reading", "starting"} /\ drive'.lba \in Lbas
      BY <2>3, <3>1, <3>2
    <3>4. drive' = [state |-> drive'.state, lba |-> drive'.lba, data |-> drive'.data]
      BY <3>1
    <3> QED
      BY <3>3, <3>4, <2>0 DEF DriveInv
  <2>4. CASE drive' = AtRest
    BY <2>4, <2>0 DEF DriveInv, AtRest
  <2> QED
    BY <2>1, <2>2, <2>3, <2>4 DEF Command
<1>3. CallInv'
  BY <1>1 DEF CallInv, CallRecord, Command, AtRest
<1> QED
  BY <1>1, <1>2, <1>3

LEMMA DiskInvTransfer ==
  ASSUME DiskInv, Transfer PROVE DiskInv'
<1> USE DEF DiskInv
<1>1. PICK got : /\ call' = [call EXCEPT !.step = "done", !.missed = call.missed \/ ~Asks,
                                        !.data = IF call.op = "read" THEN got ELSE @]
                 /\ drive.state = "to read" => got = drive.data
  BY DEF Transfer
<1>2. call.step = "data" /\ UNCHANGED medium
  BY DEF Transfer
<1>3. /\ call'.op = call.op /\ call'.lba = call.lba /\ call'.step = "done"
      /\ call'.missed = (call.missed \/ ~Asks)
      /\ call'.data = IF call.op = "read" THEN got ELSE call.data
      /\ CallRecord'
  BY <1>1, <1>2 DEF CallRecord
<1>4. drive' = IF call.op = "read" /\ drive.state = "to read" THEN AtRest
               ELSE IF call.op = "write" /\ drive.state = "to write"
                 THEN [drive EXCEPT !.state = "writing", !.data = call.data]
               ELSE drive
  BY DEF Transfer
<1>5. DriveInv'
  BY <1>2, <1>4 DEF DriveInv, AtRest
<1>6. CallInv'
  <2> SUFFICES ASSUME ~call.missed, Asks
               PROVE  /\ call.lba \in Lbas
                      /\ \/ drive'.state = "idle" /\ medium[call.lba] = call'.data
                         \/ /\ call.op = "write" /\ drive'.state = "writing"
                            /\ drive'.lba = call.lba /\ drive'.data = call'.data
    BY <1>2, <1>3 DEF CallInv
  <2>1. drive.lba = call.lba /\ call.lba \in Lbas
    BY <1>2 DEF CallInv, DriveInv, Asks
  <2>2. CASE call.op = "read"
    <3>1. drive.state = "to read" /\ got = medium[call.lba]
      BY <1>1, <1>2, <2>1, <2>2 DEF CallInv, DriveInv, Asks
    <3> QED
      BY <2>1, <2>2, <3>1, <1>3, <1>4 DEF AtRest
  <2>3. CASE call.op = "write"
    <3>1. drive.state = "to write"
      BY <1>2, <2>3 DEF CallInv, Asks
    <3> QED
      BY <2>1, <2>3, <3>1, <1>3, <1>4 DEF DriveInv
  <2> QED
    BY <1>2, <2>2, <2>3 DEF CallRecord
<1> QED
  BY <1>3, <1>5, <1>6

LEMMA DiskInvDrive ==
  ASSUME DiskInv, DriveStep PROVE DiskInv'
<1> USE DEF DiskInv
<1>1. CallRecord' /\ call' = call
  BY DEF DriveStep, CallRecord
<1>2. CASE drive.state = "reading"
  <2>1. drive' = [drive EXCEPT !.state = "to read", !.data = medium[drive.lba]] /\ medium' = medium
    BY <1>2 DEF DriveStep
  <2> QED
    BY <1>1, <1>2, <2>1 DEF DriveInv, CallInv
<1>3. CASE drive.state = "starting"
  <2>1. drive' = [drive EXCEPT !.state = "to write"] /\ medium' = medium
    BY <1>3 DEF DriveStep
  <2> QED
    BY <1>1, <1>3, <2>1 DEF DriveInv, CallInv
<1>4. CASE drive.state = "writing"
  <2>1. drive' = AtRest /\ medium' = [medium EXCEPT ![drive.lba] = drive.data]
    BY <1>4 DEF DriveStep
  <2>2. PICK S : medium \in [Lbas -> S]
    BY DEF DriveInv
  <2>3. medium' \in [Lbas -> S \cup {drive.data}] /\ medium'[drive.lba] = drive.data
    BY <1>4, <2>1, <2>2 DEF DriveInv
  <2>4. DriveInv'
    BY <2>1, <2>3 DEF DriveInv, AtRest
  <2> QED
    BY <1>1, <1>4, <2>1, <2>3, <2>4 DEF CallInv, AtRest
<1> QED
  BY <1>2, <1>3, <1>4 DEF DriveStep, Busy

LEMMA DiskInvStep ==
  ASSUME DiskInv, [Next]_vars PROVE DiskInv'
<1>1. CASE Issue
  BY <1>1, DiskInvIssue
<1>2. CASE Transfer
  BY <1>2, DiskInvTransfer
<1>3. CASE DriveStep
  BY <1>3, DiskInvDrive
<1>4. CASE DrivePowerOff
  <2>1. call' = NoCall /\ drive' = AtRest /\ medium' = medium
    BY <1>4 DEF DrivePowerOff
  <2>2. DriveInv'
    BY <2>1 DEF DiskInv, DriveInv, AtRest
  <2>3. CallRecord' /\ CallInv'
    BY <2>1 DEF CallRecord, CallInv, NoCall
  <2> QED
    BY <2>2, <2>3 DEF DiskInv
<1>5. CASE Caller
  <2>1. drive' = drive /\ medium' = medium
    BY <1>5 DEF Caller
  <2>2. DriveInv'
    BY <2>1 DEF DiskInv, DriveInv
  <2>3. ASSUME UNCHANGED call PROVE CallRecord' /\ CallInv'
    BY <2>1, <2>3 DEF DiskInv, CallRecord, CallInv
  <2>4. ASSUME call' = NoCall PROVE CallRecord' /\ CallInv'
    BY <2>4 DEF CallRecord, CallInv, NoCall
  <2>5. ASSUME NEW op \in {"read", "write"}, NEW lba, NEW data, ata(op, lba, data)
        PROVE  CallRecord' /\ CallInv'
    BY <2>5 DEF ata, CallRecord, CallInv
  <2>6. CallRecord' /\ CallInv'
    BY <1>5, <2>3, <2>4, <2>5, Zenon DEF Caller
  <2> QED
    BY <2>2, <2>6 DEF DiskInv
<1> QED
  BY <1>1, <1>2, <1>3, <1>4, <1>5, CommandsOnlyCall DEF DiskStep

LEMMA InitDisk == Init => DiskInv
<1> SUFFICES ASSUME NEW disk \in Disks, DiskInit(disk) PROVE DiskInv
  BY DEF Init
<1>1. medium = disk /\ drive = AtRest /\ call = NoCall
  BY DEF DiskInit
<1>2. DriveInv
  BY <1>1, FilesAssumption DEF DriveInv, AtRest
<1>3. CallRecord /\ CallInv
  BY <1>1 DEF CallRecord, CallInv, NoCall
<1> QED
  BY <1>2, <1>3 DEF DiskInv

\* Whatever the drive does in its own time and wherever the power goes, a call that did
\* not give up has read what is on the disk, or has its data on the way there.
THEOREM TimelyIsRightHolds == Spec => []TimelyIsRight
<1>1. DiskInv => TimelyIsRight
  BY DEF DiskInv, DriveInv, CallRecord, CallInv, TimelyIsRight
<1> QED
  BY <1>1, InitDisk, DiskInvStep, PTL DEF Spec

-----------------------------------------------------------------------------
(* Type correctness.                                                       *)

\* There are data wherever data are: on the disk, in the drive and in a call that has
\* come back; a call is open exactly while a job runs.
DataInv ==
  /\ \A l \in Lbas : medium[l] # NoData
  /\ drive.state \in {"to read", "writing"} => drive.data # NoData
  /\ call.step = "done" \/ call.op = "write" => call.data # NoData
  /\ call.step = "none" => call = NoCall

\* What a job relies on while its calls are made.
JobInv ==
  /\ job = [cmd |-> job.cmd, name |-> job.name, cluster |-> job.cluster, size |-> job.size]
  /\ job.cmd \in Commands /\ job.name \in Typed \cup {<<>>}
  /\ job.cmd = "none" => job = NoJob
  /\ job.cmd = "none" <=> call.step = "none"
  /\ job.cmd = "cd" => mounted /\ job.name \in Typed /\ Len(current_path) < MaxDepth
  /\ job.cmd \in {"get", "set", "mark", "save"} =>
       mounted /\ buffer # NoData /\ job.cluster \in 2 .. LAST - 1

ShellInv ==
  /\ mounted \in BOOLEAN /\ late \in 0 .. MaxLate
  /\ current_path \in Seq(Typed) /\ Len(current_path) <= MaxDepth
  /\ ~mounted => current_dir_cluster = 0 /\ current_path = <<>>

TypeInv == DiskInv /\ DataInv /\ JobInv /\ ShellInv

LEMMA TypeInvImplies == TypeInv => FilesTypeOK
<1> SUFFICES ASSUME TypeInv PROVE FilesTypeOK
  OBVIOUS
<1>1. job = NoJob <=> call = NoCall
  <2>1. job = NoJob <=> job.cmd = "none"
    BY DEF TypeInv, JobInv, NoJob
  <2>2. call = NoCall <=> call.step = "none"
    <3>1. NoCall.step = "none"
      BY DEF NoCall
    <3> QED
      BY <3>1, Zenon DEF TypeInv, DataInv
  <2> QED
    BY <2>1, <2>2 DEF TypeInv, JobInv
<1>2. DOMAIN medium = Lbas
  BY DEF TypeInv, DiskInv, DriveInv
<1> QED
  BY <1>1, <1>2 DEF TypeInv, JobInv, ShellInv, FilesTypeOK

\* The steps of ata_read, ata_write and the drive.
LEMMA TypeDisk ==
  ASSUME TypeInv, DiskInv', Issue \/ Transfer \/ DriveStep,
         UNCHANGED <<shell, output, job, buffer, first, saved>>
  PROVE  TypeInv'
<1> USE AtaAssumption DEF TypeInv, shell
<1>1. late' \in 0 .. MaxLate
  <2>1. \/ late' = late
        \/ late < MaxLate /\ late' = late + 1
    BY DEF Issue, Transfer, DriveStep, Late
  <2> QED
    BY <2>1 DEF ShellInv
<1>2. ShellInv'
  BY <1>1 DEF ShellInv
<1>3. \/ call.step # "none" /\ call'.step # "none"
      \/ call' = call
  <2>1. call = [op |-> call.op, lba |-> call.lba, data |-> call.data,
                step |-> call.step, missed |-> call.missed]
    BY DEF DiskInv, CallRecord
  <2>2. CASE Issue
    <3>1. call.step = "ready" /\ call' = [call EXCEPT !.step = "data", !.missed = Busy]
      BY <2>2 DEF Issue
    <3> QED
      BY <2>1, <3>1
  <2>3. CASE Transfer
    <3>1. PICK d : /\ call.step = "data"
                   /\ call' = [call EXCEPT !.step = "done", !.missed = call.missed \/ ~Asks,
                                           !.data = d]
      BY <2>3 DEF Transfer
    <3> QED
      BY <2>1, <3>1
  <2>4. CASE DriveStep
    BY <2>4 DEF DriveStep
  <2> QED
    BY <2>2, <2>3, <2>4
<1>4. JobInv'
  BY <1>3 DEF JobInv
<1>5. DataInv'
  <2>1. CASE Issue
    BY <2>1 DEF Issue, DataInv, DiskInv, CallRecord, Command, AtRest, Busy
  <2>2. CASE Transfer
    <3>1. PICK got : /\ call' = [call EXCEPT !.step = "done", !.missed = call.missed \/ ~Asks,
                                            !.data = IF call.op = "read" THEN got ELSE @]
                     /\ got \in IF drive.state = "to read" THEN {drive.data} ELSE Garbage
      BY <2>2 DEF Transfer
    <3>2. got # NoData
      BY <3>1 DEF DataInv
    <3>3. call'.step = "done" /\ call'.data # NoData
      BY <3>1, <3>2, <2>2 DEF DataInv, DiskInv, CallRecord, Transfer
    <3>4. drive'.state \in {"to read", "writing"} => drive'.data # NoData
      BY <2>2 DEF Transfer, DataInv, DiskInv, DriveInv, AtRest
    <3> QED
      BY <3>3, <3>4, <2>2 DEF DataInv, Transfer
  <2>3. CASE DriveStep
    <3>1. PICK S : medium \in [Lbas -> S]
      BY DEF DiskInv, DriveInv
    <3>0. drive.state \in {"reading", "writing", "starting"}
      BY <2>3, Zenon DEF DriveStep, Busy
    <3>2. drive.lba \in Lbas
      BY <2>3 DEF DiskInv, DriveInv, DriveStep, Busy
    <3>3. \A l \in Lbas : medium'[l] # NoData
      BY <2>3, <3>1, <3>2 DEF DataInv, DriveStep, Busy
    <3>4. drive'.state \in {"to read", "writing"} => drive'.data # NoData
      <4>1. CASE drive.state = "reading"
        BY <2>3, <3>2, <4>1 DEF DataInv, DriveStep, DiskInv, DriveInv
      <4>2. CASE drive.state = "starting"
        BY <2>3, <4>2 DEF DriveStep, DiskInv, DriveInv
      <4>3. CASE drive.state = "writing"
        <5>1. drive' = AtRest
          BY <2>3, <4>3 DEF DriveStep
        <5> QED
          BY <5>1 DEF AtRest
      <4> QED
        BY <3>0, <4>1, <4>2, <4>3
    <3> QED
      BY <2>3, <3>3, <3>4 DEF DataInv, DriveStep
  <2> QED
    BY <2>1, <2>2, <2>3
<1> QED
  BY <1>2, <1>4, <1>5

\* A command leaves data where data are.
LEMMA DataCalls ==
  ASSUME DataInv, UNCHANGED <<medium, drive>>,
         \/ call' = NoCall
         \/ call' = call
         \/ \E op \in {"read", "write"} : \E lba, data :
              ata(op, lba, data) /\ (op = "write" => data # NoData)
  PROVE  DataInv'
<1>1. CASE call' = NoCall
  BY <1>1 DEF DataInv, NoCall
<1>2. CASE call' = call
  BY <1>2 DEF DataInv
<1>3. ASSUME NEW op \in {"read", "write"}, NEW lba, NEW data,
             ata(op, lba, data), op = "write" => data # NoData
      PROVE  DataInv'
  BY <1>3 DEF DataInv, ata
<1> QED
  BY <1>1, <1>2, <1>3

\* The commands that ask for a sector, or wait for a key.
LEMMA TypeAsked ==
  ASSUME TypeInv, DiskInv',
         Mount \/ Save \/ (\E cmd \in {"ls"} : ReadDirectory(cmd, <<>>))
           \/ (\E name \in Typed, cmd \in {"cd", "cat", "edit"} : ReadDirectory(cmd, name))
  PROVE  TypeInv'
<1> USE FilesAssumption DEF TypeInv
<1>1. ShellInv' /\ UNCHANGED <<shell, medium, drive, late>>
  BY DEF Mount, Save, ReadDirectory, shell, Rest, ShellInv
<1>2. DataInv'
  <2>1. CASE UNCHANGED call
    BY <1>1, <2>1, DataCalls
  <2>2. CASE \E lba : ata("read", lba, NoData)
    BY <1>1, <2>2, DataCalls
  <2> QED
    BY <2>1, <2>2, Zenon DEF Mount, Save, ReadDirectory, ata_read
<1>3. ASSUME Mount PROVE JobInv'
  BY <1>3 DEF Mount, At, ata_read, ata, JobInv, Commands
<1>4. ASSUME Save PROVE JobInv'
  <2>1. ASSUME mounted PROVE JobInv'
    BY <1>4, <2>1, <1>1 DEF Save, AtKey, At, ata_read, ata, JobInv, Commands, shell
  <2>2. ASSUME ~mounted PROVE JobInv'
    BY <1>4, <2>2, <1>1 DEF Save, JobInv, shell
  <2> QED
    BY <2>1, <2>2
<1>5. ASSUME NEW cmd \in {"ls", "cd", "cat", "edit"}, NEW name \in Typed \cup {<<>>},
             cmd = "cd" => name \in Typed, ReadDirectory(cmd, name)
      PROVE  JobInv'
  BY <1>5, <1>1 DEF ReadDirectory, At, ata_read, ata, JobInv, Commands, shell
<1>6. JobInv'
  BY <1>3, <1>4, <1>5
<1> QED
  BY <1>1, <1>2, <1>6

\* A command that returns.
LEMMA TypeReturns ==
  ASSUME TypeInv, DiskInv', ShellInv', UNCHANGED <<medium, drive>>, job' = NoJob, call' = NoCall
  PROVE  TypeInv'
<1>1. JobInv'
  BY DEF JobInv, NoJob, NoCall, Commands
<1>2. DataInv'
  BY DataCalls DEF TypeInv
<1> QED
  BY <1>1, <1>2 DEF TypeInv

\* A command that makes its next call.
LEMMA TypeGoesOn ==
  ASSUME TypeInv, DiskInv', UNCHANGED <<medium, drive, late, shell, buffer>>,
         NEW cmd \in Commands \ {"none", "cd"}, NEW c, NEW n,
         job' = [cmd |-> cmd, name |-> <<>>, cluster |-> c, size |-> n],
         cmd \in {"get", "set", "mark", "save"} =>
           mounted /\ buffer # NoData /\ c \in 2 .. LAST - 1,
         NEW op \in {"read", "write"}, NEW lba, NEW data, ata(op, lba, data),
         op = "write" => data # NoData
  PROVE  TypeInv'
<1>1. DataInv'
  BY DataCalls DEF TypeInv
<1>2. call'.step = "ready"
  BY DEF ata
<1>3. JobInv'
  BY <1>2 DEF JobInv, shell
<1>4. ShellInv'
  BY DEF TypeInv, ShellInv, shell
<1> QED
  BY <1>1, <1>3, <1>4 DEF TypeInv

\* The commands that have their sector, and return.
LEMMA TypeDone ==
  ASSUME TypeInv, DiskInv', Mounted \/ Listed \/ ChangedDirectory \/ Printed \/ Opened \/ Saved
  PROVE  TypeInv'
<1>1. UNCHANGED <<medium, drive, late>> /\ job' = NoJob /\ call' = NoCall
  BY DEF Mounted, Listed, ChangedDirectory, Printed, Opened, Saved, Return, Rest
<1>2. ASSUME UNCHANGED shell PROVE ShellInv'
  BY <1>1, <1>2 DEF TypeInv, ShellInv, shell
<1>3. ASSUME Mounted, ~UNCHANGED shell PROVE ShellInv'
  <2>1. mounted' = TRUE /\ current_path' = <<>>
    BY <1>3, Zenon DEF Mounted
  <2> QED
    BY <1>1, <2>1, FilesAssumption DEF TypeInv, ShellInv
<1>4. ASSUME ChangedDirectory, ~UNCHANGED shell PROVE ShellInv'
  <2>1. mounted' = mounted /\ current_path' = Append(current_path, job.name) /\ job.cmd = "cd"
    BY <1>4, Zenon DEF ChangedDirectory, Got
  <2> QED
    BY <1>1, <2>1, FilesAssumption DEF TypeInv, ShellInv, JobInv
<1>5. ShellInv'
  BY <1>2, <1>3, <1>4, Zenon DEF Listed, Printed, Opened, Saved
<1> QED
  BY <1>1, <1>5, TypeReturns

\* The commands that found their file.
LEMMA TypeFound ==
  ASSUME TypeInv, DiskInv', FileFound \/ EditFound
  PROVE  TypeInv'
<1>1. UNCHANGED <<medium, drive, late, shell>>
  BY DEF FileFound, EditFound, Rest
<1>2. ASSUME job' = NoJob, call' = NoCall PROVE TypeInv'
  <2>1. ShellInv'
    BY <1>1 DEF TypeInv, ShellInv, shell
  <2> QED
    BY <1>1, <1>2, <2>1, TypeReturns
<1>3. ASSUME NEW cmd \in {"print", "open"}, NEW e, NEW lba, AtFile(cmd, e), ata_read(lba),
             UNCHANGED buffer
      PROVE  TypeInv'
  <2>1. job' = [cmd |-> cmd, name |-> <<>>, cluster |-> e.cluster, size |-> e.size]
    BY <1>3 DEF AtFile
  <2>2. ata("read", lba, NoData) /\ cmd \in Commands \ {"none", "cd"}
    BY <1>3 DEF ata_read, Commands
  <2> QED
    BY <1>1, <1>3, <2>1, <2>2, TypeGoesOn
<1> QED
  BY <1>2, <1>3, Zenon DEF FileFound, EditFound, Return

\* The search for a free cluster, and the writes of a save.
LEMMA TypeSaving ==
  ASSUME TypeInv, DiskInv', Looked \/ Marked \/ Allocated
  PROVE  TypeInv'
<1>1. UNCHANGED <<medium, drive, late, shell, buffer>>
  BY DEF Looked, Marked, Allocated, Rest
<1>2. /\ mounted /\ buffer # NoData
      /\ job.cluster \in 2 .. LAST - 1
  BY DEF Looked, Marked, Allocated, Got, TypeInv, JobInv
<1>3. ASSUME job' = NoJob, call' = NoCall PROVE TypeInv'
  <2>1. ShellInv'
    BY <1>1 DEF TypeInv, ShellInv, shell
  <2> QED
    BY <1>1, <1>3, <2>1, TypeReturns
<1>4. ASSUME NEW cmd \in {"get", "set", "mark", "save"}, NEW c \in 2 .. LAST - 1,
             At(cmd, <<>>, c),
             NEW op \in {"read", "write"}, NEW lba, NEW data, ata(op, lba, data),
             op = "write" => data # NoData
      PROVE  TypeInv'
  <2>1. job' = [cmd |-> cmd, name |-> <<>>, cluster |-> c, size |-> 0]
    BY <1>4 DEF At
  <2>2. cmd \in Commands \ {"none", "cd"}
    BY DEF Commands
  <2> QED
    BY <1>1, <1>2, <1>4, <2>1, <2>2, TypeGoesOn
<1>5. CASE Looked
  BY <1>2, <1>3, <1>4, <1>5, Zenon DEF Looked, Return, ata_read, Clusters
<1>6. CASE Marked
  <2>1. fat_set_next_cluster(call.data, job.cluster, EndOfChain) # NoData
    BY DEF fat_set_next_cluster, NoData
  <2> QED
    BY <1>2, <1>4, <1>6, <2>1, Zenon DEF Marked, ata_write
<1>7. CASE Allocated
  BY <1>2, <1>4, <1>7, Zenon DEF Allocated, ata_write
<1> QED
  BY <1>5, <1>6, <1>7

\* Nothing is called.
LEMMA TypeIdle ==
  ASSUME TypeInv, DiskInv', Refused \/ cd_home \/ pwd \/ EditNothing \/ Type \/ Quit \/ UNCHANGED vars
  PROVE  TypeInv'
<1>1. UNCHANGED <<medium, drive, call, late, job, mounted>>
  BY DEF Refused, cd_home, pwd, EditNothing, Type, Quit, vars, diskVars, shell
<1>2. DataInv'
  BY <1>1, DataCalls DEF TypeInv
<1>3. \/ job = NoJob /\ UNCHANGED shell
      \/ cd_home
      \/ UNCHANGED <<buffer, shell>>
  BY DEF Refused, cd_home, pwd, EditNothing, Type, Quit, vars, Prompt, AtKey
<1>4. JobInv'
  BY <1>1, <1>3 DEF TypeInv, JobInv, NoJob, shell, cd_home, Prompt
<1>5. ShellInv'
  <2>1. CASE UNCHANGED shell
    BY <1>1, <2>1 DEF TypeInv, ShellInv, shell
  <2>2. CASE cd_home
    BY <1>1, <2>2, FilesAssumption DEF TypeInv, ShellInv, cd_home
  <2> QED
    BY <1>3, <2>1, <2>2
<1> QED
  BY <1>2, <1>4, <1>5 DEF TypeInv

LEMMA PathAtRoot == <<>> \in Seq(Typed) /\ Len(<<>>) <= MaxDepth
BY FilesAssumption

LEMMA TypePowerOff ==
  ASSUME TypeInv, DiskInv', PowerOff PROVE TypeInv'
<1>1. /\ UNCHANGED <<medium, late>> /\ drive' = AtRest /\ call' = NoCall /\ job' = NoJob
      /\ mounted' = FALSE /\ current_dir_cluster' = 0 /\ current_path' = <<>>
  BY DEF PowerOff, DrivePowerOff
<1>2. ShellInv'
  <2>1. late' \in 0 .. MaxLate
    BY <1>1, Zenon DEF TypeInv, ShellInv
  <2> QED
    BY <1>1, <2>1, PathAtRoot, Zenon DEF ShellInv
<1>3. DataInv'
  <2>1. drive'.state = "idle" /\ call'.step = "none" /\ call'.op = "none"
    BY <1>1 DEF AtRest, NoCall
  <2>2. \A l \in Lbas : medium'[l] # NoData
    BY <1>1, Zenon DEF TypeInv, DataInv
  <2> QED
    BY <1>1, <2>1, <2>2 DEF DataInv
<1>4. JobInv'
  BY <1>1 DEF JobInv, NoJob, NoCall, Commands
<1> QED
  BY <1>2, <1>3, <1>4 DEF TypeInv

LEMMA TypeStep ==
  ASSUME TypeInv, [Next]_vars PROVE TypeInv'
<1>1. DiskInv'
  BY DiskInvStep DEF TypeInv
<1>2. ASSUME Issue \/ Transfer \/ DriveStep,
             UNCHANGED <<shell, output, job, buffer, first, saved>>
      PROVE  TypeInv'
  BY <1>1, <1>2, TypeDisk
<1>3. ASSUME Step PROVE TypeInv'
  BY <1>1, <1>2, <1>3, TypeDone, TypeFound, TypeSaving, Zenon DEF Step
<1> QED
  BY <1>1, <1>2, <1>3, TypeAsked, TypeIdle, TypePowerOff, Zenon DEF Next

LEMMA InitType == Init => TypeInv
<1> SUFFICES ASSUME Init PROVE TypeInv
  OBVIOUS
<1>1. PICK disk \in Disks : DiskInit(disk)
  BY DEF Init
<1>2. medium = disk /\ drive = AtRest /\ call = NoCall /\ late = 0
  BY <1>1 DEF DiskInit
<1>3. DiskInv
  BY InitDisk
<1>4. DataInv
  <2>1. disk \in [Lbas -> Range(disk)] /\ NoData \notin Range(disk)
    BY <1>1, FilesAssumption, Zenon
  <2>2. drive.state = "idle" /\ call.step = "none" /\ call.op = "none"
    BY <1>2 DEF AtRest, NoCall
  <2> QED
    BY <1>2, <2>1, <2>2, SMT DEF DataInv
<1>5. JobInv
  BY <1>2 DEF Init, JobInv, NoJob, NoCall, Commands
<1>6. ShellInv
  <2>1. late \in 0 .. MaxLate
    BY <1>2, AtaAssumption
  <2>2. mounted = FALSE /\ current_dir_cluster = 0 /\ current_path = <<>>
    BY Zenon DEF Init
  <2> QED
    BY <2>1, <2>2, PathAtRoot, Zenon DEF ShellInv
<1> QED
  BY <1>3, <1>4, <1>5, <1>6 DEF TypeInv

\* However the calls, the drive and the power go: a job waits for a call, a save has a
\* buffer and a cluster fat_alloc_cluster may try, and the path has its bound.
THEOREM FilesTypeCorrect == Spec => []FilesTypeOK
BY InitType, TypeStep, TypeInvImplies, PTL DEF Spec

-----------------------------------------------------------------------------
(* Where things are on a disk.                                             *)

LEMMA Quotient ==
  ASSUME NEW M \in Nat \ {0}, NEW a \in Nat, NEW k \in Int, NEW r \in 0 .. M - 1, a = M * k + r
  PROVE  a \div M = k /\ a % M = r
<1> DEFINE q == a \div M
           s == a % M
<1>1. q \in Int /\ s \in 0 .. M - 1 /\ a = M * q + s
  OBVIOUS
<1> HIDE DEF q, s
<1>2. M * (q - k) = r - s
  BY <1>1
<1>3. q - k = 0 \/ q - k >= 1 \/ q - k <= -1
  BY <1>1
<1>4. CASE q - k >= 1
  BY <1>1, <1>2, <1>4
<1>5. CASE q - k <= -1
  BY <1>1, <1>2, <1>5
<1>6. CASE q - k = 0
  BY <1>1, <1>2, <1>6
<1>7. q = k /\ s = r
  BY <1>1, <1>3, <1>4, <1>5, <1>6
<1> QED
  BY <1>7 DEF q, s

LEMMA DivMod ==
  ASSUME NEW M \in Nat \ {0}, NEW a \in Nat
  PROVE  a \div M \in Nat /\ a % M \in 0 .. M - 1 /\ a = M * (a \div M) + (a % M)
OBVIOUS

\* The sector and the place of an entry's first digit.
LEMMA FatAt ==
  ASSUME NEW c \in Nat
  PROVE  /\ FatSector(c) \in Nat /\ FatPlace(c) \in Digits
         /\ c * 3 = 2 * BYTES * FatSector(c) + FatPlace(c)
<1> DEFINE q == (c * 3) \div 2
           r == (c * 3) % 2
           k == q \div BYTES
           s == q % BYTES
<1>0. BYTES \in Nat \ {0}
  BY FilesAssumption
<1>1. q \in Nat /\ r \in 0 .. 1 /\ c * 3 = 2 * q + r
  OBVIOUS
<1> HIDE DEF q, r
<1>2. k \in Nat /\ s \in 0 .. BYTES - 1 /\ q = BYTES * k + s
  BY <1>0, <1>1, DivMod
<1>3. FatSector(c) = k
  BY DEF FatSector, q
<1> HIDE DEF k, s
<1>4. 2 * BYTES * k = 2 * (BYTES * k) /\ BYTES * k \in Nat
  BY <1>0, <1>2
<1>5. c * 3 = 2 * BYTES * k + (2 * s + r) /\ 2 * s + r \in Digits
  BY <1>0, <1>1, <1>2, <1>4 DEF Digits
<1>6. FatPlace(c) = 2 * s + r
  BY <1>0, <1>1, <1>2, <1>3, <1>4, <1>5 DEF FatPlace, Digits
<1> QED
  BY <1>2, <1>3, <1>5, <1>6

\* The place of each digit of an entry.
LEMMA DigitAt ==
  ASSUME NEW c \in Nat, NEW i \in 0 .. 2
  PROVE  /\ FatPlace(c) + i \in Digits =>
              (c * 3 + i) \div (2 * BYTES) = FatSector(c) /\ (c * 3 + i) % (2 * BYTES) = FatPlace(c) + i
         /\ FatPlace(c) + i \notin Digits =>
              (c * 3 + i) \div (2 * BYTES) = FatSector(c) + 1
<1> DEFINE M == 2 * BYTES
           k == FatSector(c)
           p == FatPlace(c)
<1>2. Digits = 0 .. M - 1
  BY DEF Digits
<1>0. M \in Nat \ {0, 1}
  BY FilesAssumption
<1>1. k \in Nat /\ p \in 0 .. M - 1 /\ c * 3 = M * k + p
  BY <1>2, FatAt, Zenon
<1> HIDE DEF M, k, p
<1>3. M * (k + 1) = M * k + M /\ M * k \in Nat
  BY <1>0, <1>1
<1>4. ASSUME p + i \in 0 .. M - 1 PROVE (c * 3 + i) \div M = k /\ (c * 3 + i) % M = p + i
  BY <1>0, <1>1, <1>3, <1>4, Quotient
<1>5. ASSUME p + i \notin 0 .. M - 1 PROVE (c * 3 + i) \div M = k + 1
  <2>1. p + i - M \in 0 .. M - 1 /\ c * 3 + i = M * (k + 1) + (p + i - M)
    BY <1>0, <1>1, <1>3, <1>5
  <2> QED
    BY <1>0, <1>1, <2>1, Quotient
<1> QED
  BY <1>2, <1>4, <1>5 DEF M, k, p

V == FirstVolume
FatLba(c) == V.fat_sector + FatSector(c)
Digit(m, d) == FatDigit(V, m, d)
FatRange == V.fat_sector .. V.root_sector - 1
IsVolume == first \in Disks /\ first[0][1] = "boot"

\* A volume has its parts apart.
LEMMA Geometry ==
  ASSUME IsVolume
  PROVE  /\ V.fat_sector \in Nat \ {0} /\ V.sectors_per_cluster \in Nat \ {0}
         /\ V.root_sector \in Lbas /\ V.data_sector \in Lbas /\ V.root_sector < V.data_sector
         /\ \A c \in Clusters : V.fat_sector + (c * 3 + 2) \div (2 * BYTES) < V.root_sector
         /\ FatRange \subseteq Lbas /\ Lbas \subseteq Nat
         /\ \A c \in Clusters : EntryOn(first, c) # Free => Sector(V, c) \in Lbas
BY VolumesAssumption, Zenon DEF IsVolume, V, FirstVolume, FatRange, EntryOn

LEMMA ClustersAre == Clusters \subseteq Nat \ {0, 1}
BY FilesAssumption DEF Clusters

LEMMA FatLbaIn ==
  ASSUME IsVolume, NEW c \in Clusters PROVE FatLba(c) \in FatRange /\ FatLba(c) \in Lbas
<1> DEFINE k == (c * 3 + 2) \div (2 * BYTES)
<1>1. FatSector(c) \in Nat /\ V.fat_sector \in Nat /\ V.root_sector \in Nat
  BY Geometry, FatAt, ClustersAre
<1>2. k \in Int /\ FatSector(c) <= k
  <2>1. c \in Nat /\ 2 \in 0 .. 2
    BY ClustersAre
  <2>2. k = FatSector(c) \/ k = FatSector(c) + 1
    BY <2>1, DigitAt, Zenon
  <2> QED
    BY <1>1, <2>2
<1>3. V.fat_sector + k < V.root_sector
  BY Geometry
<1> HIDE DEF k
<1>4. FatLba(c) \in FatRange
  BY <1>1, <1>2, <1>3 DEF FatLba, FatRange
<1> QED
  BY <1>4, Geometry

\* The first sectors of two clusters are two sectors, after the FAT and the root.
LEMMA SectorsApart ==
  ASSUME IsVolume, NEW c \in Nat \ {0, 1}
  PROVE  /\ Sector(V, c) \in Nat /\ Sector(V, c) \notin FatRange
         /\ Sector(V, c) # V.root_sector /\ Sector(V, c) # 0
         /\ \A b \in Nat \ {0, 1} : Sector(V, b) = Sector(V, c) => b = c
<1> DEFINE n == V.sectors_per_cluster
           o == V.data_sector
<1>1. n \in Nat \ {0} /\ o \in Nat /\ V.root_sector \in Nat /\ V.root_sector < o
  BY Geometry
<1>2. Sector(V, c) = o + (c - 2) * n
  BY DEF Sector
<1> HIDE DEF n, o
<1>3. (c - 2) * n \in Nat
  BY <1>1
<1>4. ASSUME NEW b \in Nat \ {0, 1}, o + (b - 2) * n = o + (c - 2) * n PROVE b = c
  <2>1. (b - c) * n = 0
    BY <1>1, <1>4
  <2> QED
    BY <1>1, <2>1
<1>5. \A b : Sector(V, b) = o + (b - 2) * n
  BY DEF Sector, n, o
<1>6. Sector(V, c) \in Nat /\ Sector(V, c) >= o
  BY <1>1, <1>2, <1>3
<1> QED
  BY <1>1, <1>4, <1>5, <1>6 DEF FatRange

LEMMA BootApart == ASSUME IsVolume PROVE /\ 0 \in Lbas /\ 0 \notin FatRange
                                        /\ V.root_sector \notin FatRange
<1>1. V.root_sector \in Nat /\ V.fat_sector \in Nat \ {0}
  BY Geometry
<1> QED
  BY <1>1, VolumesAssumption DEF FatRange

-----------------------------------------------------------------------------
(* What fat_set_next_cluster does to the FAT.                              *)

\* The sector it writes holds the entry; of every other digit it is a copy.
WithMark(m, c) ==
  [m EXCEPT ![FatLba(c)] = fat_set_next_cluster(m[FatLba(c)], c, EndOfChain)]

LEMMA SetInSector ==
  ASSUME NEW sector, NEW c, NEW p \in Digits
  PROVE  FatIn(fat_set_next_cluster(sector, c, EndOfChain))[p] =
           IF p - FatPlace(c) \in 0 .. 2 THEN EndOfChain[p - FatPlace(c) + 1] ELSE FatIn(sector)[p]
<1> DEFINE f == [q \in Digits |-> IF q - FatPlace(c) \in 0 .. 2
                                  THEN EndOfChain[q - FatPlace(c) + 1] ELSE FatIn(sector)[q]]
<1>1. fat_set_next_cluster(sector, c, EndOfChain) = <<"fat", f>>
  BY DEF fat_set_next_cluster
<1>2. FatIn(<<"fat", f>>) = f
  BY DEF FatIn
<1>3. f[p] = IF p - FatPlace(c) \in 0 .. 2 THEN EndOfChain[p - FatPlace(c) + 1] ELSE FatIn(sector)[p]
  OBVIOUS
<1> QED
  BY <1>1, <1>2, <1>3, Zenon

LEMMA MarkDigit ==
  ASSUME IsVolume, NEW S, NEW m \in [Lbas -> S], NEW c \in Clusters, NEW b \in Clusters,
         NEW i \in 0 .. 2
  PROVE  Digit(WithMark(m, c), b * 3 + i) =
           IF b = c /\ FatPlace(c) + i \in Digits THEN EndOfChain[i + 1] ELSE Digit(m, b * 3 + i)
<1> DEFINE M == 2 * BYTES
           d == b * 3 + i
           k == d \div M
           p == d % M
           o == V.fat_sector
<1>1. M \in Nat \ {0} /\ Digits = 0 .. M - 1 /\ b \in Nat /\ c \in Nat /\ o \in Nat
  BY FilesAssumption, ClustersAre, Geometry DEF Digits
<1>2. k \in Nat /\ p \in Digits /\ d = M * k + p
  <2>1. d \in Nat
    BY <1>1
  <2> HIDE DEF d, M
  <2> QED
    BY <1>1, <2>1, DivMod, Zenon
<1>3. FatSector(c) \in Nat /\ FatPlace(c) \in Digits /\ c * 3 = M * FatSector(c) + FatPlace(c)
  BY <1>1, FatAt, Zenon
<1>4. FatLba(c) \in Lbas /\ FatLba(c) = o + FatSector(c)
  BY FatLbaIn DEF FatLba
<1>5. \A n : Digit(n, d) = FatIn(n[o + k])[p]
  BY Zenon DEF Digit, FatDigit
<1>9. b = c /\ FatPlace(c) + i \in Digits => k = FatSector(c) /\ p = FatPlace(c) + i
  BY <1>1, DigitAt, Zenon
<1>10. b = c /\ k = FatSector(c) => FatPlace(c) + i \in Digits
  <2> SUFFICES ASSUME b = c, k = FatSector(c), FatPlace(c) + i \notin Digits PROVE FALSE
    OBVIOUS
  <2>1. k = FatSector(c) + 1
    BY <1>1, DigitAt, Zenon
  <2> QED
    BY <1>3, <2>1
<1> HIDE DEF k, p, o
<1>6. CASE k # FatSector(c)
  <2>1. o + k # FatLba(c)
    BY <1>1, <1>2, <1>3, <1>4, <1>6
  <2>2. WithMark(m, c)[o + k] = m[o + k]
    BY <2>1, <1>4 DEF WithMark
  <2> QED
    BY <1>5, <1>6, <1>9, <2>2
<1>7. CASE k = FatSector(c)
  <2>1. WithMark(m, c)[o + k] = fat_set_next_cluster(m[FatLba(c)], c, EndOfChain)
        /\ o + k = FatLba(c)
    BY <1>4, <1>7 DEF WithMark
  <2>2. p - FatPlace(c) = d - c * 3
    <3>1. M * k = M * FatSector(c) /\ M * k \in Int /\ p \in Int /\ FatPlace(c) \in Int
      BY <1>1, <1>2, <1>3, <1>7
    <3> HIDE DEF M
    <3> QED
      BY <1>1, <1>2, <1>3, <3>1
  <2>3. p - FatPlace(c) \in 0 .. 2 <=> b = c
    BY <1>1, <2>2
  <2>4. b = c => p - FatPlace(c) = i
    BY <1>1, <2>2
  <2>5. Digit(WithMark(m, c), d) =
          IF p - FatPlace(c) \in 0 .. 2 THEN EndOfChain[p - FatPlace(c) + 1]
          ELSE FatIn(m[FatLba(c)])[p]
    BY <1>2, <1>5, <2>1, SetInSector
  <2>6. Digit(m, d) = FatIn(m[FatLba(c)])[p]
    BY <1>5, <2>1
  <2> HIDE DEF d
  <2>7. CASE b = c
    BY <1>7, <1>10, <2>3, <2>4, <2>5, <2>7 DEF d
  <2>8. CASE b # c
    BY <2>3, <2>5, <2>6, <2>8 DEF d
  <2> QED
    BY <2>7, <2>8
<1> QED
  BY <1>6, <1>7

\* The entry of a cluster as it was, and as the allocation leaves it.
Untouched(m, c) == \A i \in 0 .. 2 : Digit(m, c * 3 + i) = Digit(first, c * 3 + i)

Given(m, c) ==
  /\ EntryOn(first, c) = Free \/ Exposed(c)
  /\ \A i \in 0 .. 2 : Digit(m, c * 3 + i) =
       IF FatPlace(c) + i \in Digits THEN EndOfChain[i + 1] ELSE Digit(first, c * 3 + i)

\* The digits that are read of an entry are 0.
SeemsFree(m, c) == \A i \in 0 .. 2 : FatPlace(c) + i \in Digits => Digit(m, c * 3 + i) = 0

\* Every sector is as it was, but those of the FAT and of clusters given out.
DataKept(m) ==
  \A l \in Lbas : \/ m[l] = first[l] \/ l \in FatRange
                  \/ \E c \in Clusters : Given(m, c) /\ l = Sector(V, c)

MediumOK(m) == /\ \A c \in Clusters : Untouched(m, c) \/ Given(m, c)
               /\ DataKept(m)

LEMMA EntryIs ==
  ASSUME NEW m, NEW c \in Nat
  PROVE  EntryOn(m, c) = <<Digit(m, c * 3 + 0), Digit(m, c * 3 + 1), Digit(m, c * 3 + 2)>>
<1>1. c * 3 = c * 3 + 0
  OBVIOUS
<1> QED
  BY <1>1, Zenon DEF EntryOn, EntryAt, Digit, V

\* A cluster given out is not believed free again: its first digit is read.
LEMMA GivenSeemsTaken ==
  ASSUME NEW m, NEW c \in Clusters, Given(m, c)
  PROVE  ~SeemsFree(m, c) /\ EntryOn(m, c) # Free
<1>1. c \in Nat /\ FatPlace(c) + 0 \in Digits
  BY FatAt, ClustersAre DEF Digits
<1>2. Digit(m, c * 3 + 0) = 8
  BY <1>1 DEF Given, EndOfChain
<1>3. ~SeemsFree(m, c)
  BY <1>1, <1>2 DEF SeemsFree
<1>4. EntryOn(m, c)[1] = 8
  BY <1>1, <1>2, EntryIs
<1> QED
  BY <1>3, <1>4 DEF Free

\* What is believed free on a disk nothing else happened to was free, or is exposed.
LEMMA FreeWasFree ==
  ASSUME IsVolume, NEW m, NEW c \in Clusters, Untouched(m, c), SeemsFree(m, c)
  PROVE  EntryOn(first, c) = Free \/ Exposed(c)
<1>1. c \in Nat /\ FatPlace(c) \in Digits /\ Digits = 0 .. 2 * BYTES - 1 /\ BYTES \in Nat
  BY FatAt, ClustersAre, FilesAssumption DEF Digits
<1>2. \A i \in 0 .. 2 : FatPlace(c) + i \in Digits => Digit(first, c * 3 + i) = 0
  BY DEF Untouched, SeemsFree
<1>3. FatPlace(c) + 0 \in Digits
  BY <1>1
<1>4. Digit(first, c * 3 + 0) = 0
  BY <1>2, <1>3
<1>5. EntryOn(first, c) = <<Digit(first, c * 3 + 0), Digit(first, c * 3 + 1), Digit(first, c * 3 + 2)>>
  BY <1>1, EntryIs
<1>6. CASE FatPlace(c) + 2 \in Digits
  <2>1. FatPlace(c) + 1 \in Digits
    BY <1>1, <1>6
  <2>2. Digit(first, c * 3 + 1) = 0 /\ Digit(first, c * 3 + 2) = 0
    BY <1>2, <1>6, <2>1
  <2> QED
    BY <1>4, <1>5, <2>2 DEF Free
<1>7. CASE FatPlace(c) + 2 \notin Digits
  <2>1. EntryOn(first, c)[1] = 0
    BY <1>4, <1>5
  <2> QED
    BY <1>7, <2>1, Zenon DEF Exposed, ExposedOn, Straddles, EntryOn, FirstVolume
<1> QED
  BY <1>6, <1>7

\* A cluster believed free is given out, and nothing else changes.
LEMMA MarkKeeps ==
  ASSUME IsVolume, NEW S, NEW m \in [Lbas -> S], MediumOK(m), NEW c \in Clusters, SeemsFree(m, c)
  PROVE  /\ MediumOK(WithMark(m, c)) /\ Given(WithMark(m, c), c)
         /\ \A b \in Clusters : Given(m, b) => Given(WithMark(m, c), b)
         /\ \A l \in Lbas : l \notin FatRange => WithMark(m, c)[l] = m[l]
<1> DEFINE n == WithMark(m, c)
<1>1. \A b \in Clusters, i \in 0 .. 2 :
        Digit(n, b * 3 + i) =
          IF b = c /\ FatPlace(c) + i \in Digits THEN EndOfChain[i + 1] ELSE Digit(m, b * 3 + i)
  BY MarkDigit
<1>2. FatLba(c) \in FatRange
  BY FatLbaIn
<1>3. \A l \in Lbas : l \notin FatRange => n[l] = m[l]
  BY <1>2 DEF WithMark
<1> HIDE DEF n
<1>4. Untouched(m, c)
  BY GivenSeemsTaken DEF MediumOK
<1>5. Given(n, c)
  <2>1. EntryOn(first, c) = Free \/ Exposed(c)
    BY <1>4, FreeWasFree
  <2>2. ASSUME NEW i \in 0 .. 2
        PROVE  Digit(n, c * 3 + i) =
                 IF FatPlace(c) + i \in Digits THEN EndOfChain[i + 1] ELSE Digit(first, c * 3 + i)
    BY <1>1, <1>4 DEF Untouched
  <2> QED
    BY <2>1, <2>2, Zenon DEF Given
<1>6. ASSUME NEW b \in Clusters PROVE /\ Given(m, b) => Given(n, b)
                                      /\ Untouched(n, b) \/ Given(n, b)
  <2>1. CASE b = c
    BY <1>5, <2>1
  <2>2. CASE b # c
    <3>1. \A i \in 0 .. 2 : Digit(n, b * 3 + i) = Digit(m, b * 3 + i)
      BY <1>1, <2>2
    <3>2. Given(m, b) => Given(n, b)
      BY <3>1 DEF Given
    <3>3. Untouched(m, b) => Untouched(n, b)
      BY <3>1 DEF Untouched
    <3> QED
      BY <3>2, <3>3 DEF MediumOK
  <2> QED
    BY <2>1, <2>2
<1>7. DataKept(n)
  BY <1>3, <1>6 DEF DataKept, MediumOK
<1> QED
  BY <1>3, <1>5, <1>6, <1>7 DEF MediumOK, n

\* Data written in a cluster given out leave the FAT and the rest as they are.
LEMMA SaveKeeps ==
  ASSUME IsVolume, NEW S, NEW m \in [Lbas -> S], MediumOK(m), NEW c \in Clusters, Given(m, c),
         NEW data
  PROVE  /\ MediumOK([m EXCEPT ![Sector(V, c)] = data])
         /\ \A b \in Clusters : Given(m, b) => Given([m EXCEPT ![Sector(V, c)] = data], b)
<1> DEFINE n == [m EXCEPT ![Sector(V, c)] = data]
           M == 2 * BYTES
<1>1. c \in Nat \ {0, 1}
  BY ClustersAre
<1>2. Sector(V, c) \notin FatRange
  BY <1>1, SectorsApart
<1>3. \A l \in FatRange : n[l] = m[l]
  BY <1>2
<1>4. \A l \in Lbas : n[l] = m[l] \/ l = Sector(V, c)
  OBVIOUS
<1> HIDE DEF n
<1>5. ASSUME NEW b \in Clusters, NEW i \in 0 .. 2 PROVE Digit(n, b * 3 + i) = Digit(m, b * 3 + i)
  <2> DEFINE k == (b * 3 + i) \div M
  <2>1. b \in Nat /\ M \in Nat \ {0} /\ FatSector(b) \in Nat /\ V.fat_sector \in Nat
        /\ V.root_sector \in Nat
    <3>1. b \in Nat
      BY ClustersAre
    <3>2. M \in Nat \ {0}
      BY FilesAssumption
    <3>3. FatSector(b) \in Nat
      BY <3>1, FatAt
    <3>4. V.fat_sector \in Nat /\ V.root_sector \in Nat
      BY Geometry
    <3> QED
      BY <3>1, <3>2, <3>3, <3>4
  <2>2. k \in Nat /\ k <= (b * 3 + 2) \div M
    <3>1. b * 3 + i \in Nat /\ b * 3 + 2 \in Nat
      BY <2>1
    <3>2. /\ k = FatSector(b) \/ k = FatSector(b) + 1
          /\ FatPlace(b) + i \in Digits => k = FatSector(b)
          /\ FatPlace(b) + i \notin Digits => k = FatSector(b) + 1
      BY <2>1, DigitAt, Zenon
    <3>3. /\ (b * 3 + 2) \div M = FatSector(b) \/ (b * 3 + 2) \div M = FatSector(b) + 1
          /\ FatPlace(b) + 2 \in Digits => (b * 3 + 2) \div M = FatSector(b)
          /\ FatPlace(b) + 2 \notin Digits => (b * 3 + 2) \div M = FatSector(b) + 1
      <4>1. 2 \in 0 .. 2
        OBVIOUS
      <4> QED
        BY <2>1, <4>1, DigitAt, Zenon
    <3>4. FatPlace(b) + 2 \in Digits => FatPlace(b) + i \in Digits
      BY <2>1, FatAt DEF Digits
    <3> HIDE DEF k
    <3> QED
      BY <2>1, <3>2, <3>3, <3>4
  <2>3. V.fat_sector + (b * 3 + 2) \div M < V.root_sector
    BY Geometry
  <2>4. \A x : Digit(x, b * 3 + i) = FatIn(x[V.fat_sector + k])[(b * 3 + i) % M]
    BY Zenon DEF Digit, FatDigit
  <2> HIDE DEF k, M
  <2>5. V.fat_sector + k \in FatRange
    <3>1. (b * 3 + 2) \div M \in Int
      BY <2>1
    <3> QED
      BY <2>1, <2>2, <2>3, <3>1 DEF FatRange
  <2> QED
    BY <1>3, <2>4, <2>5
<1>6. ASSUME NEW b \in Clusters PROVE /\ Given(m, b) => Given(n, b)
                                      /\ Untouched(n, b) \/ Given(n, b)
  <2>1. Given(m, b) => Given(n, b)
    BY <1>5 DEF Given
  <2>2. Untouched(m, b) => Untouched(n, b)
    BY <1>5 DEF Untouched
  <2> QED
    BY <2>1, <2>2 DEF MediumOK
<1>7. DataKept(n)
  BY <1>4, <1>6 DEF DataKept, MediumOK
<1> QED
  BY <1>6, <1>7 DEF MediumOK, n

-----------------------------------------------------------------------------
(* The inductive invariant of a disk whose drive keeps up.                 *)

\* What is to be written gives out a cluster that is believed free.
Marking(c, lba, data) ==
  /\ SeemsFree(medium, c)
  /\ lba = FatLba(c) /\ data = fat_set_next_cluster(medium[FatLba(c)], c, EndOfChain)

\* The volume is known where something was mounted, written or saved.
VolumeOK ==
  /\ first \in Disks
  /\ mounted => IsVolume /\ volume = V
  /\ drive.state = "writing" => mounted
  /\ saved # {} \/ medium # first => IsVolume

\* The drive has the FAT to write, for the save that waits for it, or the data of a
\* cluster given out.
Marks == job.cmd \in {"mark", "save"} /\ Marking(job.cluster, drive.lba, drive.data)
PutsData == \E c \in Clusters : /\ drive.lba = Sector(V, c) /\ Given(medium, c)
                                /\ \A s \in saved : s[1] = c => s[2] = drive.data
PendingOK == drive.state = "writing" => Marks \/ PutsData

IsSaved(s) ==
  /\ s[1] \in Clusters /\ Given(medium, s[1]) /\ Sector(V, s[1]) \in Lbas
  /\ \/ medium[Sector(V, s[1])] = s[2]
     \/ drive.state = "writing" /\ drive.lba = Sector(V, s[1]) /\ drive.data = s[2]
SavedOK == \A s \in saved : IsSaved(s)

\* The sector each command asked for.
CallOK ==
  /\ ~call.missed
  /\ job.cmd # "none" /\ job.cmd # "mount" => mounted
  /\ job.cmd = "mount" => call.lba = 0
  /\ job.cmd \in {"ls", "cd", "cat", "edit"} => call.lba = DirSector(V, current_dir_cluster)
  /\ job.cmd \in {"cd", "cat"} => output = Nothing
  /\ job.cmd \in {"get", "set"} => call.lba = FatLba(job.cluster)
  /\ job.cmd # "none" => (call.op = "write" <=> job.cmd \in {"mark", "save"})

\* The entry is marked, or the drive has it to write.
IsMarked(c) == \/ drive.state # "writing" /\ Given(medium, c)
               \/ drive.state = "writing" /\ Marking(c, drive.lba, drive.data)

\* A save: the cluster is believed free until the drive has its entry written, and no
\* data go to the drive before; nothing was saved in it.
SetOK == job.cmd = "set" => SeemsFree(medium, job.cluster) /\ drive.state # "writing"
MarkOK == job.cmd = "mark" =>
  /\ call.lba = FatLba(job.cluster)
  /\ call.step # "done" =>
       drive.state # "writing" /\ Marking(job.cluster, call.lba, call.data)
  /\ call.step = "done" => IsMarked(job.cluster)
SaveOK == job.cmd = "save" =>
  /\ call.lba = Sector(V, job.cluster) /\ call.data = buffer
  /\ call.step = "ready" => IsMarked(job.cluster)
  /\ call.step # "ready" => Given(medium, job.cluster)
FreshOK == job.cmd \in {"set", "mark", "save"} => \A s \in saved : s[1] # job.cluster

\* A directory of the disk, which no save overwrites.
IsDirectory(d) ==
  \/ d = 0
  \/ /\ d \in Nat \ {0, 1} /\ Sector(V, d) \in Lbas
     /\ d \in Clusters => EntryOn(first, d) # Free /\ ~Exposed(d)

LedOn(d, path) == Follow(d, path, FindDirectory)
Led(path) == LedOn(first, path)

Wanders == mounted => /\ IsDirectory(current_dir_cluster)
                      /\ Led(current_path) = current_dir_cluster

Keeps == /\ VolumeOK /\ MediumOK(medium) /\ PendingOK /\ SavedOK /\ CallOK
         /\ SetOK /\ MarkOK /\ SaveOK /\ FreshOK /\ Wanders

KInv == TypeInv /\ (late = 0 => Keeps)


LEMMA HistoryStays ==
  ASSUME TypeInv, [Next]_vars PROVE first' = first /\ (late' = 0 => late = 0)
<1>1. first' = first
  <2>1. CASE Step
    BY <2>1, Zenon DEF Step, Mounted, Listed, ChangedDirectory, FileFound, Printed, EditFound,
                       Opened, Looked, Marked, Allocated, Saved, Rest
  <2> QED
    BY <2>1, Zenon DEF Next, Mount, Refused, cd_home, pwd, ReadDirectory, EditNothing, Type,
                       Save, Quit, PowerOff, Rest, vars
<1>2. late \in Nat
  BY AtaAssumption DEF TypeInv, ShellInv
<1>3. late' = late \/ late' = late + 1
  <2>1. CASE Issue \/ Transfer \/ DriveStep \/ DrivePowerOff
    BY <2>1 DEF Issue, Transfer, DriveStep, DrivePowerOff, Late
  <2>2. CASE Caller
    BY <2>2 DEF Caller
  <2> QED
    BY <2>1, <2>2, CommandsOnlyCall DEF DiskStep
<1> QED
  BY <1>1, <1>2, <1>3

\* What is said of the disk at first does not change.
LEMMA SameVolume ==
  ASSUME first' = first
  PROVE  /\ V' = V /\ FatRange' = FatRange /\ (IsVolume' <=> IsVolume)
         /\ \A c : FatLba(c)' = FatLba(c)
         /\ \A m, c : (Given(m, c)' <=> Given(m, c)) /\ (SeemsFree(m, c)' <=> SeemsFree(m, c))
         /\ \A m : MediumOK(m)' <=> MediumOK(m)
         /\ \A d : IsDirectory(d)' <=> IsDirectory(d)
         /\ \A path : Led(path)' = Led(path)
<1>1. V' = V
  BY Zenon DEF V, FirstVolume
<1>2. FatRange' = FatRange /\ (IsVolume' <=> IsVolume) /\ \A c : FatLba(c)' = FatLba(c)
  BY <1>1, Zenon DEF FatRange, IsVolume, FatLba
<1>3. \A m, c : (Given(m, c)' <=> Given(m, c)) /\ (SeemsFree(m, c)' <=> SeemsFree(m, c))
                 /\ (Untouched(m, c)' <=> Untouched(m, c))
  BY SMT DEF Given, SeemsFree, Untouched, V, FirstVolume, Digit, EntryOn, Exposed
<1>4. \A m : MediumOK(m)' <=> MediumOK(m)
  BY <1>1, <1>2, <1>3, SMT DEF MediumOK, DataKept
<1>5. \A d : IsDirectory(d)' <=> IsDirectory(d)
  BY <1>1, SMT DEF IsDirectory, EntryOn, Exposed, FirstVolume
<1>6. \A path : Led(path)' = Led(path)
  BY Zenon DEF Led
<1> QED
  BY <1>1, <1>2, <1>3, <1>4, <1>5, <1>6

-----------------------------------------------------------------------------
(* Directories, and the path.                                              *)

\* A directory is read as it was at first.
LEMMA DirectoryKept ==
  ASSUME IsVolume, NEW m, DataKept(m), NEW d, IsDirectory(d)
  PROVE  DirSector(V, d) \in Lbas /\ m[DirSector(V, d)] = first[DirSector(V, d)]
<1>1. CASE d = 0
  <2>1. DirSector(V, d) = V.root_sector
    BY <1>1 DEF DirSector
  <2>2. V.root_sector \in Lbas /\ V.root_sector \notin FatRange
    BY Geometry, BootApart
  <2>3. \A c \in Clusters : V.root_sector # Sector(V, c)
    BY ClustersAre, SectorsApart
  <2> QED
    BY <2>1, <2>2, <2>3 DEF DataKept
<1>2. CASE d # 0
  <2>1. /\ d \in Nat \ {0, 1} /\ Sector(V, d) \in Lbas
        /\ d \in Clusters => EntryOn(first, d) # Free /\ ~Exposed(d)
    BY <1>2 DEF IsDirectory
  <2>2. DirSector(V, d) = Sector(V, d)
    BY <1>2 DEF DirSector
  <2>3. Sector(V, d) \notin FatRange
    BY <2>1, SectorsApart
  <2>4. ASSUME NEW c \in Clusters, Given(m, c), Sector(V, d) = Sector(V, c) PROVE FALSE
    <3>1. c = d
      BY <2>1, <2>4, ClustersAre, SectorsApart
    <3> QED
      BY <2>1, <2>4, <3>1 DEF Given
  <2> QED
    BY <2>1, <2>2, <2>3, <2>4 DEF DataKept
<1> QED
  BY <1>1, <1>2

\* What mount reads is the first sector, even where it can be read by no mount.
LEMMA BootKept ==
  ASSUME VolumeOK, MediumOK(medium) PROVE 0 \in Lbas /\ medium[0] = first[0]
<1>1. 0 \in Lbas
  BY VolumesAssumption
<1>2. CASE medium = first
  BY <1>1, <1>2
<1>3. CASE IsVolume
  <2>1. 0 \notin FatRange /\ \A c \in Clusters : Sector(V, c) # 0
    BY <1>3, BootApart, ClustersAre, SectorsApart
  <2> QED
    BY <1>1, <2>1 DEF MediumOK, DataKept
<1> QED
  BY <1>2, <1>3 DEF VolumeOK

LEMMA FirstOf ==
  ASSUME NEW T, T \subseteq Nat \ {0}
  PROVE  /\ T = {} => First(T) = 0
         /\ T # {} => First(T) \in T /\ First(T) # 0
<1>1. ASSUME T # {} PROVE Min(T) \in T
  <2>1. \E x \in T : \A y \in T : x <= y
    BY <1>1, LeastNat
  <2> QED
    BY <2>1 DEF Min
<1> QED
  BY <1>1 DEF First

\* The entries of a sector of a volume.
LEMMA EntriesAre ==
  ASSUME IsVolume, NEW l \in Lbas
  PROVE  LET es == EntriesIn(first[l])
         IN /\ es \in Seq(Range(es)) /\ DOMAIN es \subseteq Nat \ {0}
            /\ \A i \in Present(es) : i \in DOMAIN es /\ IsEntry(first, es[i])
            /\ \A i, j \in Present(es) : es[i].name = es[j].name => i = j
<1> DEFINE es == EntriesIn(first[l])
<1>1. /\ es \in Seq(Range(es))
      /\ \A i \in Present(es) : IsEntry(first, es[i])
      /\ \A i, j \in Present(es) : es[i].name = es[j].name => i = j
  BY VolumesAssumption, Zenon DEF IsVolume
<1> HIDE DEF es
<1>2. DOMAIN es = 1 .. Len(es) /\ Len(es) \in Nat
  BY <1>1
<1>3. DOMAIN es \subseteq Nat \ {0}
  BY <1>2
<1>4. \A i \in Present(es) : i \in DOMAIN es
  BY DEF Present
<1> QED
  BY <1>1, <1>3, <1>4 DEF es

\* cd goes to a directory.
LEMMA FoundDirectory ==
  ASSUME IsVolume, NEW l \in Lbas, NEW name,
         FindDirectory(EntriesIn(first[l]), name) # 0
  PROVE  LET es == EntriesIn(first[l])
         IN IsDirectory(es[FindDirectory(es, name)].cluster)
<1> DEFINE es == EntriesIn(first[l])
           T == { i \in Present(es) : es[i].kind = "dir" /\ Matches(Search(name, 8), es[i]) }
           i == FindDirectory(es, name)
<1>1. i = First(T)
  BY DEF FindDirectory
<1>2. Present(es) \subseteq Nat \ {0} /\ \A k \in Present(es) : IsEntry(first, es[k])
  BY EntriesAre
<1>3. i \in Present(es) /\ es[i].kind = "dir"
  <2>1. T \subseteq Nat \ {0}
    BY <1>2
  <2>2. First(T) \in T
    BY <1>1, <2>1, FirstOf
  <2> QED
    BY <1>1, <2>2
<1>4. IsEntry(first, es[i])
  BY <1>2, <1>3
<1> HIDE DEF i, es
<1>5. IsDirectory(es[i].cluster)
  BY <1>3, <1>4 DEF IsEntry, IsDirectory, V, FirstVolume, EntryOn, Exposed
<1> QED
  BY <1>5 DEF i, es

\* One part of a path further.
Onward(d, c, name) ==
  LET es == IF c = -1 THEN <<>> ELSE EntriesIn(d[DirSector(VolumeOf(d), c)])
      i  == FindDirectory(es, name)
  IN IF i = 0 THEN -1 ELSE es[i].cluster

\* The directories on the way along a path.
IsWay(at, d, path, m) ==
  at = [n \in 0 .. m |-> IF n = 0 THEN 0 ELSE Onward(d, at[n - 1], path[n])]

LEMMA WayExists ==
  ASSUME NEW d, NEW path PROVE \A m \in Nat : \E at : IsWay(at, d, path, m)
<1> DEFINE T == { m \in Nat : ~ \E at : IsWay(at, d, path, m) }
<1> SUFFICES ASSUME T # {} PROVE FALSE
  OBVIOUS
<1>1. PICK m \in T : \A k \in T : m <= k
  BY LeastNat
<1>2. m \in Nat /\ ~ \E at : IsWay(at, d, path, m)
  OBVIOUS
<1>3. CASE m = 0
  <2> DEFINE at == [n \in 0 .. 0 |-> 0]
  <2>1. IsWay(at, d, path, 0)
    BY DEF IsWay
  <2> QED
    BY <1>2, <1>3, <2>1
<1>4. CASE m > 0
  <2>1. m - 1 \in Nat /\ m - 1 \notin T
    BY <1>1, <1>2, <1>4
  <2>2. PICK bt : IsWay(bt, d, path, m - 1)
    BY <2>1
  <2> DEFINE at == [n \in 0 .. m |-> IF n = m THEN Onward(d, bt[m - 1], path[m]) ELSE bt[n]]
  <2>3. \A n \in 0 .. m - 1 : bt[n] = IF n = 0 THEN 0 ELSE Onward(d, bt[n - 1], path[n])
    BY <2>2 DEF IsWay
  <2>4. \A n \in 0 .. m : at[n] = IF n = 0 THEN 0 ELSE Onward(d, at[n - 1], path[n])
    BY <1>4, <1>2, <2>3
  <2>5. IsWay(at, d, path, m)
    BY <2>4 DEF IsWay
  <2> QED
    BY <1>2, <2>5
<1> QED
  BY <1>2, <1>3, <1>4

LEMMA LedIs ==
  ASSUME NEW d, NEW path, Len(path) \in Nat
  PROVE  \E at : IsWay(at, d, path, Len(path)) /\ LedOn(d, path) = at[Len(path)]
<1> DEFINE at == CHOOSE f : f = [n \in 0 .. Len(path) |->
                                   IF n = 0 THEN 0 ELSE Onward(d, f[n - 1], path[n])]
<1>1. PICK g : IsWay(g, d, path, Len(path))
  BY WayExists
<1>2. g = [n \in 0 .. Len(path) |-> IF n = 0 THEN 0 ELSE Onward(d, g[n - 1], path[n])]
  BY <1>1, Zenon DEF IsWay
<1>3. at = [n \in 0 .. Len(path) |-> IF n = 0 THEN 0 ELSE Onward(d, at[n - 1], path[n])]
  BY <1>2, Zenon
<1>4. IsWay(at, d, path, Len(path))
  BY <1>3, Zenon DEF IsWay
<1>5. LedOn(d, path) = at[Len(path)]
  BY Zenon DEF LedOn, Follow, Onward
<1> QED
  BY <1>4, <1>5, Zenon

\* The root is where the empty path leads, and each part is looked up where those before
\* it lead.
LEMMA LedNext ==
  ASSUME NEW d, NEW S, NEW path \in Seq(S), NEW name
  PROVE  /\ LedOn(d, <<>>) = 0
         /\ LedOn(d, Append(path, name)) = Onward(d, LedOn(d, path), name)
<1> DEFINE long == Append(path, name)
           m == Len(path)
<1>1. m \in Nat /\ long \in Seq(S \cup {name}) /\ Len(long) = m + 1 /\ long[m + 1] = name
      /\ \A n \in 1 .. m : long[n] = path[n]
  OBVIOUS
<1>2. LedOn(d, <<>>) = 0
  <2>1. Len(<<>>) = 0
    OBVIOUS
  <2>2. PICK at : IsWay(at, d, <<>>, 0) /\ LedOn(d, <<>>) = at[0]
    BY <2>1, LedIs
  <2> QED
    BY <2>2 DEF IsWay
<1>3. PICK at : IsWay(at, d, path, m) /\ LedOn(d, path) = at[m]
  BY <1>1, LedIs
<1> HIDE DEF long, m
<1>4. PICK bt : IsWay(bt, d, long, m + 1) /\ LedOn(d, long) = bt[m + 1]
  <2>1. Len(long) = m + 1 /\ Len(long) \in Nat
    BY <1>1
  <2> QED
    BY <2>1, LedIs
<1>5. \A n \in 0 .. m : at[n] = IF n = 0 THEN 0 ELSE Onward(d, at[n - 1], path[n])
  BY <1>3 DEF IsWay
<1>6. \A n \in 0 .. m + 1 : bt[n] = IF n = 0 THEN 0 ELSE Onward(d, bt[n - 1], long[n])
  BY <1>4 DEF IsWay
<1> DEFINE T == { n \in 0 .. m : at[n] # bt[n] }
<1>7. T = {}
  <2> SUFFICES ASSUME T # {} PROVE FALSE
    OBVIOUS
  <2>1. PICK n \in T : \A k \in T : n <= k
    <3>1. T \subseteq Nat
      BY <1>1
    <3> QED
      BY <3>1, LeastNat
  <2>2. n \in 0 .. m /\ at[n] # bt[n]
    OBVIOUS
  <2>3. n # 0
    BY <1>1, <1>5, <1>6, <2>2
  <2>4. n - 1 \in 0 .. m /\ at[n - 1] = bt[n - 1]
    BY <1>1, <2>1, <2>2, <2>3
  <2>5. at[n] = Onward(d, at[n - 1], path[n]) /\ bt[n] = Onward(d, bt[n - 1], long[n])
    BY <1>1, <1>5, <1>6, <2>2, <2>3
  <2> QED
    BY <1>1, <2>2, <2>3, <2>4, <2>5
<1>8. at[m] = bt[m] /\ bt[m + 1] = Onward(d, bt[m], name)
  <2>1. m \in 0 .. m /\ m + 1 \in 0 .. m + 1 /\ m + 1 # 0 /\ (m + 1) - 1 = m
    BY <1>1
  <2> QED
    BY <1>1, <1>6, <1>7, <2>1
<1> QED
  BY <1>2, <1>3, <1>4, <1>8 DEF long

-----------------------------------------------------------------------------
(* The invariant in each step of ata_read, ata_write and the drive.        *)

\* The shell stays where it is, on the same disk.
LEMMA SamePlace ==
  ASSUME first' = first, Wanders,
         UNCHANGED <<mounted, current_dir_cluster, current_path>>
  PROVE  Wanders'
BY SameVolume DEF Wanders

LEMMA SameMedium ==
  ASSUME UNCHANGED <<first, medium>>, MediumOK(medium) PROVE MediumOK(medium)'
BY SameVolume

\* The data saved are on the disk still, while the drive writes nothing.
LEMMA SavedStay ==
  ASSUME UNCHANGED <<first, medium>>, SavedOK, saved' \subseteq saved,
         drive.state # "writing" \/ drive' = drive
  PROVE  SavedOK'
<1> SUFFICES ASSUME NEW s \in saved' PROVE IsSaved(s)'
  BY DEF SavedOK
<1>1. IsSaved(s)
  BY DEF SavedOK
<1>2. V' = V /\ (Given(medium, s[1]) => Given(medium, s[1])')
  BY SameVolume
<1> QED
  BY <1>1, <1>2 DEF IsSaved

LEMMA SameMarking ==
  ASSUME UNCHANGED <<first, medium>>, NEW c, NEW lba, NEW data, Marking(c, lba, data)
  PROVE  Marking(c, lba, data)'
<1>1. SeemsFree(medium, c)' /\ FatLba(c)' = FatLba(c)
  BY SameVolume DEF Marking
<1> QED
  BY <1>1 DEF Marking

LEMMA KeepsIssue ==
  ASSUME TypeInv, Keeps, late = 0, late' = 0, Issue,
         UNCHANGED <<shell, output, job, buffer, first, saved>>
  PROVE  Keeps'
<1> USE DEF shell
<1>1. ~Busy
  BY AtaAssumption DEF Issue, Late
<1>2. /\ UNCHANGED medium /\ drive.state # "writing" /\ drive'.state # "writing"
  BY <1>1 DEF Issue, Busy, Command, AtRest
<1>3. /\ call.step = "ready" /\ call'.step = "data" /\ ~call'.missed
      /\ call'.op = call.op /\ call'.lba = call.lba /\ call'.data = call.data
  <2>1. call' = [call EXCEPT !.step = "data", !.missed = Busy] /\ call.step = "ready"
    BY DEF Issue
  <2>2. call = [op |-> call.op, lba |-> call.lba, data |-> call.data,
                step |-> call.step, missed |-> call.missed]
    BY DEF TypeInv, DiskInv, CallRecord
  <2> QED
    BY <2>1, <2>2, <1>1
<1>4. V' = V /\ (IsVolume' <=> IsVolume) /\ \A c : FatLba(c)' = FatLba(c)
  BY SameVolume
<1>5. VolumeOK'
  BY <1>2, <1>4 DEF Keeps, VolumeOK
<1>6. MediumOK(medium)' /\ Wanders'
  BY <1>2, SameMedium, SamePlace DEF Keeps
<1>7. PendingOK' /\ SavedOK'
  BY <1>2, SavedStay DEF Keeps, PendingOK
<1>8. CallOK'
  BY <1>3, <1>4 DEF Keeps, CallOK
<1>9. SetOK'
  BY <1>2, SameVolume DEF Keeps, SetOK
<1>10. MarkOK'
  BY <1>2, <1>3, <1>4, SameMarking DEF Keeps, MarkOK
<1>11. SaveOK'
  <2> SUFFICES ASSUME job.cmd = "save" PROVE SaveOK'
    BY DEF SaveOK
  <2>1. Given(medium, job.cluster)
    BY <1>2, <1>3 DEF Keeps, SaveOK, IsMarked
  <2>2. Given(medium, job.cluster)'
    BY <1>2, <2>1, SameVolume
  <2> QED
    BY <1>2, <1>3, <1>4, <2>2 DEF Keeps, SaveOK
<1>12. FreshOK'
  BY DEF Keeps, FreshOK
<1> QED
  BY <1>5, <1>6, <1>7, <1>8, <1>9, <1>10, <1>11, <1>12 DEF Keeps

LEMMA KeepsTransfer ==
  ASSUME TypeInv, Keeps, late = 0, late' = 0, Transfer,
         UNCHANGED <<shell, output, job, buffer, first, saved>>
  PROVE  Keeps'
<1> USE DEF shell
<1>1. Asks
  <2>1. Late(~Asks)
    BY Zenon DEF Transfer
  <2> QED
    BY <2>1, AtaAssumption DEF Late
<1>2. UNCHANGED medium /\ drive.state # "writing" /\ call.step = "data" /\ ~call.missed
  BY <1>1 DEF Transfer, Asks, Keeps, CallOK
<1>3. /\ call'.step = "done" /\ ~call'.missed /\ call'.op = call.op /\ call'.lba = call.lba
      /\ call.op = "write" => call'.data = call.data
  <2>1. PICK d : /\ call' = [call EXCEPT !.step = "done", !.missed = call.missed \/ ~Asks, !.data = d]
                 /\ call.op = "write" => d = call.data
    BY <1>2 DEF Transfer
  <2>2. call = [op |-> call.op, lba |-> call.lba, data |-> call.data,
                step |-> call.step, missed |-> call.missed]
    BY DEF TypeInv, DiskInv, CallRecord
  <2> QED
    BY <2>1, <2>2, <1>1, <1>2
<1>4. /\ drive.lba = call.lba
      /\ call.op = "read" => drive.state = "to read"
      /\ call.op = "write" => drive.state = "to write"
      /\ call.op \in {"read", "write"}
  BY <1>1, <1>2 DEF TypeInv, DiskInv, CallInv, CallRecord, Asks
<1>5. /\ call.op = "read" => drive'.state # "writing"
      /\ call.op = "write" => /\ drive'.state = "writing"
                              /\ drive'.lba = call.lba /\ drive'.data = call.data
  <2>1. drive = [state |-> drive.state, lba |-> drive.lba, data |-> drive.data]
    BY DEF TypeInv, DiskInv, DriveInv
  <2>2. /\ call.op = "read" => drive' = AtRest
        /\ call.op = "write" => drive' = [drive EXCEPT !.state = "writing", !.data = call.data]
    BY <1>4 DEF Transfer
  <2>3. AtRest.state = "idle"
    BY DEF AtRest
  <2>4. ASSUME call.op = "write", NEW r, r = drive, drive' = [r EXCEPT !.state = "writing", !.data = call.data]
        PROVE  drive'.state = "writing" /\ drive'.lba = call.lba /\ drive'.data = call.data
    BY <1>4, <2>1, <2>4
  <2> QED
    BY <2>2, <2>3, <2>4
<1>6. V' = V /\ (IsVolume' <=> IsVolume) /\ \A c : FatLba(c)' = FatLba(c)
  BY SameVolume
<1>7. job.cmd # "none" /\ (call.op = "write" <=> job.cmd \in {"mark", "save"})
  BY <1>2 DEF TypeInv, JobInv, Keeps, CallOK
<1>8. VolumeOK'
  BY <1>2, <1>4, <1>5, <1>6, <1>7 DEF Keeps, VolumeOK, CallOK
<1>9. MediumOK(medium)' /\ Wanders'
  BY <1>2, SameMedium, SamePlace DEF Keeps
<1>10. SavedOK'
  BY <1>2, SavedStay DEF Keeps
<1>11. CallOK'
  BY <1>3, <1>6 DEF Keeps, CallOK
<1>12. SetOK'
  BY <1>2, <1>4, <1>5, <1>7, SameVolume DEF Keeps, SetOK
<1>13. ASSUME job.cmd = "mark"
       PROVE  drive'.state = "writing" /\ Marking(job.cluster, drive.lba, drive.data)'
  <2>1. Marking(job.cluster, call.lba, call.data) /\ call.op = "write"
    BY <1>2, <1>7, <1>13 DEF Keeps, MarkOK
  <2>2. Marking(job.cluster, call.lba, call.data)'
    BY <1>2, <2>1, SameVolume, <1>3 DEF Marking
  <2> QED
    BY <1>3, <1>5, <2>1, <2>2
<1>14. MarkOK'
  BY <1>3, <1>6, <1>13 DEF Keeps, MarkOK, IsMarked
<1>15. SaveOK'
  BY <1>2, <1>3, <1>6, <1>7, SameVolume DEF Keeps, SaveOK
<1>16. FreshOK'
  BY DEF Keeps, FreshOK
<1>17. PendingOK'
  <2> SUFFICES ASSUME drive'.state = "writing" PROVE Marks' \/ PutsData'
    BY DEF PendingOK
  <2>1. job.cmd \in {"mark", "save"} /\ call.op = "write"
    BY <1>4, <1>5, <1>7
  <2>2. CASE job.cmd = "mark"
    BY <1>13, <2>2 DEF Marks
  <2>3. CASE job.cmd = "save"
    <3>1. Given(medium, job.cluster) /\ call.lba = Sector(V, job.cluster)
      BY <1>2, <2>3 DEF Keeps, SaveOK
    <3>2. job.cluster \in Clusters /\ \A s \in saved : s[1] # job.cluster
      BY <2>3 DEF TypeInv, JobInv, Keeps, FreshOK, Clusters
    <3>3. Given(medium, job.cluster)' /\ drive'.lba = Sector(V, job.cluster)'
      BY <1>2, <1>5, <1>6, <2>1, <3>1, SameVolume
    <3> QED
      BY <3>2, <3>3 DEF PutsData
  <2> QED
    BY <2>1, <2>2, <2>3
<1> QED
  BY <1>8, <1>9, <1>10, <1>11, <1>12, <1>14, <1>15, <1>16, <1>17 DEF Keeps

\* The drive writes what it was given.
LEMMA KeepsWriting ==
  ASSUME TypeInv, Keeps, drive.state = "writing",
         medium' = [medium EXCEPT ![drive.lba] = drive.data], drive' = AtRest,
         UNCHANGED <<call, late, shell, output, job, buffer, first, saved>>
  PROVE  Keeps'
<1> USE DEF shell
<1>1. IsVolume /\ drive.lba \in Lbas /\ drive'.state # "writing"
  BY DEF Keeps, VolumeOK, TypeInv, DiskInv, DriveInv, AtRest
<1>2. PICK S : medium \in [Lbas -> S]
  BY DEF TypeInv, DiskInv, DriveInv
<1>3. V' = V /\ (IsVolume' <=> IsVolume) /\ \A c : FatLba(c)' = FatLba(c)
  BY SameVolume
<1>4. MediumOK(medium)
  BY DEF Keeps
\* Either way what was given out stays so, and what is saved is there.
<1>5. /\ MediumOK(medium') /\ \A c \in Clusters : Given(medium, c) => Given(medium', c)
      /\ SavedOK' /\ SetOK' /\ MarkOK' /\ SaveOK'
  <2>0. job.cmd # "set" /\ (job.cmd = "mark" => call.step = "done" /\ IsMarked(job.cluster))
    BY DEF Keeps, SetOK, MarkOK
  <2>1. CASE Marks
    <3>0. PICK c : c = job.cluster
      OBVIOUS
    <3>1. c \in Clusters /\ SeemsFree(medium, c) /\ drive.lba = FatLba(c)
      BY <2>1, <3>0 DEF Marks, Marking, TypeInv, JobInv, Clusters
    <3>2. medium' = WithMark(medium, c)
      BY <2>1, <3>0, Zenon DEF Marks, Marking, WithMark
    <3>3. /\ MediumOK(medium') /\ Given(medium', c)
          /\ \A b \in Clusters : Given(medium, b) => Given(medium', b)
          /\ \A l \in Lbas : l \notin FatRange => medium'[l] = medium[l]
      <4>1. /\ MediumOK(WithMark(medium, c)) /\ Given(WithMark(medium, c), c)
            /\ \A b \in Clusters : Given(medium, b) => Given(WithMark(medium, c), b)
            /\ \A l \in Lbas : l \notin FatRange => WithMark(medium, c)[l] = medium[l]
        BY <1>1, <1>2, <1>4, <3>1, MarkKeeps, Zenon
      <4> QED
        BY <3>2, <4>1, Zenon
    <3>4. SavedOK'
      <4> SUFFICES ASSUME NEW s \in saved PROVE IsSaved(s)'
        BY DEF SavedOK
      <4>1. IsSaved(s)
        BY DEF Keeps, SavedOK
      <4>2. s[1] \in Clusters /\ Given(medium, s[1]) /\ Sector(V, s[1]) \in Lbas
        BY <4>1 DEF IsSaved
      <4>3. Sector(V, s[1]) \notin FatRange /\ drive.lba \in FatRange
        <5>1. s[1] \in Nat \ {0, 1}
          BY <4>2, ClustersAre
        <5>2. FatLba(c) \in FatRange
          BY <1>1, <3>1, FatLbaIn
        <5> QED
          BY <1>1, <3>1, <5>1, <5>2, SectorsApart
      <4>4. medium'[Sector(V, s[1])] = s[2]
        BY <3>3, <4>1, <4>2, <4>3 DEF IsSaved
      <4>5. Given(medium, s[1])'
        BY <3>3, <4>2, SameVolume, Zenon
      <4> QED
        BY <1>3, <4>2, <4>4, <4>5 DEF IsSaved
    <3>5. Given(medium, c)'
      BY <3>3, SameVolume, Zenon
    <3>6. MarkOK' /\ SaveOK'
      BY <1>1, <1>3, <2>0, <3>0, <3>5 DEF Keeps, MarkOK, SaveOK, IsMarked
    <3> QED
      BY <2>0, <3>3, <3>4, <3>6 DEF SetOK
  <2>2. CASE PutsData
    <3>1. PICK c \in Clusters : /\ drive.lba = Sector(V, c) /\ Given(medium, c)
                                /\ \A s \in saved : s[1] = c => s[2] = drive.data
      BY <2>2 DEF PutsData
    <3>2. /\ MediumOK(medium')
          /\ \A b \in Clusters : Given(medium, b) => Given(medium', b)
      BY <1>1, <1>2, <1>4, <3>1, SaveKeeps, Zenon
    <3>3. SavedOK'
      <4> SUFFICES ASSUME NEW s \in saved PROVE IsSaved(s)'
        BY DEF SavedOK
      <4>1. IsSaved(s)
        BY DEF Keeps, SavedOK
      <4>2. s[1] \in Clusters /\ Given(medium, s[1]) /\ Sector(V, s[1]) \in Lbas
        BY <4>1 DEF IsSaved
      <4>3. Sector(V, s[1]) = Sector(V, c) => s[1] = c
        BY <1>1, <3>1, <4>2, ClustersAre, SectorsApart
      <4>4. medium'[Sector(V, s[1])] = s[2]
        <5>1. CASE s[1] = c
          BY <1>1, <1>2, <3>1, <5>1
        <5>2. CASE s[1] # c
          BY <1>1, <1>2, <3>1, <4>1, <4>2, <4>3, <5>2 DEF IsSaved
        <5> QED
          BY <5>1, <5>2
      <4>5. Given(medium, s[1])'
        BY <3>2, <4>2, SameVolume, Zenon
      <4> QED
        BY <1>3, <4>2, <4>4, <4>5 DEF IsSaved
    <3>4. ASSUME Marking(job.cluster, drive.lba, drive.data), job.cmd \in {"mark", "save"} PROVE FALSE
      <4>1. job.cluster \in Clusters /\ drive.lba = FatLba(job.cluster)
        BY <3>4 DEF Marking, TypeInv, JobInv, Clusters
      <4> QED
        <5>1. c \in Nat \ {0, 1}
          BY ClustersAre
        <5>2. FatLba(job.cluster) \in FatRange
          BY <1>1, <4>1, FatLbaIn
        <5> QED
          BY <1>1, <3>1, <4>1, <5>1, <5>2, SectorsApart
    <3>5. job.cmd # "mark"
      BY <2>0, <3>4 DEF IsMarked
    <3>6. SaveOK'
      <4> SUFFICES ASSUME job.cmd = "save" PROVE SaveOK'
        BY DEF SaveOK
      <4>1. call.step # "ready" /\ Given(medium, job.cluster) /\ job.cluster \in Clusters
        BY <3>4 DEF Keeps, SaveOK, IsMarked, TypeInv, JobInv, Clusters
      <4>2. Given(medium, job.cluster)'
        BY <3>2, <4>1, SameVolume, Zenon
      <4> QED
        BY <1>3, <4>1, <4>2 DEF Keeps, SaveOK
    <3> QED
      BY <2>0, <3>2, <3>3, <3>5, <3>6 DEF SetOK, MarkOK
  <2> QED
    BY <2>1, <2>2 DEF Keeps, PendingOK
<1>6. MediumOK(medium)'
  BY <1>5, SameVolume, Zenon
<1>7. VolumeOK'
  BY <1>1, <1>3 DEF Keeps, VolumeOK
<1>8. Wanders'
  BY SamePlace DEF Keeps
<1>9. CallOK' /\ FreshOK' /\ PendingOK'
  BY <1>1, <1>3 DEF Keeps, CallOK, FreshOK, PendingOK
<1> QED
  BY <1>5, <1>6, <1>7, <1>8, <1>9 DEF Keeps

LEMMA KeepsDrive ==
  ASSUME TypeInv, Keeps, DriveStep,
         UNCHANGED <<shell, output, job, buffer, first, saved>>
  PROVE  Keeps'
<1> USE DEF shell
<1>1. UNCHANGED <<call, late>>
  BY DEF DriveStep
<1>2. CASE drive.state = "writing"
  BY <1>1, <1>2, KeepsWriting DEF DriveStep
<1>3. CASE drive.state # "writing"
  <2>1. UNCHANGED medium /\ drive'.state # "writing"
    <3>1. drive = [state |-> drive.state, lba |-> drive.lba, data |-> drive.data]
      BY DEF TypeInv, DiskInv, DriveInv
    <3>2. ASSUME NEW r, r = drive, drive' = [r EXCEPT !.state = "to write"] PROVE drive'.state = "to write"
      BY <3>1, <3>2
    <3>3. ASSUME NEW r, r = drive, drive' = [r EXCEPT !.state = "to read", !.data = medium[drive.lba]]
          PROVE drive'.state = "to read"
      BY <3>1, <3>3
    <3> QED
      BY <1>3, <3>2, <3>3 DEF DriveStep, Busy
  <2>2. V' = V /\ (IsVolume' <=> IsVolume) /\ \A c : FatLba(c)' = FatLba(c)
    BY SameVolume
  <2>3. VolumeOK' /\ MediumOK(medium)' /\ PendingOK' /\ SavedOK' /\ Wanders'
    BY <1>3, <2>1, <2>2, SameMedium, SavedStay, SamePlace DEF Keeps, VolumeOK, PendingOK
  <2>4. CallOK' /\ FreshOK'
    BY <1>1, <2>2 DEF Keeps, CallOK, FreshOK
  <2>5. SetOK'
    BY <2>1, SameVolume DEF Keeps, SetOK
  <2>6. \A c : IsMarked(c) => IsMarked(c)'
    BY <1>3, <2>1, SameVolume DEF IsMarked
  <2>7. MarkOK'
    BY <1>1, <2>1, <2>2, <2>6, SameMarking DEF Keeps, MarkOK
  <2>8. SaveOK'
    BY <1>1, <2>1, <2>2, <2>6, SameVolume DEF Keeps, SaveOK
  <2> QED
    BY <2>3, <2>4, <2>5, <2>7, <2>8 DEF Keeps
<1> QED
  BY <1>2, <1>3

-----------------------------------------------------------------------------
(* The invariant in the steps of the commands.                             *)

\* A sector read in time is what is on the disk.
LEMMA ReadInTime ==
  ASSUME TypeInv, Keeps, call.step = "done", job.cmd \notin {"mark", "save"}
  PROVE  /\ drive.state = "idle" /\ call.lba \in Lbas /\ medium[call.lba] = call.data
<1>1. call.op # "write" /\ ~call.missed
  BY DEF TypeInv, JobInv, Keeps, CallOK
<1> QED
  BY <1>1 DEF TypeInv, DiskInv, CallInv

\* A command that is not a save leaves everything to the drive.
LEMMA KeepsCommand ==
  ASSUME Keeps, UNCHANGED <<first, medium, drive, saved>>,
         drive.state = "writing" => PutsData,
         VolumeOK', Wanders', CallOK', job'.cmd \notin {"set", "mark", "save"}
  PROVE  Keeps'
<1>1. V' = V
  BY SameVolume
<1>2. PutsData => PutsData'
  BY <1>1, SameVolume DEF PutsData
<1>3. PendingOK'
  BY <1>2 DEF PendingOK
<1>4. MediumOK(medium)' /\ SavedOK'
  BY SameMedium, SavedStay DEF Keeps
<1>5. SetOK' /\ MarkOK' /\ SaveOK' /\ FreshOK'
  BY DEF SetOK, MarkOK, SaveOK, FreshOK
<1> QED
  BY <1>3, <1>4, <1>5 DEF Keeps

LEMMA NoMarks ==
  ASSUME Keeps, job.cmd \notin {"mark", "save"} PROVE drive.state = "writing" => PutsData
BY DEF Keeps, PendingOK, Marks

LEMMA SameVolumeOK ==
  ASSUME VolumeOK, UNCHANGED <<first, medium, drive, saved, mounted, volume>> PROVE VolumeOK'
BY SameVolume DEF VolumeOK

LEMMA ReturnCallOK == ASSUME job' = NoJob, call' = NoCall PROVE CallOK'
BY DEF CallOK, NoJob, NoCall

\* A command that waits for a key asks for the sector it begins with.
LEMMA KeepsAsked ==
  ASSUME TypeInv, Keeps,
         Mount \/ Save \/ (\E cmd \in {"ls"} : ReadDirectory(cmd, <<>>))
           \/ (\E name \in Typed, cmd \in {"cd", "cat", "edit"} : ReadDirectory(cmd, name)),
         first' = first
  PROVE  Keeps'
<1>1. UNCHANGED <<medium, drive, late, saved, mounted, volume, current_dir_cluster, current_path>>
      /\ job = NoJob
  BY DEF Mount, Save, ReadDirectory, Rest, shell, Prompt, AtKey
<1>2. V' = V /\ FatLba(2)' = FatLba(2)
  BY SameVolume
<1>3. job.cmd \notin {"mark", "save"}
  BY <1>1 DEF NoJob
<1>4. VolumeOK' /\ Wanders'
  BY <1>1, SameVolumeOK, SamePlace DEF Keeps
<1>5. CallOK' /\ job'.cmd \notin {"set", "mark", "save"}
  <2>1. CASE Mount
    BY <2>1 DEF Mount, At, ata_read, ata, CallOK
  <2>2. CASE Save /\ mounted
    <3>1. volume = V /\ mounted'
      BY <1>1, <2>2 DEF Keeps, VolumeOK
    <3>2. job' = [cmd |-> "get", name |-> <<>>, cluster |-> 2, size |-> 0]
      BY <2>2 DEF Save, At
    <3>3. call' = [op |-> "read", lba |-> FatLba(2), data |-> NoData, step |-> "ready", missed |-> FALSE]
      BY <2>2, <3>1 DEF Save, ata_read, ata, FatLba
    <3> QED
      BY <1>2, <3>1, <3>2, <3>3 DEF CallOK
  <2>3. CASE Save /\ ~mounted
    <3>1. UNCHANGED <<job, call>>
      BY <2>3 DEF Save
    <3> QED
      BY <1>1, <3>1 DEF Keeps, CallOK, NoJob
  <2>4. ASSUME NEW cmd \in {"ls", "cd", "cat", "edit"}, NEW name, ReadDirectory(cmd, name)
        PROVE  CallOK' /\ job'.cmd \notin {"set", "mark", "save"}
    <3>1. volume = V /\ mounted' /\ current_dir_cluster' = current_dir_cluster
      BY <1>1, <2>4 DEF Keeps, VolumeOK, ReadDirectory
    <3>2. job' = [cmd |-> cmd, name |-> name, cluster |-> 0, size |-> 0] /\ output' = Nothing
      BY <2>4 DEF ReadDirectory, At
    <3>3. call' = [op |-> "read", lba |-> DirSector(V, current_dir_cluster), data |-> NoData,
                   step |-> "ready", missed |-> FALSE]
      BY <2>4, <3>1 DEF ReadDirectory, ata_read, ata
    <3>4. Nothing' = Nothing
      BY DEF Nothing, Says
    <3> QED
      BY <1>2, <3>1, <3>2, <3>3, <3>4 DEF CallOK
  <2> QED
    BY <2>1, <2>2, <2>3, <2>4
<1> QED
  BY <1>1, <1>3, <1>4, <1>5, KeepsCommand, NoMarks

\* The commands that have their sector, and return where they were.
LEMMA KeepsDone ==
  ASSUME TypeInv, Keeps, Listed \/ Printed \/ Opened, first' = first
  PROVE  Keeps'
<1>1. /\ UNCHANGED <<medium, drive, late, saved, mounted, volume, current_dir_cluster, current_path>>
      /\ job' = NoJob /\ call' = NoCall /\ job.cmd \notin {"mark", "save"}
  BY DEF Listed, Printed, Opened, Rest, shell, Return, Got
<1>2. job'.cmd \notin {"set", "mark", "save"}
  BY <1>1 DEF NoJob
<1> QED
  BY <1>1, <1>2, KeepsCommand, NoMarks, SameVolumeOK, SamePlace, ReturnCallOK DEF Keeps

\* mount finds the volume of the disk, and goes to its root.
LEMMA KeepsMounted ==
  ASSUME TypeInv, Keeps, Mounted, first' = first
  PROVE  Keeps'
<1>1. /\ UNCHANGED <<medium, drive, late, saved>>
      /\ job' = NoJob /\ call' = NoCall /\ job.cmd = "mount" /\ call.step = "done"
  BY DEF Mounted, Rest, Return, Got
<1>2. job'.cmd \notin {"set", "mark", "save"} /\ CallOK'
  BY <1>1, ReturnCallOK DEF NoJob
<1>3. CASE UNCHANGED shell
  BY <1>1, <1>2, <1>3, KeepsCommand, NoMarks, SameVolumeOK, SamePlace DEF Keeps, shell
<1>4. CASE ~UNCHANGED shell
  <2>1. /\ call.data[1] = "boot" /\ mounted' = TRUE /\ volume' = Volume(call.data[2])
        /\ current_dir_cluster' = 0 /\ current_path' = <<>>
    BY <1>4, Zenon DEF Mounted
  <2>2. call.data = first[0]
    <3>1. call.lba = 0
      BY <1>1 DEF Keeps, CallOK
    <3>2. medium[call.lba] = call.data
      BY <1>1, ReadInTime
    <3>3. medium[0] = first[0]
      BY BootKept DEF Keeps
    <3> QED
      BY <3>1, <3>2, <3>3
  <2>3. IsVolume /\ volume' = V
    BY <2>1, <2>2 DEF Keeps, VolumeOK, IsVolume, V, FirstVolume, VolumeOf
  <2>4. V' = V /\ (IsVolume' <=> IsVolume) /\ Led(<<>>)' = Led(<<>>)
    BY SameVolume
  <2>5. VolumeOK'
    BY <1>1, <2>1, <2>3, <2>4 DEF Keeps, VolumeOK
  <2>6. Led(<<>>) = 0
    <3>1. <<>> \in Seq({})
      OBVIOUS
    <3> QED
      BY <3>1, LedNext DEF Led
  <2>7. Wanders'
    BY <2>1, <2>4, <2>6 DEF Wanders, IsDirectory
  <2> QED
    BY <1>1, <1>2, <2>5, <2>7, KeepsCommand, NoMarks
<1> QED
  BY <1>3, <1>4

\* The sector of a directory that was asked for, as it was at first.
LEMMA ReadDirectoryInTime ==
  ASSUME TypeInv, Keeps, call.step = "done", job.cmd \in {"ls", "cd", "cat", "edit"}
  PROVE  /\ IsVolume /\ mounted /\ volume = V
         /\ DirSector(V, current_dir_cluster) \in Lbas
         /\ call.data = first[DirSector(V, current_dir_cluster)]
<1>1. mounted /\ IsVolume /\ volume = V
  BY DEF Keeps, CallOK, VolumeOK
<1>2. IsDirectory(current_dir_cluster) /\ DataKept(medium)
  BY <1>1 DEF Keeps, Wanders, MediumOK
<1>3. call.lba = DirSector(V, current_dir_cluster) /\ medium[call.lba] = call.data
  BY ReadInTime DEF Keeps, CallOK
<1> QED
  BY <1>1, <1>2, <1>3, DirectoryKept

LEMMA KeepsChangedDirectory ==
  ASSUME TypeInv, Keeps, ChangedDirectory, first' = first
  PROVE  Keeps'
<1>1. /\ UNCHANGED <<medium, drive, late, saved, mounted, volume>>
      /\ job' = NoJob /\ call' = NoCall /\ job.cmd = "cd" /\ call.step = "done"
  BY DEF ChangedDirectory, Rest, Return, Got, shell
<1>2. job'.cmd \notin {"set", "mark", "save"} /\ CallOK' /\ VolumeOK'
  BY <1>1, ReturnCallOK, SameVolumeOK DEF NoJob, Keeps
<1>3. CASE UNCHANGED shell
  BY <1>1, <1>2, <1>3, KeepsCommand, NoMarks, SamePlace DEF Keeps, shell
<1>4. CASE ~UNCHANGED shell
  <2> DEFINE es == EntriesIn(call.data)
             i == FindDirectory(es, job.name)
             d == current_dir_cluster
  <2>1. /\ i # 0 /\ current_dir_cluster' = es[i].cluster
        /\ current_path' = Append(current_path, job.name)
    BY <1>4, Zenon DEF ChangedDirectory
  <2>2. /\ IsVolume /\ mounted /\ DirSector(V, d) \in Lbas
        /\ call.data = first[DirSector(V, d)]
    BY <1>1, ReadDirectoryInTime
  <2>3. es = EntriesIn(first[DirSector(V, d)])
    BY <2>2
  <2>4. IsDirectory(es[i].cluster)
    BY <2>1, <2>2, <2>3, FoundDirectory
  <2>5. Led(current_path) = d /\ d # -1 /\ current_path \in Seq(Typed)
    BY <2>2 DEF Keeps, Wanders, IsDirectory, TypeInv, ShellInv
  <2>6. Led(Append(current_path, job.name)) = Onward(first, Led(current_path), job.name)
    BY <2>5, LedNext, Zenon DEF Led
  <2>7. Onward(first, d, job.name) = es[i].cluster
    BY <2>1, <2>3, <2>5 DEF Onward, V, FirstVolume
  <2> HIDE DEF es, i, d
  <2>8. Led(Append(current_path, job.name)) = es[i].cluster
    BY <2>5, <2>6, <2>7
  <2>9. Led(current_path)' = es[i].cluster
    <3>1. Led(current_path)' = LedOn(first', current_path')
      BY DEF Led
    <3>2. Led(current_path)' = LedOn(first, Append(current_path, job.name))
      BY <3>1, <2>1
    <3> QED
      BY <3>2, <2>8 DEF Led
  <2>10. IsDirectory(current_dir_cluster)'
    BY <2>1, <2>4, SameVolume
  <2>11. Wanders'
    BY <2>1, <2>9, <2>10 DEF Wanders
  <2> QED
    BY <1>1, <1>2, <2>11, KeepsCommand, NoMarks
<1> QED
  BY <1>3, <1>4

LEMMA KeepsFound ==
  ASSUME TypeInv, Keeps, FileFound \/ EditFound, first' = first
  PROVE  Keeps'
<1>1. /\ UNCHANGED <<medium, drive, late, saved, mounted, volume, current_dir_cluster, current_path>>
      /\ job.cmd \in {"cat", "edit"}
  BY DEF FileFound, EditFound, Rest, Got, shell
<1>2. VolumeOK' /\ Wanders' /\ mounted
  BY <1>1, SameVolumeOK, SamePlace DEF Keeps, CallOK
<1>3. ASSUME job' = NoJob, call' = NoCall PROVE CallOK' /\ job'.cmd \notin {"set", "mark", "save"}
  BY <1>3, ReturnCallOK DEF NoJob
<1>4. ASSUME NEW cmd \in {"print", "open"}, NEW e, NEW lba, AtFile(cmd, e), ata_read(lba)
      PROVE  CallOK' /\ job'.cmd \notin {"set", "mark", "save"}
  <2>1. job'.cmd = cmd /\ call'.op = "read" /\ ~call'.missed
    BY <1>4 DEF AtFile, ata_read, ata
  <2> QED
    BY <1>1, <1>2, <2>1 DEF CallOK
<1>5. CallOK' /\ job'.cmd \notin {"set", "mark", "save"}
  BY <1>3, <1>4, Zenon DEF FileFound, EditFound, Return
<1> QED
  BY <1>1, <1>2, <1>5, KeepsCommand, NoMarks

\* Nothing is called.
LEMMA KeepsIdle ==
  ASSUME TypeInv, Keeps,
         Refused \/ cd_home \/ pwd \/ EditNothing \/ Type \/ Quit \/ UNCHANGED vars,
         first' = first
  PROVE  Keeps'
<1>1. UNCHANGED <<medium, drive, call, late, saved, job, mounted, volume>>
  BY DEF Refused, cd_home, pwd, EditNothing, Type, Quit, vars, diskVars, shell
<1>2. CASE UNCHANGED vars
  <2>1. UNCHANGED <<buffer, output, current_dir_cluster, current_path>>
    BY <1>2 DEF vars, shell
  <2>2. V' = V /\ \A c : FatLba(c)' = FatLba(c)
    BY SameVolume
  <2>3. VolumeOK' /\ MediumOK(medium)' /\ SavedOK' /\ Wanders'
    BY <1>1, <2>1, SameVolumeOK, SameMedium, SavedStay, SamePlace DEF Keeps
  <2>4. CallOK' /\ FreshOK'
    BY <1>1, <2>1, <2>2 DEF Keeps, CallOK, FreshOK
  <2>5. (Marks => Marks') /\ (PutsData => PutsData')
    BY <1>1, <2>2, SameVolume, SameMarking DEF Marks, PutsData
  <2>6. PendingOK' /\ SetOK'
    BY <1>1, <2>5, SameVolume DEF Keeps, PendingOK, SetOK
  <2>7. \A c : IsMarked(c) => IsMarked(c)'
    BY <1>1, SameVolume, SameMarking DEF IsMarked
  <2>8. MarkOK' /\ SaveOK'
    BY <1>1, <2>1, <2>2, <2>7, SameVolume, SameMarking DEF Keeps, MarkOK, SaveOK
  <2> QED
    BY <2>3, <2>4, <2>6, <2>8 DEF Keeps
<1>3. CASE Refused \/ cd_home \/ pwd \/ EditNothing \/ Type \/ Quit
  <2>1. job.cmd = "none"
    <3>1. job = NoJob
      BY <1>3, Zenon DEF Refused, cd_home, pwd, EditNothing, Type, Quit, Prompt, AtKey
    <3> QED
      BY <3>1 DEF NoJob
  <2>2. CallOK' /\ VolumeOK'
    BY <1>1, <2>1, SameVolumeOK DEF Keeps, CallOK
  <2>3. Wanders'
    <3>1. CASE cd_home
      <4>1. current_dir_cluster' = 0 /\ current_path' = <<>>
        BY <3>1 DEF cd_home
      <4>2. Led(<<>>)' = 0
        <5>1. <<>> \in Seq({})
          OBVIOUS
        <5> QED
          BY <5>1, LedNext, SameVolume DEF Led
      <4> QED
        BY <4>1, <4>2 DEF Wanders, IsDirectory
    <3>2. CASE UNCHANGED <<current_dir_cluster, current_path>>
      BY <1>1, <3>2, SamePlace DEF Keeps
    <3> QED
      BY <1>3, <3>1, <3>2 DEF Refused, pwd, EditNothing, Type, Quit, shell
  <2> QED
    BY <1>1, <2>1, <2>2, <2>3, KeepsCommand, NoMarks
<1> QED
  BY <1>2, <1>3

\* An entry whose digits read are 0 is believed free.
LEMMA ReadsAsFree ==
  ASSUME IsVolume, NEW m, NEW c \in Clusters, NEW beyond,
         fat_get_next_cluster(m[FatLba(c)], c, beyond) = Free
  PROVE  SeemsFree(m, c)
<1> SUFFICES ASSUME NEW i \in 0 .. 2, FatPlace(c) + i \in Digits PROVE Digit(m, c * 3 + i) = 0
  BY DEF SeemsFree
<1>1. c \in Nat /\ FatPlace(c) \in Int
  BY ClustersAre, FatAt DEF Digits
<1>2. fat_get_next_cluster(m[FatLba(c)], c, beyond)[i + 1] = FatIn(m[FatLba(c)])[FatPlace(c) + i]
  BY <1>1 DEF fat_get_next_cluster
<1>3. Free[i + 1] = 0
  BY DEF Free
<1>4. (c * 3 + i) \div (2 * BYTES) = FatSector(c) /\ (c * 3 + i) % (2 * BYTES) = FatPlace(c) + i
  BY <1>1, DigitAt, Zenon
<1>5. Digit(m, c * 3 + i) = FatIn(m[FatLba(c)])[FatPlace(c) + i]
  BY <1>4, Zenon DEF Digit, FatDigit, FatLba
<1> QED
  BY <1>2, <1>3, <1>5

\* The search for a free cluster goes on, ends, or has found one.
LEMMA KeepsLooked ==
  ASSUME TypeInv, Keeps, Looked, first' = first
  PROVE  Keeps'
<1> DEFINE b == job.cluster
<1>1. /\ UNCHANGED <<medium, drive, late, saved, mounted, volume, current_dir_cluster, current_path>>
      /\ job.cmd = "get" /\ call.step = "done"
  BY DEF Looked, Rest, Got, shell
<1>2. VolumeOK' /\ Wanders' /\ mounted /\ mounted' /\ volume = V /\ IsVolume
  BY <1>1, SameVolumeOK, SamePlace DEF Keeps, CallOK, VolumeOK
<1>3. b \in Clusters
  BY <1>1 DEF TypeInv, JobInv, Clusters
<1>4. drive.state = "idle" /\ call.data = medium[FatLba(b)]
  BY <1>1, ReadInTime DEF Keeps, CallOK
<1>5. ASSUME NEW cmd \in {"get", "set"}, NEW c, At(cmd, <<>>, c), ata_read(volume.fat_sector + FatSector(c))
      PROVE  CallOK' /\ job'.cmd = cmd /\ job'.cluster = c
  <2>1. job' = [cmd |-> cmd, name |-> <<>>, cluster |-> c, size |-> 0]
    BY <1>5 DEF At
  <2>2. call' = [op |-> "read", lba |-> FatLba(c), data |-> NoData, step |-> "ready", missed |-> FALSE]
    BY <1>2, <1>5 DEF ata_read, ata, FatLba
  <2>3. FatLba(job.cluster)' = FatLba(c)
    <3>1. V' = V
      BY SameVolume
    <3>2. FatLba(job.cluster)' = V'.fat_sector + FatSector(job'.cluster)
      BY DEF FatLba
    <3> QED
      BY <2>1, <3>1, <3>2 DEF FatLba
  <2> QED
    BY <1>2, <2>1, <2>2, <2>3 DEF CallOK
<1>6. \/ \E beyond : /\ fat_get_next_cluster(call.data, b, beyond) = Free
                     /\ At("set", <<>>, b) /\ ata_read(volume.fat_sector + FatSector(b))
      \/ \E c : At("get", <<>>, c) /\ ata_read(volume.fat_sector + FatSector(c))
      \/ job' = NoJob /\ call' = NoCall
  BY Zenon DEF Looked, Return
<1> HIDE DEF b
<1>7. ASSUME NEW beyond, fat_get_next_cluster(call.data, b, beyond) = Free,
             At("set", <<>>, b), ata_read(volume.fat_sector + FatSector(b))
      PROVE  Keeps'
  <2>1. CallOK' /\ job'.cmd = "set" /\ job'.cluster = b
    BY <1>5, <1>7
  <2>2. SeemsFree(medium, b)
    BY <1>2, <1>3, <1>4, <1>7, ReadsAsFree
  <2>3. SetOK'
    BY <1>1, <1>4, <2>1, <2>2, SameVolume DEF SetOK
  <2>4. ASSUME NEW s \in saved PROVE s[1] # b
    BY <2>2, GivenSeemsTaken DEF Keeps, SavedOK, IsSaved
  <2>5. FreshOK'
    BY <1>1, <2>1, <2>4 DEF FreshOK
  <2>6. MarkOK' /\ SaveOK' /\ PendingOK'
    BY <1>1, <1>4, <2>1 DEF MarkOK, SaveOK, PendingOK
  <2>7. MediumOK(medium)' /\ SavedOK'
    BY <1>1, SameMedium, SavedStay DEF Keeps
  <2> QED
    BY <1>2, <2>1, <2>3, <2>5, <2>6, <2>7 DEF Keeps
<1>8. ASSUME NEW c, At("get", <<>>, c), ata_read(volume.fat_sector + FatSector(c)) PROVE Keeps'
  <2>1. CallOK' /\ job'.cmd = "get"
    BY <1>5, <1>8
  <2> QED
    BY <1>1, <1>2, <2>1, KeepsCommand, NoMarks
<1>9. ASSUME job' = NoJob, call' = NoCall PROVE Keeps'
  <2>1. CallOK' /\ job'.cmd \notin {"set", "mark", "save"}
    BY <1>9, ReturnCallOK DEF NoJob
  <2> QED
    BY <1>1, <1>2, <2>1, KeepsCommand, NoMarks
<1> QED
  BY <1>6, <1>7, <1>8, <1>9

\* The entry goes to the drive with the rest of the sector as it was read.
LEMMA KeepsMarked ==
  ASSUME TypeInv, Keeps, Marked, first' = first
  PROVE  Keeps'
<1>0. PICK b : b = job.cluster
  OBVIOUS
<1>1. /\ UNCHANGED <<medium, drive, late, saved, mounted, volume, current_dir_cluster, current_path>>
      /\ job.cmd = "set" /\ call.step = "done"
  BY DEF Marked, Rest, Got, shell
<1>2. VolumeOK' /\ Wanders' /\ mounted /\ mounted'
  BY <1>1, SameVolumeOK, SamePlace DEF Keeps, CallOK
<1>3. drive.state = "idle" /\ call.lba = FatLba(b) /\ call.data = medium[FatLba(b)]
      /\ SeemsFree(medium, b)
  BY <1>0, <1>1, ReadInTime DEF Keeps, CallOK, SetOK
<1>4. job' = [cmd |-> "mark", name |-> <<>>, cluster |-> b, size |-> 0]
  BY <1>0 DEF Marked, At
<1>5. PICK data : data = fat_set_next_cluster(medium[FatLba(b)], b, EndOfChain)
  OBVIOUS
<1>6. call' = [op |-> "write", lba |-> FatLba(b), data |-> data, step |-> "ready", missed |-> FALSE]
  BY <1>0, <1>3, <1>5 DEF Marked, ata_write, ata
<1>7. Marking(b, FatLba(b), data)
  BY <1>3, <1>5 DEF Marking
<1>8. Marking(b, FatLba(b), data)'
  <2>1. Marking(b, FatLba(b), data)' <=>
          /\ SeemsFree(medium, b)'
          /\ data = fat_set_next_cluster(medium'[FatLba(b)'], b, EndOfChain)
    BY DEF Marking
  <2> QED
    BY <1>1, <1>7, <2>1, SameVolume DEF Marking
<1>9. FatLba(b)' = FatLba(b) /\ V' = V
  BY SameVolume
<1>10. MarkOK'
  <2>1. drive'.state # "writing" /\ call'.step = "ready" /\ job'.cluster = b
        /\ call'.lba = FatLba(b)' /\ call'.data = data
    BY <1>1, <1>3, <1>4, <1>6, <1>9
  <2>2. FatLba(job.cluster)' = FatLba(b)'
    BY <2>1 DEF FatLba
  <2>3. Marking(job.cluster, call.lba, call.data)'
    BY <1>8, <2>1, <2>2 DEF Marking, SeemsFree
  <2> QED
    BY <2>1, <2>2, <2>3 DEF MarkOK
<1>11. CallOK' /\ SetOK' /\ SaveOK' /\ PendingOK'
  BY <1>1, <1>2, <1>3, <1>4, <1>6 DEF CallOK, SetOK, SaveOK, PendingOK
<1>12. FreshOK'
  BY <1>0, <1>1, <1>4 DEF Keeps, FreshOK
<1>13. MediumOK(medium)' /\ SavedOK'
  BY <1>1, SameMedium, SavedStay DEF Keeps
<1> QED
  BY <1>2, <1>10, <1>11, <1>12, <1>13 DEF Keeps

\* The data go to the drive after the entry, which it may still have to write.
LEMMA KeepsAllocated ==
  ASSUME TypeInv, Keeps, Allocated, first' = first
  PROVE  Keeps'
<1>0. PICK b : b = job.cluster
  OBVIOUS
<1>1. /\ UNCHANGED <<medium, drive, late, saved, buffer, mounted, volume, current_dir_cluster,
                     current_path>>
      /\ job.cmd = "mark" /\ call.step = "done"
  BY DEF Allocated, Rest, Got, shell
<1>2. VolumeOK' /\ Wanders' /\ mounted /\ mounted' /\ volume = V
  BY <1>1, SameVolumeOK, SamePlace DEF Keeps, CallOK, VolumeOK
<1>3. IsMarked(b)
  BY <1>0, <1>1 DEF Keeps, MarkOK
<1>4. job' = [cmd |-> "save", name |-> <<>>, cluster |-> b, size |-> 0]
  BY <1>0 DEF Allocated, At
<1>5. call' = [op |-> "write", lba |-> Sector(V, b), data |-> buffer, step |-> "ready",
               missed |-> FALSE]
  BY <1>0, <1>2 DEF Allocated, ata_write, ata
<1>6. V' = V /\ (Given(medium, b) => Given(medium, b)')
  BY <1>1, SameVolume
<1>7. \A lba, data : Marking(b, lba, data) => Marking(b, lba, data)'
  BY <1>1, SameMarking
<1>8. /\ drive.state # "writing" => drive'.state # "writing" /\ Given(medium, job.cluster)'
      /\ drive.state = "writing" => drive'.state = "writing"
                                    /\ Marking(job.cluster, drive.lba, drive.data)'
  <2>1. job'.cluster = b
    BY <1>4
  <2>2. Given(medium, b)' => Given(medium, job.cluster)'
    BY <2>1 DEF Given
  <2>3. ASSUME drive.state = "writing" PROVE Marking(job.cluster, drive.lba, drive.data)'
    <3>1. Marking(b, drive.lba, drive.data)
      BY <1>3, <2>3 DEF IsMarked
    <3>2. PICK lba, data : lba = drive.lba /\ data = drive.data
      OBVIOUS
    <3>3. Marking(b, lba, data)'
      BY <1>7, <3>1, <3>2
    <3> QED
      BY <1>1, <2>1, <3>2, <3>3 DEF Marking, SeemsFree, FatLba
  <2> QED
    BY <1>1, <1>3, <1>6, <2>2, <2>3 DEF IsMarked
<1>9. SaveOK'
  <2>1. IsMarked(job.cluster)'
    BY <1>1, <1>8 DEF IsMarked
  <2>2. call'.step = "ready" /\ call'.lba = Sector(V', job'.cluster) /\ call'.data = buffer'
    BY <1>1, <1>4, <1>5, <1>6
  <2> QED
    BY <2>1, <2>2 DEF SaveOK
<1>10. PendingOK'
  BY <1>1, <1>4, <1>8 DEF PendingOK, Marks
<1>11. CallOK' /\ SetOK' /\ MarkOK'
  BY <1>2, <1>4, <1>5 DEF CallOK, SetOK, MarkOK
<1>12. FreshOK'
  BY <1>0, <1>1, <1>4 DEF Keeps, FreshOK
<1>13. MediumOK(medium)' /\ SavedOK'
  BY <1>1, SameMedium, SavedStay DEF Keeps
<1> QED
  BY <1>2, <1>9, <1>10, <1>11, <1>12, <1>13 DEF Keeps

\* What edit reports as saved is on the disk, or on its way there.
LEMMA KeepsSaved ==
  ASSUME TypeInv, Keeps, late = 0, Saved, first' = first
  PROVE  Keeps'
<1>0. PICK b : b = job.cluster
  OBVIOUS
<1>1. /\ UNCHANGED <<medium, drive, late, buffer, mounted, volume, current_dir_cluster,
                     current_path>>
      /\ job.cmd = "save" /\ call.step = "done" /\ job' = NoJob /\ call' = NoCall
      /\ saved' = saved \cup {<<b, buffer>>}
  BY <1>0 DEF Saved, Rest, Return, Got, shell
<1>2. Wanders' /\ mounted /\ mounted' /\ volume = V /\ IsVolume
  BY <1>1, SamePlace DEF Keeps, CallOK, VolumeOK
<1>3. b \in Clusters /\ Given(medium, b) /\ call.lba = Sector(V, b) /\ call.data = buffer
      /\ ~call.missed /\ \A s \in saved : s[1] # b
  BY <1>0, <1>1 DEF TypeInv, JobInv, Clusters, Keeps, SaveOK, CallOK, FreshOK
<1>4. /\ Sector(V, b) \in Lbas
      /\ \/ drive.state = "idle" /\ medium[Sector(V, b)] = buffer
         \/ drive.state = "writing" /\ drive.lba = Sector(V, b) /\ drive.data = buffer
  BY <1>1, <1>3 DEF TypeInv, DiskInv, CallInv
<1>5. V' = V /\ (IsVolume' <=> IsVolume) /\ \A c : Given(medium, c) => Given(medium, c)'
  BY <1>1, SameVolume
<1>6. VolumeOK'
  BY <1>1, <1>2, <1>5 DEF Keeps, VolumeOK
<1>7. SavedOK'
  <2> SUFFICES ASSUME NEW s \in saved' PROVE IsSaved(s)'
    BY DEF SavedOK
  <2>1. IsSaved(s)
    <3>1. CASE s \in saved
      BY <3>1 DEF Keeps, SavedOK
    <3>2. CASE s = <<b, buffer>>
      <4>1. s[1] = b /\ s[2] = buffer
        BY <3>2
      <4> QED
        BY <1>3, <1>4, <4>1 DEF IsSaved
    <3> QED
      BY <1>1, <3>1, <3>2
  <2> QED
    BY <1>1, <1>5, <2>1 DEF IsSaved
<1>8. PendingOK'
  <2> SUFFICES ASSUME drive.state = "writing" PROVE PutsData'
    BY <1>1 DEF PendingOK
  <2>1. drive.lba = Sector(V, b) /\ drive.data = buffer
    BY <1>4
  <2>2. ASSUME NEW s \in saved', s[1] = b PROVE s[2] = drive.data
    <3>1. s = <<b, buffer>>
      BY <1>1, <1>3, <2>2
    <3> QED
      BY <2>1, <3>1
  <2> QED
    BY <1>1, <1>3, <1>5, <2>1, <2>2 DEF PutsData
<1>9. job'.cmd = "none" /\ CallOK'
  BY <1>1, ReturnCallOK DEF NoJob
<1>10. SetOK' /\ MarkOK' /\ SaveOK' /\ FreshOK'
  BY <1>9 DEF SetOK, MarkOK, SaveOK, FreshOK
<1>11. MediumOK(medium)'
  BY <1>1, SameMedium DEF Keeps
<1> QED
  BY <1>2, <1>6, <1>7, <1>8, <1>9, <1>10, <1>11 DEF Keeps

\* What the power takes is no more than what the drive was still writing.
LEMMA KeepsPowerOff ==
  ASSUME TypeInv, Keeps, PowerOff, first' = first
  PROVE  Keeps'
<1>1. /\ UNCHANGED <<medium, late>> /\ drive' = AtRest /\ call' = NoCall /\ job' = NoJob
      /\ mounted' = FALSE
      /\ saved' = { s \in saved : drive.state = "writing" => drive.lba # Sector(volume, s[1]) }
  BY DEF PowerOff, DrivePowerOff
<1>2. drive'.state = "idle" /\ job'.cmd = "none"
  BY <1>1 DEF AtRest, NoJob
<1>3. V' = V /\ (IsVolume' <=> IsVolume) /\ \A c : Given(medium, c) => Given(medium, c)'
  BY <1>1, SameVolume
<1>4. VolumeOK'
  BY <1>1, <1>2, <1>3 DEF Keeps, VolumeOK
<1>5. SavedOK'
  <2> SUFFICES ASSUME NEW s \in saved' PROVE IsSaved(s)'
    BY DEF SavedOK
  <2>1. IsSaved(s) /\ (drive.state = "writing" => drive.lba # Sector(volume, s[1]))
    BY <1>1 DEF Keeps, SavedOK
  <2>2. drive.state = "writing" => volume = V
    BY DEF Keeps, VolumeOK
  <2>3. medium[Sector(V, s[1])] = s[2]
    BY <2>1, <2>2 DEF IsSaved
  <2> QED
    BY <1>1, <1>3, <2>1, <2>3 DEF IsSaved
<1>6. MediumOK(medium)' /\ CallOK'
  BY <1>1, SameMedium, ReturnCallOK DEF Keeps
<1>7. PendingOK' /\ SetOK' /\ MarkOK' /\ SaveOK' /\ FreshOK' /\ Wanders'
  BY <1>1, <1>2 DEF PendingOK, SetOK, MarkOK, SaveOK, FreshOK, Wanders
<1> QED
  BY <1>4, <1>5, <1>6, <1>7 DEF Keeps

LEMMA KStep ==
  ASSUME KInv, [Next]_vars PROVE KInv'
<1>1. TypeInv /\ TypeInv'
  BY TypeStep DEF KInv
<1>2. SUFFICES ASSUME late' = 0 PROVE Keeps'
  BY <1>1 DEF KInv
<1>3. first' = first /\ late = 0 /\ Keeps
  BY <1>1, <1>2, HistoryStays DEF KInv
<1>4. CASE Step
  <2>1. CASE (Issue \/ Transfer) /\ UNCHANGED <<shell, output, job, buffer, first, saved>>
    BY <1>1, <1>2, <1>3, <2>1, KeepsIssue, KeepsTransfer, Zenon
  <2>2. CASE Mounted \/ Listed \/ ChangedDirectory \/ FileFound \/ Printed \/ EditFound \/ Opened
    BY <1>1, <1>3, <2>2, KeepsMounted, KeepsDone, KeepsChangedDirectory, KeepsFound, Zenon
  <2>3. CASE Looked \/ Marked \/ Allocated \/ Saved
    BY <1>1, <1>3, <2>3, KeepsLooked, KeepsMarked, KeepsAllocated, KeepsSaved, Zenon
  <2> QED
    BY <1>4, <2>1, <2>2, <2>3, Zenon DEF Step
<1>5. CASE Mount \/ Save \/ ReadDirectory("ls", <<>>)
           \/ (\E name \in Typed, cmd \in {"cd", "cat", "edit"} : ReadDirectory(cmd, name))
  BY <1>1, <1>3, <1>5, KeepsAsked
<1>6. CASE Refused \/ cd_home \/ pwd \/ EditNothing \/ Type \/ Quit \/ UNCHANGED vars
  BY <1>1, <1>3, <1>6, KeepsIdle, Zenon
<1>7. CASE DriveStep /\ UNCHANGED <<shell, output, job, buffer, first, saved>>
  BY <1>1, <1>3, <1>7, KeepsDrive, Zenon
<1>8. CASE PowerOff
  BY <1>1, <1>3, <1>8, KeepsPowerOff, Zenon
<1> QED
  BY <1>4, <1>5, <1>6, <1>7, <1>8, Zenon DEF Next

LEMMA KInit == Init => KInv
<1> SUFFICES ASSUME Init PROVE KInv
  OBVIOUS
<1>1. PICK disk \in Disks : DiskInit(disk) /\ first = disk
  BY DEF Init
<1>2. medium = first /\ first \in Disks /\ drive.state = "idle" /\ ~call.missed
  BY <1>1 DEF DiskInit, AtRest, NoCall
<1>3. saved = {} /\ mounted = FALSE /\ job.cmd = "none"
  BY DEF Init, NoJob
<1>4. VolumeOK
  BY <1>2, <1>3 DEF VolumeOK
<1>5. MediumOK(medium)
  <2>1. DataKept(medium) /\ \A c \in Clusters : Untouched(medium, c)
    BY <1>2, Zenon DEF DataKept, Untouched
  <2> QED
    BY <2>1, Zenon DEF MediumOK
<1>6. PendingOK /\ SavedOK /\ CallOK
  BY <1>2, <1>3 DEF PendingOK, SavedOK, CallOK
<1>7. SetOK /\ MarkOK /\ SaveOK /\ FreshOK /\ Wanders
  BY <1>3 DEF SetOK, MarkOK, SaveOK, FreshOK, Wanders
<1> QED
  BY <1>4, <1>5, <1>6, <1>7, InitType DEF KInv, Keeps

LEMMA KInvariance == Spec => []KInv
BY KInit, KStep, PTL DEF Spec

\* As long as the drive keeps up, whatever is typed and wherever the power goes: no save
\* reaches a file or a directory of the disk, and what is reported as saved is there or on
\* its way; for every disk with its parts apart and every size of its sectors.
THEOREM FilesKeptHolds == Spec => []FilesKept
<1>1. KInv => FilesKept
  <2> SUFFICES ASSUME KInv, late = 0 PROVE FilesKept
    BY DEF FilesKept
  <2>0. Keeps
    BY DEF KInv
  <2>1. ASSUME NEW l \in Lbas, l \notin FatRange,
               \A c \in Clusters : Given(medium, c) => l # Sector(V, c)
        PROVE  medium[l] = first[l]
    BY <2>0, <2>1 DEF Keeps, MediumOK, DataKept
  <2>2. ASSUME NEW c \in Clusters, EntryOn(first, c) # Free /\ ~Exposed(c)
        PROVE  medium[Sector(V, c)] = first[Sector(V, c)]
    <3>1. CASE medium = first
      BY <3>1
    <3>2. CASE IsVolume
      <4>1. c \in Nat \ {0, 1} /\ Sector(V, c) \in Lbas
        BY <2>2, <3>2, ClustersAre, Geometry
      <4>2. Sector(V, c) \notin FatRange
        BY <3>2, <4>1, SectorsApart
      <4>3. ASSUME NEW b \in Clusters, Given(medium, b), Sector(V, b) = Sector(V, c) PROVE FALSE
        <5>1. b = c
          BY <3>2, <4>1, <4>3, ClustersAre, SectorsApart
        <5> QED
          BY <2>2, <4>3, <5>1 DEF Given
      <4> QED
        BY <2>1, <4>1, <4>2, <4>3
    <3> QED
      BY <2>0, <3>1, <3>2 DEF Keeps, VolumeOK
  <2>3. medium[V.root_sector] = first[V.root_sector]
    <3>1. CASE medium = first
      BY <3>1
    <3>2. CASE IsVolume
      <4>1. V.root_sector \in Lbas /\ V.root_sector \notin FatRange
        BY <3>2, Geometry, BootApart
      <4>2. \A c \in Clusters : V.root_sector # Sector(V, c)
        BY <3>2, ClustersAre, SectorsApart
      <4> QED
        BY <2>1, <4>1, <4>2
    <3> QED
      BY <2>0, <3>1, <3>2 DEF Keeps, VolumeOK
  <2>4. ASSUME NEW s \in saved
        PROVE  LET lba == Sector(V, s[1])
               IN medium[lba] = s[2] \/ drive = [state |-> "writing", lba |-> lba, data |-> s[2]]
    <3>1. IsSaved(s)
      BY <2>0 DEF Keeps, SavedOK
    <3>2. drive = [state |-> drive.state, lba |-> drive.lba, data |-> drive.data]
      BY DEF KInv, TypeInv, DiskInv, DriveInv
    <3> QED
      BY <3>1, <3>2 DEF IsSaved
  <2> QED
    BY <2>2, <2>3, <2>4, Zenon DEF FilesKept, V
<1> QED
  BY <1>1, KInvariance, PTL

\* As long as the drive keeps up, the FAT changes only at entries that were free, and
\* nothing saved is in a cluster it does not have as taken, whenever the power goes.
THEOREM EntriesKeptHolds == Spec => []EntriesKept
<1>1. KInv => EntriesKept
  <2> SUFFICES ASSUME KInv, late = 0 PROVE EntriesKept
    BY DEF EntriesKept
  <2>0. Keeps
    BY DEF KInv
  <2>1. ASSUME NEW c \in Clusters, EntryOn(medium, c) # EntryOn(first, c)
        PROVE  /\ EntryOn(first, c) = Free \/ Exposed(c)
               /\ EntryOn(medium, c) = EndOfChain \/ Straddles(c)
    <3>1. c \in Nat
      BY ClustersAre
    <3>2. ~Untouched(medium, c)
      <4>1. ASSUME Untouched(medium, c) PROVE EntryOn(medium, c) = EntryOn(first, c)
        <5>1. /\ Digit(medium, c * 3 + 0) = Digit(first, c * 3 + 0)
              /\ Digit(medium, c * 3 + 1) = Digit(first, c * 3 + 1)
              /\ Digit(medium, c * 3 + 2) = Digit(first, c * 3 + 2)
          BY <4>1 DEF Untouched
        <5> QED
          BY <3>1, <5>1, EntryIs
      <4> QED
        BY <2>1, <4>1
    <3>3. Given(medium, c)
      BY <2>0, <3>2 DEF Keeps, MediumOK
    <3>4. ASSUME ~Straddles(c) PROVE EntryOn(medium, c) = EndOfChain
      <4>1. FatPlace(c) \in Digits /\ FatPlace(c) + 2 \in Digits
        BY <3>1, <3>4, FatAt DEF Straddles
      <4>2. BYTES \in Nat
        BY FilesAssumption
      <4>3. FatPlace(c) + 0 \in Digits /\ FatPlace(c) + 1 \in Digits
        BY <4>1, <4>2 DEF Digits
      <4>4. /\ Digit(medium, c * 3 + 0) = EndOfChain[0 + 1]
            /\ Digit(medium, c * 3 + 1) = EndOfChain[1 + 1]
            /\ Digit(medium, c * 3 + 2) = EndOfChain[2 + 1]
        BY <3>3, <4>1, <4>3 DEF Given
      <4> QED
        BY <3>1, <4>4, EntryIs DEF EndOfChain
    <3> QED
      BY <3>3, <3>4 DEF Given
  <2>2. ASSUME NEW s \in saved PROVE EntryOn(medium, s[1]) # Free
    BY <2>0, GivenSeemsTaken DEF Keeps, SavedOK, IsSaved
  <2> QED
    BY <2>1, <2>2, Zenon DEF EntriesKept
<1> QED
  BY <1>1, KInvariance, PTL

\* As long as the drive keeps up, the parts of the path lead from the root to the cluster
\* the shell is at, though only the cluster is used.
THEOREM PathLeadsHereHolds == Spec => []PathLeadsHere
<1>1. KInv => PathLeadsHere
  BY Zenon DEF KInv, Keeps, Wanders, PathLeadsHere, Led, LedOn
<1> QED
  BY <1>1, KInvariance, PTL

-----------------------------------------------------------------------------
(* What ls shows can be opened.                                            *)

\* A name as an entry has it is looked for as it is typed.
LEMMA SearchIsName ==
  ASSUME NEW d, NEW e, IsEntry(d, e), NEW n \in Nat, Len(e.name) <= n
  PROVE  Search(e.name, n) = e.name
<1> DEFINE name == e.name
<1>1. name \in Seq(Range(name)) /\ \A i \in DOMAIN name : toupper[name[i]] = name[i]
  BY DEF IsEntry
<1>2. Len(name) \in Nat /\ DOMAIN name = 1 .. Len(name) /\ name = [i \in 1 .. Len(name) |-> name[i]]
  BY <1>1
<1>3. (IF Len(name) < n THEN Len(name) ELSE n) = Len(name)
  BY <1>2
<1>4. Search(name, n) = [i \in 1 .. Len(name) |-> toupper[name[i]]]
  BY <1>3, Zenon DEF Search
<1> HIDE DEF name
<1> QED
  BY <1>1, <1>2, <1>4 DEF name

\* Only cd and cat answer for themselves.
LEMMA NothingElseSaid ==
  ASSUME KInv, late = 0, [Next]_vars, call.step = "done", job.cmd \in {"cd", "cat"}
  PROVE  \/ job.cmd = "cd" /\ ChangedDirectory
         \/ job.cmd = "cat" /\ FileFound
         \/ output' = Nothing
<1>1. output = Nothing
  BY DEF KInv, Keeps, CallOK
<1>2. ~Prompt /\ ~AtKey
  BY DEF Prompt, AtKey, NoJob
<1>3. CASE Step
  <2>1. ~(Mounted \/ Listed \/ Printed \/ EditFound \/ Opened \/ Looked \/ Marked \/ Allocated \/ Saved)
    BY DEF Mounted, Listed, Printed, EditFound, Opened, Looked, Marked, Allocated, Saved, Got
  <2>2. ChangedDirectory => job.cmd = "cd"
    BY DEF ChangedDirectory, Got
  <2>3. FileFound => job.cmd = "cat"
    BY DEF FileFound, Got
  <2> QED
    BY <1>1, <1>3, <2>1, <2>2, <2>3, Zenon DEF Step
<1>4. CASE UNCHANGED vars
  BY <1>1, <1>4 DEF vars
<1>5. CASE DriveStep /\ UNCHANGED <<shell, output, job, buffer, first, saved>>
  BY <1>1, <1>5
<1>6. CASE PowerOff
  BY <1>6 DEF PowerOff
<1>7. ~(\/ Mount \/ Refused \/ cd_home \/ pwd \/ EditNothing \/ Type \/ Save \/ Quit
        \/ \E cmd, name : ReadDirectory(cmd, name))
  BY <1>2, Zenon DEF Mount, Refused, cd_home, pwd, EditNothing, Type, Save, Quit, ReadDirectory
<1> QED
  BY <1>3, <1>4, <1>5, <1>6, <1>7, Zenon DEF Next

LEMMA ShownIsEntry ==
  ASSUME KInv, late = 0, call.step = "done", job.cmd \in {"cd", "cat"},
         NEW name, NEW kind, Shows(name, kind)
  PROVE  /\ Here = EntriesIn(call.data)
         /\ IsVolume /\ DirSector(V, current_dir_cluster) \in Lbas
         /\ Here = EntriesIn(first[DirSector(V, current_dir_cluster)])
         /\ \E k \in Present(Here) : /\ Here[k].name = name /\ Here[k].kind = kind
                                     /\ kind = "file" => Here[k].size > 0
<1>1. /\ IsVolume /\ volume = V /\ DirSector(V, current_dir_cluster) \in Lbas
      /\ call.data = first[DirSector(V, current_dir_cluster)]
  BY ReadDirectoryInTime DEF KInv
<1>2. Here = EntriesIn(first[DirSector(V, current_dir_cluster)])
  BY <1>1 DEF Here
<1>3. PICK k \in DOMAIN Listing(Here) : /\ Listing(Here)[k][1] = name /\ Listing(Here)[k][2] = kind
                                        /\ kind = "file" => Listing(Here)[k][3] > 0
  BY Zenon DEF Shows
<1>4. k \in Present(Here) /\ Listing(Here)[k] = <<Here[k].name, Here[k].kind, Here[k].size>>
  BY DEF Listing
<1> QED
  BY <1>1, <1>2, <1>3, <1>4

\* As long as the drive keeps up, cd finds the directories ls shows, and cat the files
\* with data, on every disk with names as FAT has them.
THEOREM ListedCanBeOpenedHolds == Spec => ListedCanBeOpened
<1>1. ASSUME KInv, late = 0, [Next]_vars, Got("cd"), Shows(job.name, "dir")
      PROVE  output' # NotADirectory
  <2>1. call.step = "done" /\ job.cmd = "cd"
    BY <1>1 DEF Got
  <2> DEFINE es == EntriesIn(call.data)
             T == { i \in Present(es) : es[i].kind = "dir" /\ Matches(Search(job.name, 8), es[i]) }
  <2>2. /\ IsVolume /\ DirSector(V, current_dir_cluster) \in Lbas
        /\ es = EntriesIn(first[DirSector(V, current_dir_cluster)])
        /\ \E k \in Present(es) : es[k].name = job.name /\ es[k].kind = "dir"
    BY <1>1, <2>1, ShownIsEntry
  <2>3. Present(es) \subseteq Nat \ {0} /\ \A k \in Present(es) : IsEntry(first, es[k])
    BY <2>2, EntriesAre
  <2>4. PICK k \in Present(es) : es[k].name = job.name /\ es[k].kind = "dir"
    BY <2>2
  <2> HIDE DEF es
  <2>5. Matches(Search(job.name, 8), es[k])
    <3>1. IsEntry(first, es[k]) /\ Len(es[k].name) <= 8
      BY <2>3, <2>4 DEF IsEntry
    <3>2. Search(job.name, 8) = es[k].name
      BY <2>4, <3>1, SearchIsName
    <3>3. es[k].name \in Seq(Range(es[k].name))
      BY <3>1 DEF IsEntry
    <3>4. \A j \in DOMAIN es[k].name : j <= Len(es[k].name)
      BY <3>3
    <3> QED
      BY <3>2, <3>4 DEF Matches
  <2>6. T # {} /\ T \subseteq Nat \ {0}
    BY <2>3, <2>4, <2>5
  <2>7. FindDirectory(es, job.name) # 0
    BY <2>6, FirstOf DEF FindDirectory
  <2>8. ASSUME ChangedDirectory PROVE output' = output
    BY <2>7, <2>8, Zenon DEF ChangedDirectory, Return, es
  <2>9. output = Nothing
    BY <1>1, <2>1 DEF KInv, Keeps, CallOK
  <2>10. output' = Nothing
    BY <1>1, <2>1, <2>8, <2>9, NothingElseSaid
  <2> QED
    BY <2>10 DEF Nothing, NotADirectory, Says
<1>2. ASSUME KInv, late = 0, [Next]_vars, Got("cat"), Shows(job.name, "file")
      PROVE  output' # NotFound
  <2>1. call.step = "done" /\ job.cmd = "cat"
    BY <1>2 DEF Got
  <2> DEFINE es == EntriesIn(call.data)
             T == { i \in Present(es) : es[i].kind = "file" /\ es[i].name = Search(job.name, 12) }
             i == FindFile(es, job.name)
  <2>2. /\ IsVolume /\ DirSector(V, current_dir_cluster) \in Lbas
        /\ es = EntriesIn(first[DirSector(V, current_dir_cluster)])
        /\ \E k \in Present(es) : es[k].name = job.name /\ es[k].kind = "file" /\ es[k].size > 0
    BY <1>2, <2>1, ShownIsEntry
  <2>3. /\ Present(es) \subseteq Nat \ {0} /\ \A k \in Present(es) : IsEntry(first, es[k])
        /\ \A j, k \in Present(es) : es[j].name = es[k].name => j = k
    BY <2>2, EntriesAre
  <2>4. PICK k \in Present(es) : es[k].name = job.name /\ es[k].kind = "file" /\ es[k].size > 0
    BY <2>2
  <2> HIDE DEF es
  <2>5. Search(job.name, 12) = job.name
    <3>1. IsEntry(first, es[k]) /\ Len(es[k].name) <= 12
      BY <2>3, <2>4 DEF IsEntry
    <3> QED
      BY <2>4, <3>1, SearchIsName
  <2>6. k \in T /\ T \subseteq Nat \ {0}
    BY <2>3, <2>4, <2>5
  <2>7. i \in T /\ i # 0
    BY <2>6, FirstOf DEF FindFile
  <2>8. i = k
    BY <2>3, <2>4, <2>5, <2>7
  <2>9. i # 0 /\ es[i].cluster # 0
    BY <2>3, <2>4, <2>7, <2>8 DEF IsEntry
  <2> HIDE DEF i
  <2>10. ASSUME FileFound PROVE output' = output
    BY <2>9, <2>10, Zenon DEF FileFound, Return, es, i
  <2>11. output = Nothing
    BY <1>2, <2>1 DEF KInv, Keeps, CallOK
  <2>12. output' = Nothing
    BY <1>2, <2>1, <2>10, <2>11, NothingElseSaid
  <2> QED
    BY <2>12 DEF Nothing, NotFound, Says
<1> DEFINE A == late = 0 =>
                  /\ Got("cd") /\ Shows(job.name, "dir") => output' # NotADirectory
                  /\ Got("cat") /\ Shows(job.name, "file") => output' # NotFound
<1>3. KInv /\ [Next]_vars => [A]_vars
  BY <1>1, <1>2
<1>4. ListedCanBeOpened <=> [][A]_vars
  BY DEF ListedCanBeOpened
<1> HIDE DEF A
<1> QED
  BY <1>3, <1>4, KInvariance, PTL DEF Spec
============================================================================
