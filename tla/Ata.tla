--------------------------------- MODULE Ata ---------------------------------
(***************************************************************************)
(* ata_read and ata_write of kernel/kernel.c and the drive behind them,    *)
(* which is external.  Each function waits twice, for the drive to be      *)
(* ready and for it to ask for data, gives up after 1000 polls, goes on    *)
(* all the same and always returns 0.  How long the drive takes is not     *)
(* said: a wait ends either way.                                           *)
(***************************************************************************)
EXTENDS Integers

CONSTANTS
  Lbas,     \* the sectors of the disk
  Garbage,  \* what the data port may give when there is nothing to read
  MaxLate   \* bound: waits given up that are counted

NoData == <<"none">>

ASSUME AtaAssumption == MaxLate \in Nat \ {0} /\ NoData \notin Garbage

VARIABLES
  medium,   \* what is on the disk
  drive,    \* what the drive is doing: its state, and the sector and data it does it with
  call,     \* the call of ata_read or ata_write being made
  late      \* history: how many waits were given up

diskVars == <<medium, drive, call, late>>

Busy == drive.state \in {"reading", "writing", "starting"}
\* The DRQ bit.
Asks == drive.state \in {"to read", "to write"}

AtRest == [state |-> "idle", lba |-> 0, data |-> NoData]
NoCall == [op |-> "none", lba |-> 0, data |-> NoData, step |-> "none", missed |-> FALSE]

\* One more wait given up, or not.
Late(gaveUp) == late' = IF gaveUp /\ late < MaxLate THEN late + 1 ELSE late

DiskInit(content) ==
  /\ medium = content
  /\ drive = AtRest
  /\ call = NoCall
  /\ late = 0

\* A caller calls; data is read by ata_write only.
ata(op, lba, data) ==
  call' = [op |-> op, lba |-> lba, data |-> data, step |-> "ready", missed |-> FALSE]
ata_read(lba) == ata("read", lba, NoData)
ata_write(lba, data) == ata("write", lba, data)

\* The drive takes a command, unless it has no such sector.
Command(op, lba) ==
  IF lba \in Lbas
    THEN [state |-> IF op = "read" THEN "reading" ELSE "starting", lba |-> lba, data |-> NoData]
    ELSE AtRest

\* Mutant of Issue: the drive is not waited for.
IssueAtOnce ==
  /\ call.step = "ready"
  /\ call' = [call EXCEPT !.step = "data"]
  /\ drive' = IF Busy THEN drive ELSE Command(call.op, call.lba)
  /\ UNCHANGED <<medium, late>>

\* The first wait ends and the registers are written, which a busy drive ignores.
Issue ==
  /\ call.step = "ready"
  /\ call' = [call EXCEPT !.step = "data", !.missed = Busy]
  /\ Late(Busy)
  /\ drive' = IF Busy THEN drive ELSE Command(call.op, call.lba)
  /\ UNCHANGED medium

\* The second wait ends and 256 words are moved, whatever the drive wants.
Transfer ==
  /\ call.step = "data"
  /\ LET missed == call.missed \/ ~Asks
     IN /\ Late(~Asks)
        /\ \E got \in IF drive.state = "to read" THEN {drive.data} ELSE Garbage :
             call' = [call EXCEPT !.step = "done", !.missed = missed,
                                  !.data = IF call.op = "read" THEN got ELSE @]
  /\ drive' = IF call.op = "read" /\ drive.state = "to read"
                THEN AtRest
              ELSE IF call.op = "write" /\ drive.state = "to write"
                THEN [drive EXCEPT !.state = "writing", !.data = call.data]
              ELSE drive
  /\ UNCHANGED medium

\* What the drive does in its own time.
DriveStep ==
  /\ Busy
  /\ CASE drive.state = "reading" ->
            /\ drive' = [drive EXCEPT !.state = "to read", !.data = medium[drive.lba]]
            /\ UNCHANGED medium
       [] drive.state = "starting" ->
            /\ drive' = [drive EXCEPT !.state = "to write"]
            /\ UNCHANGED medium
       [] OTHER ->
            /\ medium' = [medium EXCEPT ![drive.lba] = drive.data]
            /\ drive' = AtRest
  /\ UNCHANGED <<call, late>>

\* The power goes: what the drive was still writing is lost.
DrivePowerOff ==
  /\ drive' = AtRest
  /\ call' = NoCall
  /\ UNCHANGED <<medium, late>>

-----------------------------------------------------------------------------
\* A sector is the one asked for, and a write reaches it, in every call that found the
\* drive in time, whatever earlier calls left behind: a late drive still answers its last
\* command, and the next call must not take that answer for its own (kernel.c:386-389).
TimelyIsRight ==
  call.step = "done" /\ ~call.missed =>
    \/ medium[call.lba] = call.data
    \/ call.op = "write" /\ drive = [state |-> "writing", lba |-> call.lba, data |-> call.data]
==============================================================================
