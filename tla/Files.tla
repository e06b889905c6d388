-------------------------------- MODULE Files --------------------------------
(***************************************************************************)
(* The FAT disk of kernel/kernel.c: mount, ls, cd, cat and pwd, and edit   *)
(* with the cluster allocation only it calls, over ata_read and ata_write. *)
(* kernel_main dispatches no edit: the function is modelled for a caller.  *)
(* A command is a job: it asks for a sector, and goes on with what the     *)
(* call hands back.  A directory is its cluster, as in                     *)
(* current_dir_cluster, the root is 0; a path is the sequence of its       *)
(* parts, as path_join puts them one after the other.  A sector is a pair  *)
(* of its kind and what it holds; the 12-bit entries of the FAT are three  *)
(* digits of four bits, the low one first, two to a byte.                  *)
(***************************************************************************)
EXTENDS Ata, SequencesExt, FiniteSets

CONSTANTS
  Disks,               \* what may be on the disk at first
  BYTES,               \* bytes_per_sector (512)
  ENTRIES_PER_SECTOR,  \* directory entries in one (16)
  LAST,                \* fat_alloc_cluster tries the clusters below (512)
  Typed,               \* names a user types
  Texts,               \* what a user makes of a file in the editor
  toupper,             \* of each character
  MaxDepth             \* bound: parts of current_path (256 characters)

ASSUME FilesAssumption ==
  /\ {BYTES, ENTRIES_PER_SECTOR} \subseteq Nat \ {0} /\ LAST \in Nat /\ LAST > 2
  /\ MaxDepth \in Nat
  /\ \A d \in Disks : d \in [Lbas -> Range(d)] /\ NoData \notin Range(d)

VARIABLES
  mounted,
  volume,    \* fat_sector, root_sector, data_sector and sectors_per_cluster
  current_dir_cluster,
  current_path,
  output,    \* what this command, or the last one, printed
  job,       \* the command that runs, with the name, cluster and size it is at
  buffer,    \* what the editor holds, NoData when it is not open
  first,     \* history: what was on the disk at first
  saved      \* history: each cluster edit reported as saved in time, with its data

shell == <<mounted, volume, current_dir_cluster, current_path>>
vars == <<diskVars, shell, output, job, buffer, first, saved>>

\* What a command prints: a message, or what it shows.
Says(message) == <<"says", message>>
Nothing == Says("")
NotFound == Says("Not found")
NotADirectory == Says("Directory not found")

NoVolume == [fat_sector |-> 0, root_sector |-> 0, data_sector |-> 0, sectors_per_cluster |-> 1]
NoJob == [cmd |-> "none", name |-> <<>>, cluster |-> 0, size |-> 0]

\* Once MaxLate waits were given up nothing more is asked of the shell, except to quit.
KeepsUp == late = 0 \/ late < MaxLate
Prompt == job = NoJob /\ buffer = NoData /\ KeepsUp

-----------------------------------------------------------------------------
(* Directories.                                                            *)

\* The entries up to the first free one; what is no directory shows none that match.
EntriesIn(sector) == IF sector[1] = "directory" THEN sector[2] ELSE <<>>

\* The entries that are there: deleted ones are passed over.
Present(es) == { i \in DOMAIN es : es[i].kind # "deleted" }

\* The first of some entries, 0 for none.
First(indices) == IF indices = {} THEN 0 ELSE Min(indices)

\* What is looked for, in capitals and cut to the buffer of the search.
Search(name, length) ==
  [i \in 1 .. (IF Len(name) < length THEN Len(name) ELSE length) |-> toupper[name[i]]]

\* The name of an entry is filled with blanks, and compared as far as the search goes.
Matches(search, e) ==
  \A j \in DOMAIN search : search[j] = IF j <= Len(e.name) THEN e.name[j] ELSE " "

FindDirectory(es, name) ==
  First({ i \in Present(es) : es[i].kind = "dir" /\ Matches(Search(name, 8), es[i]) })

FindFile(es, name) ==
  First({ i \in Present(es) : es[i].kind = "file" /\ es[i].name = Search(name, 12) })

\* edit takes a directory as well.
FindForEdit(es, name) == First({ i \in Present(es) : es[i].name = Search(name, 12) })

\* What ls prints of the entries.
Listing(es) == [i \in Present(es) |-> <<es[i].name, es[i].kind, es[i].size>>]

\* The first sector of a cluster, and of a directory: no other one is read.
Sector(v, c) == v.data_sector + (c - 2) * v.sectors_per_cluster
DirSector(v, d) == IF d = 0 THEN v.root_sector ELSE Sector(v, d)

\* As much of a sector as the entry says there is; a directory has no size.
Empty == <<"data", "nothing">>
Upto(size, sector) == IF size = 0 THEN Empty ELSE sector

-----------------------------------------------------------------------------
(* The FAT.                                                                *)

Digits == 0 .. 2 * BYTES - 1
EndOfChain == <<8, 15, 15>>
Free == <<0, 0, 0>>

\* The sector of an entry, and the place in it of its first digit.
FatSector(c) == ((c * 3) \div 2) \div BYTES
FatPlace(c) == c * 3 - 2 * BYTES * FatSector(c)

\* Some digits of the entry lie in the next sector, which is not read.
Straddles(c) == FatPlace(c) + 2 \notin Digits

FatIn(sector) ==
  IF sector[1] = "fat" THEN sector[2]
  ELSE [p \in Digits |-> IF sector = <<"zeros">> THEN 0 ELSE 15]

\* Mutant of fat_get_next_cluster: every entry is shifted like an odd one.
fat_get_shifted(sector, c, beyond) ==
  [i \in 1 .. 3 |-> LET p == FatPlace(c) + i - (c % 2)
                    IN IF p \in Digits THEN FatIn(sector)[p] ELSE beyond]

\* What is read past the end of the buffer is any byte.
fat_get_next_cluster(sector, c, beyond) ==
  [i \in 1 .. 3 |-> LET p == FatPlace(c) + i - 1
                    IN IF p \in Digits THEN FatIn(sector)[p] ELSE beyond]

\* Mutant of fat_set_next_cluster: the digits beside the entry are not kept.
fat_set_alone(sector, c, next) ==
  <<"fat", [p \in Digits |-> IF p - FatPlace(c) \in 0 .. 2 THEN next[p - FatPlace(c) + 1] ELSE 0]>>

\* What is written past the end of the buffer does not reach the disk.
fat_set_next_cluster(sector, c, next) ==
  <<"fat", [p \in Digits |-> IF p - FatPlace(c) \in 0 .. 2 THEN next[p - FatPlace(c) + 1]
                             ELSE FatIn(sector)[p]]>>

-----------------------------------------------------------------------------
(* The commands.                                                           *)

At(cmd, name, c) == job' = [cmd |-> cmd, name |-> name, cluster |-> c, size |-> 0]
AtFile(cmd, e) == job' = [cmd |-> cmd, name |-> <<>>, cluster |-> e.cluster, size |-> e.size]

\* The job cmd has its sector, or has written it.
Got(cmd) == job.cmd = cmd /\ call.step = "done"

\* The command returns, having printed text.
Return(text) == job' = NoJob /\ call' = NoCall /\ output' = text

Rest == <<medium, drive, late, first, saved>>

Mount == /\ Prompt
         /\ At("mount", <<>>, 0) /\ ata_read(0)
         /\ UNCHANGED <<Rest, shell, output, buffer>>

\* Where mount finds the parts of the disk.
Volume(b) ==
  LET root == b.reserved + b.fat_cnt * b.sectors_per_fat
  IN [fat_sector |-> b.reserved, root_sector |-> root,
      data_sector |-> root + (b.root_entries + ENTRIES_PER_SECTOR - 1) \div ENTRIES_PER_SECTOR,
      sectors_per_cluster |-> b.sectors_per_cluster]

Mounted ==
  /\ Got("mount")
  /\ IF call.data[1] = "boot"
       THEN /\ mounted' = TRUE
            /\ volume' = Volume(call.data[2])
            /\ current_dir_cluster' = 0
            /\ current_path' = <<>>
            /\ Return(Says("OK"))
       ELSE Return(Says("Not FAT")) /\ UNCHANGED shell
  /\ UNCHANGED <<Rest, buffer>>

Refused == /\ Prompt /\ ~mounted
           /\ output' = Says("mount first")
           /\ UNCHANGED <<diskVars, shell, job, buffer, first, saved>>

\* Mutant of ReadDirectory: the root directory is read, wherever the shell is.
ReadRootDirectory(cmd, name) ==
  /\ Prompt /\ mounted
  /\ cmd = "cd" => Len(current_path) < MaxDepth
  /\ At(cmd, name, 0) /\ ata_read(volume.root_sector)
  /\ output' = Nothing
  /\ UNCHANGED <<Rest, shell, buffer>>

\* ls, cd, cat and edit begin with the sector of the current directory.
ReadDirectory(cmd, name) ==
  /\ Prompt /\ mounted
  /\ cmd = "cd" => Len(current_path) < MaxDepth
  /\ At(cmd, name, 0) /\ ata_read(DirSector(volume, current_dir_cluster))
  /\ output' = Nothing
  /\ UNCHANGED <<Rest, shell, buffer>>

Listed == /\ Got("ls")
          /\ Return(<<"ls", Listing(EntriesIn(call.data))>>)
          /\ UNCHANGED <<Rest, shell, buffer>>

\* Mutant of cd_home: the path is not reset.
cd_home_keeps_path ==
  /\ Prompt /\ mounted
  /\ current_dir_cluster' = 0
  /\ output' = Nothing
  /\ UNCHANGED <<diskVars, mounted, volume, current_path, job, buffer, first, saved>>

\* cd with no name.
cd_home ==
  /\ Prompt /\ mounted
  /\ current_dir_cluster' = 0
  /\ current_path' = <<>>
  /\ output' = Nothing
  /\ UNCHANGED <<diskVars, mounted, volume, job, buffer, first, saved>>

ChangedDirectory ==
  /\ Got("cd")
  /\ LET es == EntriesIn(call.data)
         i  == FindDirectory(es, job.name)
     IN IF i = 0 THEN Return(NotADirectory) /\ UNCHANGED shell
        ELSE /\ current_dir_cluster' = es[i].cluster
             /\ current_path' = Append(current_path, job.name)
             /\ Return(output)
             /\ UNCHANGED <<mounted, volume>>
  /\ UNCHANGED <<Rest, buffer>>

\* A file with no cluster is not found; of any other one sector is printed.
FileFound ==
  /\ Got("cat")
  /\ LET es == EntriesIn(call.data)
         i  == FindFile(es, job.name)
     IN IF (IF i = 0 THEN 0 ELSE es[i].cluster) = 0
          THEN Return(NotFound)
          ELSE /\ AtFile("print", es[i]) /\ ata_read(Sector(volume, es[i].cluster))
               /\ UNCHANGED output
  /\ UNCHANGED <<Rest, shell, buffer>>

Printed == /\ Got("print")
           /\ Return(<<"cat", Upto(job.size, call.data)>>)
           /\ UNCHANGED <<Rest, shell, buffer>>

pwd == /\ Prompt
       /\ output' = <<"pwd", current_path>>
       /\ UNCHANGED <<diskVars, shell, job, buffer, first, saved>>

-----------------------------------------------------------------------------
(* The editor, and fat_alloc_cluster, which it calls for each save.        *)

EditNothing == /\ Prompt /\ ~mounted
               /\ buffer' = Empty
               /\ UNCHANGED <<diskVars, shell, output, job, first, saved>>

EditFound ==
  /\ Got("edit")
  /\ LET es == EntriesIn(call.data)
         i  == FindForEdit(es, job.name)
     IN IF (IF i = 0 THEN 0 ELSE es[i].cluster) = 0
          THEN Return(output) /\ buffer' = Empty
          ELSE /\ AtFile("open", es[i]) /\ ata_read(Sector(volume, es[i].cluster))
               /\ UNCHANGED <<output, buffer>>
  /\ UNCHANGED <<Rest, shell>>

\* What edit takes from behind the sector when the file is longer is left out: a save
\* writes no more of the buffer than a sector.
Opened == /\ Got("open")
          /\ buffer' = Upto(job.size, call.data)
          /\ Return(output)
          /\ UNCHANGED <<Rest, shell>>

\* The editor waits for a key.
AtKey == job = NoJob /\ buffer # NoData

Type == /\ AtKey /\ KeepsUp
        /\ \E text \in Texts : buffer' = <<"data", text>>
        /\ UNCHANGED <<diskVars, shell, output, job, first, saved>>

Save == /\ AtKey /\ KeepsUp
        /\ IF mounted THEN At("get", <<>>, 2) /\ ata_read(volume.fat_sector + FatSector(2))
                           /\ UNCHANGED output
           ELSE output' = Says("Not mounted") /\ UNCHANGED <<job, call>>
        /\ UNCHANGED <<Rest, shell, buffer>>

Quit == /\ AtKey
        /\ buffer' = NoData
        /\ UNCHANGED <<diskVars, shell, output, job, first, saved>>

\* Mutant of Clusters: the limit is tried as well.
ClustersToLimit == 2 .. LAST

\* The clusters fat_alloc_cluster tries, in their order.
Clusters == 2 .. LAST - 1

\* fat_alloc_cluster: is the cluster free?  If all are taken nothing is said.
Looked ==
  /\ Got("get")
  /\ \E beyond \in {0, 15} :
       LET c == job.cluster
       IN IF fat_get_next_cluster(call.data, c, beyond) = Free
            THEN At("set", <<>>, c) /\ ata_read(volume.fat_sector + FatSector(c))
                 /\ UNCHANGED output
          ELSE IF c + 1 \in Clusters
            THEN At("get", <<>>, c + 1) /\ ata_read(volume.fat_sector + FatSector(c + 1))
                 /\ UNCHANGED output
          ELSE Return(output)
  /\ UNCHANGED <<Rest, shell, buffer>>

\* fat_set_next_cluster writes back the sector it reads, with the entry in it.
Marked ==
  /\ Got("set")
  /\ At("mark", <<>>, job.cluster)
  /\ ata_write(call.lba, fat_set_next_cluster(call.data, job.cluster, EndOfChain))
  /\ UNCHANGED <<Rest, shell, output, buffer>>

\* The cluster is edit's; it writes one sector.
Allocated ==
  /\ Got("mark")
  /\ At("save", <<>>, job.cluster)
  /\ ata_write(Sector(volume, job.cluster), buffer)
  /\ UNCHANGED <<Rest, shell, output, buffer>>

Saved == /\ Got("save")
         /\ saved' = IF late = 0 THEN saved \cup {<<job.cluster, buffer>>} ELSE saved
         /\ Return(Says("Saved"))
         /\ UNCHANGED <<medium, drive, late, first, shell, buffer>>

-----------------------------------------------------------------------------
\* The power goes, and the kernel starts again.
PowerOff ==
  /\ DrivePowerOff
  /\ mounted' = FALSE
  /\ volume' = NoVolume
  /\ current_dir_cluster' = 0
  /\ current_path' = <<>>
  /\ output' = Nothing
  /\ job' = NoJob
  /\ buffer' = NoData
  /\ saved' = { s \in saved : drive.state = "writing" => drive.lba # Sector(volume, s[1]) }
  /\ UNCHANGED first

Init == \E disk \in Disks :
  /\ DiskInit(disk)
  /\ first = disk
  /\ mounted = FALSE
  /\ volume = NoVolume
  /\ current_dir_cluster = 0
  /\ current_path = <<>>
  /\ output = Nothing
  /\ job = NoJob
  /\ buffer = NoData
  /\ saved = {}

\* The kernel goes on with the command it runs.
Step == \/ (Issue \/ Transfer) /\ UNCHANGED <<shell, output, job, buffer, first, saved>>
        \/ Mounted \/ Listed \/ ChangedDirectory \/ FileFound \/ Printed
        \/ EditFound \/ Opened \/ Looked \/ Marked \/ Allocated \/ Saved

Next == \/ Step
        \/ Mount \/ Refused \/ cd_home \/ pwd
        \/ ReadDirectory("ls", <<>>)
        \/ \E name \in Typed, cmd \in {"cd", "cat", "edit"} : ReadDirectory(cmd, name)
        \/ EditNothing \/ Type \/ Save \/ Quit
        \/ DriveStep /\ UNCHANGED <<shell, output, job, buffer, first, saved>>
        \/ PowerOff

Spec == Init /\ [][Next]_vars

-----------------------------------------------------------------------------
(* The disks the theorems are about.                                       *)

\* Digit d of the FAT a disk m holds, and the entry of a cluster, across sectors.
FatDigit(v, m, d) == FatIn(m[v.fat_sector + d \div (2 * BYTES)])[d % (2 * BYTES)]
EntryAt(v, m, c) == <<FatDigit(v, m, c * 3), FatDigit(v, m, c * 3 + 1), FatDigit(v, m, c * 3 + 2)>>

\* The volume of a disk, and the clusters in use on it but believed free.
VolumeOf(d) == Volume(d[0][2])
ExposedOn(d, c) == Straddles(c) /\ EntryAt(VolumeOf(d), d, c)[1] = 0

\* What ls shows, and cat and cd look for: names in capitals, as short as FAT has them,
\* a directory's with no extension; a file with data has a cluster, and a directory the
\* root's or one of its own.
IsEntry(d, e) ==
  /\ e.name \in Seq(Range(e.name)) /\ Len(e.name) <= (IF e.kind = "dir" THEN 8 ELSE 12)
  /\ \A i \in DOMAIN e.name : toupper[e.name[i]] = e.name[i]
  /\ e.kind = "file" /\ e.size > 0 => e.cluster # 0
  /\ e.kind = "dir" /\ e.cluster # 0 =>
       /\ e.cluster \in Nat \ {0, 1} /\ Sector(VolumeOf(d), e.cluster) \in Lbas
       /\ e.cluster \in Clusters =>
            EntryAt(VolumeOf(d), d, e.cluster) # Free /\ ~ExposedOn(d, e.cluster)

\* A disk that mount takes has its FAT, which covers the clusters fat_alloc_cluster
\* tries, its root directory and its data after each other.
ASSUME VolumesAssumption ==
  /\ 0 \in Lbas /\ Lbas \subseteq Nat
  /\ \A d \in Disks : d[0][1] = "boot" =>
       LET v == VolumeOf(d)
       IN /\ {v.fat_sector, v.sectors_per_cluster} \subseteq Nat \ {0}
          /\ {v.root_sector, v.data_sector} \subseteq Lbas /\ v.root_sector < v.data_sector
          /\ \A c \in Clusters : v.fat_sector + (c * 3 + 2) \div (2 * BYTES) < v.root_sector
          /\ v.fat_sector .. v.root_sector - 1 \subseteq Lbas
          /\ \A c \in Clusters : EntryAt(v, d, c) # Free => Sector(v, c) \in Lbas
          /\ \A l \in Lbas : LET es == EntriesIn(d[l])
                             IN /\ es \in Seq(Range(es))
                                /\ \A i \in Present(es) : IsEntry(d, es[i])
                                /\ \A i, j \in Present(es) : es[i].name = es[j].name => i = j

-----------------------------------------------------------------------------
\* The directory of a disk a path leads to from the root, each part looked up by Find.
Follow(d, path, Find(_, _)) ==
  LET at[n \in 0 .. Len(path)] ==
        IF n = 0 THEN 0
        ELSE LET es == IF at[n - 1] = -1 THEN <<>>
                       ELSE EntriesIn(d[DirSector(VolumeOf(d), at[n - 1])])
                 i  == Find(es, path[n])
             IN IF i = 0 THEN -1 ELSE es[i].cluster
  IN  at[Len(path)]

Commands == {"none", "mount", "ls", "cd", "cat", "print", "edit", "open",
             "get", "set", "mark", "save"}

\* The shape of the state: a job waits for a call of ata_read or ata_write and an
\* open editor or a directory below the root are there only as the code leaves them.
FilesTypeOK ==
  /\ mounted \in BOOLEAN /\ late \in 0 .. MaxLate
  /\ DOMAIN medium = Lbas
  /\ job.cmd \in Commands /\ job.name \in Typed \cup {<<>>}
  /\ job = NoJob <=> call = NoCall
  /\ job.cmd \in {"get", "set", "mark", "save"} => buffer # NoData /\ job.cluster \in 2 .. LAST - 1
  /\ current_path \in Seq(Typed) /\ Len(current_path) <= MaxDepth
  /\ ~mounted => current_dir_cluster = 0 /\ current_path = <<>>

\* The text and the cluster agree while the drive keeps up: typing the parts of the
\* path again, from the root, leads to where the shell is.
PathLeadsHere ==
  mounted /\ late = 0 => Follow(first, current_path, FindDirectory) = current_dir_cluster

Here == EntriesIn(first[DirSector(volume, current_dir_cluster)])
Shows(name, kind) == \E i \in DOMAIN Listing(Here) :
                       LET shown == Listing(Here)[i]
                       IN shown[1] = name /\ shown[2] = kind /\ (kind = "file" => shown[3] > 0)

\* What ls shows can be opened: cd finds a name listed as a directory, and cat one
\* listed as a file, unless it has no data.
ListedCanBeOpened ==
  [][late = 0 =>
       /\ Got("cd") /\ Shows(job.name, "dir") => output' # NotADirectory
       /\ Got("cat") /\ Shows(job.name, "file") => output' # NotFound]_vars

FirstVolume == VolumeOf(first)
EntryOn(m, c) == EntryAt(FirstVolume, m, c)
Exposed(c) == ExposedOn(first, c)

\* A file on the disk, or saved since, keeps its data: no cluster is given out that is
\* in use, and what the geometry of mount says is data lies apart from FAT and
\* directories.  That takes a drive that keeps up, since a late answer is read as a FAT;
\* and the entry that straddles two sectors is believed free when its low digit is 0
\* (kernel.c:829).
FilesKept ==
  late = 0 =>
    /\ \A c \in Clusters : EntryOn(first, c) # Free /\ ~Exposed(c) =>
         medium[Sector(FirstVolume, c)] = first[Sector(FirstVolume, c)]
    /\ medium[FirstVolume.root_sector] = first[FirstVolume.root_sector]
    /\ \A s \in saved :
         LET lba == Sector(FirstVolume, s[1])
         IN medium[lba] = s[2] \/ drive = [state |-> "writing", lba |-> lba, data |-> s[2]]

\* The FAT changes only where a cluster was given out: its entry, which was free, ends
\* a chain, except the one whose last digits lie in the next sector; and no data are
\* saved in a cluster that the FAT does not yet have as taken, whenever the power goes.
EntriesKept ==
  late = 0 =>
    /\ \A c \in Clusters : EntryOn(medium, c) # EntryOn(first, c) =>
         /\ EntryOn(first, c) = Free \/ Exposed(c)
         /\ EntryOn(medium, c) = EndOfChain \/ Straddles(c)
    /\ \A s \in saved : EntryOn(medium, s[1]) # Free
==============================================================================
