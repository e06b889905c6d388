------------------------------- MODULE MCFiles -------------------------------
(***************************************************************************)
(* The FAT disk for TLC: a directory whose name begins like another's, a   *)
(* deleted entry, a subdirectory with its "." and "..", an empty file and  *)
(* an entry past the first sector.  Entry 5 of the FAT straddles its two   *)
(* sectors, as entry 341 does on a real disk; on one of the disks it is    *)
(* free, on the other it belongs to a file that goes on at cluster 16.     *)
(***************************************************************************)
EXTENDS Files

Entry(name, kind, cluster, size) ==
  [name |-> name, kind |-> kind, cluster |-> cluster, size |-> size]

MCBoot == [reserved |-> 1, fat_cnt |-> 1, sectors_per_fat |-> 2, root_entries |-> 6,
           sectors_per_cluster |-> 2]

Root == << Entry(<<"A", "B">>, "deleted", 0, 0), Entry(<<"B">>, "file", 4, 3),
           Entry(<<"A", "B">>, "dir", 2, 0), Entry(<<"A">>, "dir", 3, 0),
           Entry(<<"B", "B">>, "file", 0, 0), Entry(<<"B", "A">>, "dir", 9, 0) >>

\* What lies in the first sector of a cluster.
ClusterData(c) ==
  CASE c = 2 -> << Entry(<<".">>, "dir", 2, 0), Entry(<<".", ".">>, "dir", 0, 0),
                   Entry(<<"A">>, "dir", 7, 0) >>
    [] c = 7 -> << Entry(<<".">>, "dir", 7, 0), Entry(<<".", ".">>, "dir", 2, 0) >>
    [] c \in {3, 9} -> << Entry(<<".">>, "dir", c, 0), Entry(<<".", ".">>, "dir", 0, 0) >>

Digit12(n) == <<n % 16, (n \div 16) % 16, n \div 256>>

\* The FAT, by digits: the value of each entry.
FatDisk(value) ==
  LET digits == [d \in 0 .. 31 |-> IF d \div 3 \in 0 .. 9 THEN Digit12(value[d \div 3])[(d % 3) + 1] ELSE 0]
  IN [k \in 0 .. 1 |-> <<"fat", [p \in 0 .. 15 |-> digits[16 * k + p]]>>]

MCLbas == {0, 1, 2, 3, 4} \cup {5 + 2 * (c - 2) : c \in 2 .. 9}

Disk(value) ==
  [l \in MCLbas |->
     CASE l = 0 -> <<"boot", MCBoot>>
       [] l \in {1, 2} -> FatDisk(value)[l - 1]
       [] l = 3 -> <<"directory", SubSeq(Root, 1, 5)>>
       [] l = 4 -> <<"directory", SubSeq(Root, 6, 6)>>
       [] OTHER -> LET c == (l - 5) \div 2 + 2
                   IN IF c \in {2, 3, 7, 9} THEN <<"directory", ClusterData(c)>>
                      ELSE <<"data", ToString(c)>>]

EOC == 4095
Value(four, five) == [c \in 0 .. 9 |-> CASE c = 4 -> four [] c = 5 -> five [] c = 6 -> 0 [] OTHER -> EOC]
MCDisks == { Disk(Value(EOC, 0)), Disk(Value(5, 16)) }

MCGarbage == { <<"zeros">>, <<"ones">> }
MCTyped == { <<"a">>, <<"B">>, <<"B", "A">>, <<".", ".">> }
MCToupper == [c \in {"a", "A", "B", "."} |-> IF c = "a" THEN "A" ELSE c]

\* The entry of that very name.
FindExact(es, name) ==
  First({ i \in Present(es) : es[i].kind = "dir" /\ es[i].name = Search(name, 8) })

\* "pwd     - print path" (kernel.c:952): the path printed is the current directory's.
PwdNamesCurrentDirectory ==
  mounted /\ late = 0 => Follow(first, current_path, FindExact) = current_dir_cluster
==============================================================================
