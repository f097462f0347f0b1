------------------------------ MODULE PosixFs ------------------------------
(* The file system under the library, as platform.cpp uses it: names in one *)
(* directory, inodes with contents, what is on disk and what is only in the *)
(* cache.  None of it is code of this repository; each operator is one      *)
(* system call (or one thing the kernel does by itself), atomic like it.    *)
EXTENDS Naturals, Sequences

CONSTANTS Inodes,   \* inodes; one that nothing links or opens is recycled
          NoInode,  \* what a name without a file is mapped to
          Hole      \* a block nobody wrote, below the end of the file

VARIABLES dir,      \* name -> inode, as every process sees it
          durDir,   \* name -> inode, as a power loss would leave it
          data,     \* inode -> sequence of blocks
          synced    \* inodes whose contents are on disk

fsVars == <<dir, durDir, data, synced>>

FsTypeOK(names, blocks) ==
    /\ dir \in [names -> Inodes \cup {NoInode}]
    /\ durDir \in [names -> Inodes \cup {NoInode}]
    /\ data \in [Inodes -> Seq(blocks)]
    /\ synced \in SUBSET Inodes

Linked(i) == \E n \in DOMAIN dir : dir[n] = i \/ durDir[n] = i

(* open(O_WRONLY | O_CREAT | O_TRUNC): the file n has is emptied, or a free *)
(* inode, not among the open ones, becomes its file.                        *)
OpenTrunc(n, i, open) ==
    /\ \/ dir[n] = i
       \/ dir[n] = NoInode /\ i \notin open /\ ~Linked(i)
    /\ dir' = [dir EXCEPT ![n] = i]
    /\ data' = [data EXCEPT ![i] = <<>>]
    /\ synced' = synced \ {i}
    /\ UNCHANGED durDir

(* The contents s after len blocks v are written from offset off on.        *)
Overlay(s, off, len, v) ==
    [k \in 1 .. (IF off + len > Len(s) THEN off + len ELSE Len(s)) |->
        IF off < k /\ k <= off + len THEN v
        ELSE IF k <= Len(s) THEN s[k] ELSE Hole]

(* write(2) of len blocks v at the file offset off of the descriptor.       *)
WriteAt(i, off, len, v) ==
    /\ data' = [data EXCEPT ![i] = Overlay(@, off, len, v)]
    /\ synced' = synced \ {i}
    /\ UNCHANGED <<dir, durDir>>

(* fsync(2) / FlushFileBuffers: the contents, not the directory entry.      *)
Fsync(i) ==
    /\ synced' = synced \cup {i}
    /\ UNCHANGED <<dir, durDir, data>>

(* rename(2) / MoveFileEx(REPLACE_EXISTING): atomic in the directory.       *)
RenameOver(from, to) ==
    /\ dir' = [dir EXCEPT ![to] = dir[from], ![from] = NoInode]
    /\ UNCHANGED <<durDir, data, synced>>

Unlink(n) ==
    /\ dir' = [dir EXCEPT ![n] = NoInode]
    /\ UNCHANGED <<durDir, data, synced>>

(* The journal makes the directory durable, whenever the kernel chooses.    *)
JournalCommit ==
    /\ durDir # dir
    /\ durDir' = dir
    /\ UNCHANGED <<dir, data, synced>>

(* A power loss: the durable directory is back, an inode no name links is   *)
(* freed, and of one that was not synced only the first cut[i] blocks are   *)
(* on disk.                                                                 *)
LosePower(cut) ==
    /\ dir' = durDir
    /\ synced' = Inodes
    /\ data' = [i \in Inodes |->
                  IF \A n \in DOMAIN durDir : durDir[n] # i THEN <<>>
                  ELSE IF i \in synced \/ Len(data[i]) <= cut[i] THEN data[i]
                  ELSE SubSeq(data[i], 1, cut[i])]
    /\ UNCHANGED durDir
============================================================================
