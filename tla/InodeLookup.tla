----------------------------- MODULE InodeLookup -----------------------------
(***************************************************************************)
(* Finding a file in the root file system (bootloader/filesystem.c):       *)
(* BlFsFind walks a path with BiFindInode, which calls itself for each     *)
(* symbolic link, and hands the inode it found, a block of the heap, to    *)
(* its caller, who gives it back with BlFsFree.                            *)
(*                                                                         *)
(* A path is a sequence of names and Slash.  The file system maps inode    *)
(* numbers to a type, the entries of a directory in their order (those     *)
(* with inode number 0 are unused), the target of a link, and whether that *)
(* can be read.  An inode in memory is a block of the heap, an index of    *)
(* objects, or Root for &BiRoot, which is never freed.  A free block may   *)
(* be handed out again.  What the heap does once a free block is freed, or *)
(* one that has been given to somebody else, is left open: the model stops *)
(* there.                                                                  *)
(***************************************************************************)
EXTENDS Integers, Sequences, FiniteSets, SequencesExt

CONSTANTS
  Tokens,       \* names and Slash
  Paths,        \* what BlFsFind is asked for
  Slash,        \* '/'
  RootNumber,   \* BI_ROOT_INODE
  MaxSymlinks   \* BI_MAX_SYMLINKS

\* What a volume is; the composing module assumes it of those it mounts.
IsVolume(v) ==
  /\ RootNumber \in DOMAIN v /\ v[RootNumber].type = "dir"
  /\ DOMAIN v \subseteq Nat \ {0}
  /\ \A n \in DOMAIN v :
       /\ v[n].type \in {"dir", "reg", "sym"}
       /\ v[n].target \in Seq(Tokens)
       /\ \A k \in 1..Len(v[n].entries) :
            v[n].entries[k].inode \in DOMAIN v \union {0}

InodeLookupAssumption ==
  /\ Paths \subseteq Seq(Tokens)
  /\ MaxSymlinks \in Nat

VARIABLES
  volume,    \* the file system, as BiReadInode finds it on the partition
  path,      \* the path BlFsFind was called with
  pc,        \* "find", "loop", "return", "open" or "closed", "crashed" when the
             \* bootloader is, "undefined" when the heap is
  stack,     \* the calls of BiFindInode, the innermost first
  result,    \* what the last call to return returned
  objects,   \* the heap's blocks: the number of the inode read into each, and
             \* whether it is allocated
  nested     \* a relative link was followed from an allocated directory

vars == <<volume, path, pc, stack, result, objects, nested>>

Root == 0
Null == -1

Number(object) == IF object = Root THEN RootNumber ELSE objects[object].number

Inode(object) == volume[Number(object)]

\* BiMaybeFreeInode, of a block that is live.
MaybeFree(inodes, object) ==
  IF object = Root THEN inodes
  ELSE [inodes EXCEPT ![object].live = FALSE]

\* What BL_ALLOCATE may return: any block that is free, or one never used before.
FreeBlocks(inodes) ==
  {Len(inodes) + 1} \union {k \in DOMAIN inodes : ~inodes[k].live}

\* BiReadInode into the block that was allocated.
Allocated(inodes, block, number) ==
  LET inode == [number |-> number, live |-> TRUE]
  IN IF block \in DOMAIN inodes THEN [inodes EXCEPT ![block] = inode]
     ELSE Append(inodes, inode)

\* BiFindEntryInDirectory: the number of the first entry with that name, or 0.
FindEntry(dir, name) ==
  LET k == SelectInSeq(dir.entries, LAMBDA e : e.inode # 0 /\ e.name = name)
  IN IF k = 0 THEN 0 ELSE dir.entries[k].inode

SkipSlashes(p) ==
  IF \A k \in DOMAIN p : p[k] = Slash THEN <<>>
  ELSE SubSeq(p, SelectInSeq(p, LAMBDA x : x # Slash), Len(p))

Init ==
  /\ path \in Paths
  /\ pc = "find"
  /\ stack = <<>>
  /\ result = Null
  /\ objects = <<>>
  /\ nested = FALSE

---------------------------------------------------------------------------
(* BiFindInode.                                                            *)

\* The call, up to the loop.
Enter(object, p, symlinks, callers) ==
  IF symlinks = MaxSymlinks \/ p = <<>>
    THEN /\ pc' = "return" /\ result' = Null /\ stack' = callers
    ELSE /\ pc' = "loop"
         /\ stack' = <<[inode    |-> IF Head(p) = Slash THEN Root ELSE object,
                        path     |-> p,
                        symlinks |-> symlinks]>> \o callers
         /\ UNCHANGED result

Leave(object) ==
  /\ pc' = "return"
  /\ result' = object
  /\ stack' = Tail(stack)

\* Go on with the rest of the path from the inode its first name led to.
Advance(object, rest) ==
  IF rest = <<>> THEN Leave(object)
  ELSE /\ stack' = <<[Head(stack) EXCEPT !.inode = object, !.path = rest]>>
                     \o Tail(stack)
       /\ pc' = "loop"
       /\ UNCHANGED result

call == Head(stack)
rest == SkipSlashes(call.path)
IsDirectory == Inode(call.inode).type = "dir"
entry == FindEntry(Inode(call.inode), Head(rest))

Find ==
  /\ pc = "find"
  /\ Enter(Root, path, 0, <<>>)
  /\ UNCHANGED <<volume, path, objects, nested>>

NotFound ==
  /\ pc = "loop"
  /\ ~IsDirectory \/ (rest # <<>> /\ entry = 0)
  /\ objects' = MaybeFree(objects, call.inode)
  /\ Leave(Null)
  /\ UNCHANGED <<volume, path, nested>>

\* Mutant: the length is tested before the slashes are skipped.
EndOfPathBeforeSlashes ==
  /\ pc = "loop"
  /\ IsDirectory
  /\ call.path = <<>>
  /\ Leave(call.inode)
  /\ UNCHANGED <<volume, path, objects, nested>>

\* Mutant: the directory is freed though it is the result.
EndOfPathFreed ==
  /\ pc = "loop"
  /\ IsDirectory
  /\ rest = <<>>
  /\ objects' = MaybeFree(objects, call.inode)
  /\ Leave(call.inode)
  /\ UNCHANGED <<volume, path, nested>>

\* Nothing but slashes is left.
EndOfPath ==
  /\ pc = "loop"
  /\ IsDirectory
  /\ rest = <<>>
  /\ Leave(call.inode)
  /\ UNCHANGED <<volume, path, objects, nested>>

\* The link's own inode is freed once its target is read.  The call for the
\* target is given this call's own directory.
FollowLink ==
  /\ pc = "loop"
  /\ IsDirectory
  /\ rest # <<>>
  /\ entry # 0
  /\ volume[entry].type = "sym" /\ volume[entry].readable
  /\ \E block \in FreeBlocks(objects) :
       objects' = MaybeFree(Allocated(objects, block, entry), block)
  /\ Enter(call.inode, volume[entry].target, call.symlinks + 1,
           <<[call EXCEPT !.path = rest]>> \o Tail(stack))
  /\ nested' = (nested \/ (pc' = "loop" /\ Head(stack').inode # Root))
  /\ UNCHANGED <<volume, path>>

\* BlCrash: what the link's pointers name is not on the partition.
LinkUnreadable ==
  /\ pc = "loop"
  /\ IsDirectory
  /\ rest # <<>>
  /\ entry # 0
  /\ volume[entry].type = "sym" /\ ~volume[entry].readable
  /\ pc' = "crashed"
  /\ UNCHANGED <<volume, path, stack, result, objects, nested>>

Descend ==
  /\ pc = "loop"
  /\ IsDirectory
  /\ rest # <<>>
  /\ entry # 0
  /\ volume[entry].type # "sym"
  /\ \E block \in FreeBlocks(objects) :
       /\ objects' = MaybeFree(Allocated(objects, block, entry), call.inode)
       /\ Advance(block, Tail(rest))
  /\ UNCHANGED <<volume, path, nested>>

\* The directory was given to the call for the link, which has freed it: its
\* block is free, or the inode that call returns is in it.
Dangling ==
  call.inode # Root /\ (~objects[call.inode].live \/ call.inode = result)

\* The call for a link has returned, and the directory is freed.
LinkFollowed ==
  /\ pc = "return"
  /\ stack # <<>>
  /\ ~Dangling
  /\ objects' = MaybeFree(objects, call.inode)
  /\ IF result = Null THEN Leave(Null) ELSE Advance(result, Tail(call.path))
  /\ UNCHANGED <<volume, path, nested>>

\* The directory is freed a second time, or the result in its place: the list of
\* free ranges is no longer one, or the caller goes on with a block that is free.
FreedTwice ==
  /\ pc = "return"
  /\ stack # <<>>
  /\ Dangling
  /\ pc' = "undefined"
  /\ UNCHANGED <<volume, path, stack, result, objects, nested>>

---------------------------------------------------------------------------
(* BlFsFind, and its caller.                                               *)

Found ==
  /\ pc = "return"
  /\ stack = <<>>
  /\ IF result = Null \/ Inode(result).type # "reg"
       THEN /\ objects' = IF result = Null THEN objects
                          ELSE MaybeFree(objects, result)
            /\ pc' = "closed"
            /\ result' = Null
       ELSE pc' = "open" /\ UNCHANGED <<objects, result>>
  /\ UNCHANGED <<volume, path, stack, nested>>

\* BlFsFree.
Close ==
  /\ pc = "open"
  /\ objects' = MaybeFree(objects, result)
  /\ pc' = "closed"
  /\ UNCHANGED <<volume, path, stack, result, nested>>

Next ==
  \/ Find
  \/ NotFound
  \/ EndOfPath
  \/ FollowLink
  \/ LinkUnreadable
  \/ Descend
  \/ LinkFollowed
  \/ FreedTwice
  \/ Found
  \/ Close

---------------------------------------------------------------------------
(* Properties.                                                             *)

\* Where a name leads from a number, or 0, when links lead where links says.
Step(at, name, links) ==
  LET found == IF at # 0 /\ volume[at].type = "dir"
                 THEN FindEntry(volume[at], name) ELSE 0
  IN IF found # 0 /\ volume[found].type = "sym" THEN links[at][found] ELSE found

\* Where names and slashes lead from a number, one by one.  What ends in a slash
\* is a directory.
Walk(from, p, links) ==
  LET at[k \in 0..Len(p)] ==
        IF k = 0 THEN from
        ELSE IF p[k] = Slash THEN at[k - 1]
        ELSE Step(at[k - 1], p[k], links)
      to == at[Len(p)]
  IN IF to # 0 /\ Last(p) = Slash /\ volume[to].type # "dir" THEN 0 ELSE to

Destination(dir, p, links) ==
  IF p = <<>> THEN 0
  ELSE Walk(IF Head(p) = Slash THEN RootNumber ELSE dir, p, links)

\* Where each link leads from each directory, n links inside each other at most.
LinksLead[n \in Nat] ==
  [dir \in DOMAIN volume |-> [link \in DOMAIN volume |->
     IF n = 0 THEN 0
     ELSE Destination(dir, volume[link].target, LinksLead[n - 1])]]

\* What the path means: the number it leads to, or 0.
Resolution ==
  IF MaxSymlinks = 0 THEN 0
  ELSE Destination(RootNumber, path, LinksLead[MaxSymlinks - 1])

\* A BlFsFind that returns has found the regular file the path means, through
\* whatever links, and nothing else: the walk is the resolution of the path.
LookupIsResolution ==
  pc \in {"open", "closed"} =>
    IF Resolution # 0 /\ volume[Resolution].type = "reg"
      THEN result # Null /\ Number(result) = Resolution
      ELSE result = Null

\* Every inode is given back by the time the file is closed: the links, the
\* directories on the way, also when the walk fails.
NoInodeLeaked ==
  pc = "closed" => \A k \in DOMAIN objects : ~objects[k].live

\* The inode a call looks at is allocated, and so is the one that is returned or
\* open.  Unless a relative link was followed from a directory other than the
\* root, each inode has one owner that will free it, a call or the caller of the
\* one that returned, and none is freed twice.
FreedOnce ==
  /\ pc = "loop" /\ call.inode # Root => objects[call.inode].live
  /\ pc \in {"return", "open"} /\ result > Root => objects[result].live
  /\ ~nested =>
       /\ pc # "undefined"
       /\ \A k \in DOMAIN stack : stack[k].inode # Root =>
            /\ objects[stack[k].inode].live
            /\ pc = "return" => stack[k].inode # result
            /\ \A j \in DOMAIN stack : stack[j].inode = stack[k].inode => j = k
==============================================================================
