---------------------------- MODULE MCFileSystem ----------------------------
(* Two volumes.  In the first, links in the root and in a subdirectory,    *)
(* relative and absolute, to a file, to a directory, to nothing, to        *)
(* themselves and through two more links.  In the second a name that was   *)
(* deleted and made again, and a path of links one longer than the limit.  *)
(* The paths are those of up to four names and slashes, but not three      *)
(* slashes in a row, and some of three names.                              *)
(*                                                                         *)
(* Blocks have 4 bytes (two sectors); files have two direct blocks and     *)
(* trees of heights 1 to 3 with two pointers per block, 16 blocks in all.  *)
(* Blocks 43 to 57 hold pointers.  One file is full, one has holes of      *)
(* every size, one has a block that ends beyond the partition.  Inodes are *)
(* in groups of one to three, and of the old size or twice as long; one    *)
(* partition of each kind that BlFsInitialize refuses.                     *)
(*                                                                         *)
(* The targets of links are in blocks 13 to 19, one of them in two blocks. *)
(* A fourth partition has the first one's links in the inodes instead, so  *)
(* that the pointers name the block of another target, a hole, and blocks  *)
(* behind the partition's end.  Its inode size is 0.                       *)
EXTENDS FileSystem, TLC

MCPointersOf ==
  [block \in 43..57 |->
    <<<<40, 21>>,
      <<45, 46>>, <<22, 23>>, <<39, 25>>,
      <<48, 49>>, <<50, 51>>, <<52, 53>>,
      <<26, 27>>, <<28, 29>>, <<38, 31>>, <<32, 33>>,
      <<0, 24>>, <<57, 0>>, <<0, 48>>, <<35, 58>>>>[block - 42]]

MCTextAt ==
  LET texts == (52 :> "boot" @@ 53 :> "/" @@ 54 :> "/" @@ 55 :> "/" @@ 56 :> "l"
                  @@ 60 :> "k"
                  @@ 64 :> "/" @@ 65 :> "boot" @@ 68 :> "/" @@ 69 :> "k"
                  @@ 72 :> "b" @@ 73 :> "/" @@ 74 :> "k" @@ 76 :> "/" @@ 77 :> "l")
  IN [address \in 0..231 |->
        IF address \in DOMAIN texts THEN texts[address] ELSE "garbage"]

Inode(type) == [type |-> type, size |-> 0, entries |-> <<>>, target |-> <<>>,
                data |-> <<>>, direct |-> <<0, 0>>, indirect |-> <<0, 0, 0>>]
File(size, direct, indirect) ==
  [Inode("reg") EXCEPT !.size = size, !.direct = direct, !.indirect = indirect]
Link(target, direct) ==
  [Inode("sym") EXCEPT !.target = target, !.size = Len(target), !.direct = direct]
Entry(name, inode) ==
  [name |-> name, inode |-> inode, size |-> 2 + (inode % 2), type |-> 0]

\* A directory's entries lie one behind the other, of sizes 2 and 3.
Dir(entries) ==
  LET Offset(k) == FoldLeft(LAMBDA sum, e : sum + e.size, 0, SubSeq(entries, 1, k - 1))
      offsets == {Offset(k) : k \in DOMAIN entries}
  IN [Inode("dir") EXCEPT
        !.entries = entries,
        !.size = Offset(Len(entries) + 1),
        !.data = [at \in offsets |->
                    entries[CHOOSE k \in DOMAIN entries : Offset(k) = at]]]

Full == File(63, <<34, 20>>, <<43, 44, 47>>)
Holes == File(50, <<0, 20>>, <<54, 0, 56>>)
Beyond == File(22, <<34, 0>>, <<57, 55, 0>>)

Links(file, direct) ==
  2 :> Dir(<<Entry("boot", 3), Entry("k", 5), Entry("l", 6), Entry("b", 8)>>)
    @@ 3 :> Dir(<<Entry("k", 4), Entry("l", 7), Entry("b", 9)>>)
    @@ 4 :> file
    @@ 5 :> Link(<<"boot", "/", "/", "/", "l">>, direct[1])
    @@ 6 :> Link(<<"l">>, direct[2])
    @@ 7 :> Link(<<"k">>, direct[3])
    @@ 8 :> Link(<<"/", "boot">>, direct[4])
    @@ 9 :> Link(<<"/", "k">>, direct[5])

InBlocks == <<<<13, 14>>, <<14, 0>>, <<15, 0>>, <<16, 0>>, <<17, 0>>>>
InInodes == <<<<15, 0>>, <<13, 0>>, <<58, 0>>, <<99, 0>>, <<0, 15>>>>

\* The type of an entry is read only where entries have types.
Typed(contents) ==
  [number \in DOMAIN contents |->
     [contents[number] EXCEPT
        !.entries = [k \in DOMAIN @ |-> [@[k] EXCEPT !.type = 1]],
        !.data = [at \in DOMAIN @ |-> [@[at] EXCEPT !.type = 1]]]]

Deleted(file) ==
  2 :> Dir(<<Entry("k", 0), Entry("b", 5), Entry("boot", 3), Entry("k", 4),
             Entry("l", 6)>>)
    @@ 3 :> Dir(<<Entry("boot", 4), Entry("k", 9), Entry("b", 8)>>)
    @@ 4 :> file
    @@ 5 :> Link(<<"boot", "/">>, <<13, 0>>)
    @@ 6 :> Link(<<"b", "/", "k">>, <<18, 0>>)
    @@ 8 :> Link(<<>>, <<0, 0>>)
    @@ 9 :> Link(<<"/", "l">>, <<19, 0>>)

\* mkfs: group by group, descriptors in block 2 and inode tables behind it.
Format(contents, tables, perGroup, size, superblock) ==
  LET groups == 0..(Len(tables) - 1)
      Group(address) == CHOOSE g \in groups : address - tables[g + 1] * 4 \in 0..(perGroup * size - 1)
      Number(address) == Group(address) * perGroup
                         + (address - tables[Group(address) + 1] * 4) \div size + 1
      slots == {tables[g + 1] * 4 + i * size : g \in groups, i \in 0..(perGroup - 1)}
  IN [superblock  |-> superblock @@ [groupInodes |-> perGroup],
      descriptors |-> [address \in {8 + g : g \in groups} |-> tables[address - 7]],
      inodes      |-> [address \in slots |->
                         IF Number(address) \in DOMAIN contents
                           THEN contents[Number(address)] ELSE Inode("none")],
      contents    |-> contents]

Superblock(version, inodeSize) ==
  [signature |-> "ext2", version |-> version, inodeSize |-> inodeSize,
   required |-> IF version = 0 THEN {"garbage"} ELSE {"types"}]

Good ==
  Format(Typed(Links(Full, InBlocks)), <<5, 7, 4, 9, 12>>, 2, 2, Superblock(1, 2))

MCPartitions == {
  Good,
  Format(Deleted(Holes), <<4, 6, 5>>, 3, 1, Superblock(0, 3)),
  Format(Deleted(Beyond), <<4, 9, 5, 7, 6>>, 2, 1, Superblock(1, 1)),
  Format(Links(Full, InInodes), <<4, 5, 6, 7, 8, 9, 10, 11, 12>>, 1, 1,
         Superblock(1, 0)),
  [Good EXCEPT !.superblock.signature = "swap"],
  [Good EXCEPT !.superblock.required = {"types", "journal"}],
  [Good EXCEPT !.superblock.inodeSize = 3]}

Asked == {"/", "boot", "k", "l", "b"}

MCTokens == Asked \union {"zero", "garbage"}

MCPaths ==
  {p \in UNION {[1..n -> Asked] : n \in 0..4} :
     /\ \A i \in 1..(Len(p) - 1) : p[i] = "/" \/ p[i + 1] = "/"
     /\ \A i \in 1..(Len(p) - 2) : \E k \in i..(i + 2) : p[k] # "/"}
  \union {<<a, "/", b, "/", c>> :
            a \in {"boot", "b"}, b \in {"l", "b"}, c \in {"k", "l"}}

\* A file found directly and one found through links.
MCReadPaths == {<<"boot", "/", "boot">>, <<"k">>}
=============================================================================
