----------------------------- MODULE DeviceTree -----------------------------
(***************************************************************************)
(* The device tree the bootloader makes for the kernel                     *)
(* (bootloader/dt.c): nodes with their properties, whose names are shared  *)
(* in a hash table that grows, and the flattened form BlDtBuildBlob makes  *)
(* of them.  The blob's size is counted while the tree is made, long       *)
(* before it is written.                                                   *)
(*                                                                         *)
(* Node 1 is BlDtRootNode and 0 is the null pointer.  A token of the blob  *)
(* is a record; only its size is in bytes.                                 *)
(***************************************************************************)
EXTENDS Integers, Sequences, FiniteSets, SequencesExt

CONSTANTS
  NodeNames, PropertyNames,
  Length,           \* BlStringLength of each name
  Hash,             \* BlDtHash of each property name
  DataSizes,        \* sizes of property values
  InitialCapacity,  \* of the hash table: 8
  MaxNodes, MaxProperties  \* bounds

ASSUME DeviceTreeAssumption ==
  /\ Length \in [NodeNames \union PropertyNames -> Nat \ {0}]
  /\ Hash \in [PropertyNames -> Nat]
  /\ DataSizes \subseteq Nat
  /\ InitialCapacity \in Nat \ {0}

VARIABLES
  nodes,          \* Parent, Name, Children, Properties of each node
  structureSize,  \* BlDtStructureSize
  strings,        \* BlDtStrings: the names in each bucket
  stringsSize,    \* BlDtStringsSize
  phase,          \* "make", "walk", "done" or "assert"
  identifier,     \* Identifier of each string
  node, previous, \* of the walk in BlDtBuildBlob
  blob,           \* the structure block so far
  offset          \* and its size

tree == <<nodes, structureSize, strings, stringsSize>>

treeVars == <<tree, phase, identifier, node, previous, blob, offset>>

Align(size) == ((size + 3) \div 4) * 4

RootName == "root"

NameLength(name) == IF name = RootName THEN 0 ELSE Length[name]

Node(parent, name) ==
  [parent |-> parent, name |-> name, children |-> <<>>, properties |-> <<>>]

TreeInit ==
  /\ nodes = <<Node(0, RootName)>>
  /\ structureSize = 16
  /\ strings = <<>>
  /\ stringsSize = 0
  /\ phase = "make"
  /\ identifier = <<>>
  /\ node = 1
  /\ previous = 0
  /\ blob = <<>>
  /\ offset = 0

---------------------------------------------------------------------------
(* Making the tree.                                                        *)

\* Mutant: the length of the name is not rounded up with its final zero.
CreateNodeNoTerminator(parent, name) ==
  /\ phase = "make"
  /\ Len(nodes) < MaxNodes
  /\ nodes' = Append([nodes EXCEPT ![parent].children =
                                     Append(@, Len(nodes) + 1)],
                     Node(parent, name))
  /\ structureSize' = structureSize + 8 + Align(NameLength(name))
  /\ UNCHANGED <<strings, stringsSize, phase, identifier, node, previous,
                 blob, offset>>

CreateNode(parent, name) ==
  /\ phase = "make"
  /\ Len(nodes) < MaxNodes
  /\ nodes' = Append([nodes EXCEPT ![parent].children =
                                     Append(@, Len(nodes) + 1)],
                     Node(parent, name))
  /\ structureSize' = structureSize + 8 + Align(NameLength(name) + 1)
  /\ UNCHANGED <<strings, stringsSize, phase, identifier, node, previous,
                 blob, offset>>

Capacity(table) == Len(table)

Bucket(table, name) == (Hash[name] % Capacity(table)) + 1

Count(table) == Len(FlattenSeq(table))

Insert(table, name) ==
  [table EXCEPT ![Bucket(table, name)] = <<name>> \o @]

\* Mutant: the table is doubled but the strings stay in their buckets.
GrownInPlace(table) ==
  IF Capacity(table) = 0 THEN [b \in 1..InitialCapacity |-> <<>>]
  ELSE table \o [b \in DOMAIN table |-> <<>>]

\* Each string is inserted at the head of its new bucket.
Grown(table) ==
  LET capacity == IF Capacity(table) = 0 THEN InitialCapacity
                  ELSE 2 * Capacity(table)
      all == FlattenSeq(table)
      moved[k \in 0..Len(all)] ==
        IF k = 0 THEN [b \in 1..capacity |-> <<>>]
        ELSE Insert(moved[k - 1], all[k])
  IN moved[Len(all)]

Known(table, name) ==
  Count(table) > 0 /\ name \in Range(table[Bucket(table, name)])

\* BlDtGetString: grow when three quarters of the capacity are used.
GetString(table, name) ==
  IF Known(table, name) THEN table
  ELSE Insert(IF Count(table) >= Capacity(table) - Capacity(table) \div 4
                THEN Grown(table) ELSE table, name)

AddProperty(parent, name, size) ==
  /\ phase = "make"
  /\ Len(FlattenSeq([n \in DOMAIN nodes |-> nodes[n].properties]))
       < MaxProperties
  /\ nodes' = [nodes EXCEPT ![parent].properties =
                              Append(@, [name |-> name, size |-> size])]
  /\ strings' = GetString(strings, name)
  /\ stringsSize' = IF Known(strings, name) THEN stringsSize
                    ELSE stringsSize + Length[name] + 1
  /\ structureSize' = structureSize + 12 + Align(size)
  /\ UNCHANGED <<phase, identifier, node, previous, blob, offset>>

---------------------------------------------------------------------------
(* BlDtBuildBlob.                                                          *)

Total(sizes) ==
  LET sum[k \in 0..Len(sizes)] ==
        IF k = 0 THEN 0 ELSE sum[k - 1] + sizes[k]
  IN sum[Len(sizes)]

\* The bytes some strings take, each with its final zero.
BytesOf(names) == Total([k \in DOMAIN names |-> Length[names[k]] + 1])

\* Mutant: a string's identifier is the offset behind it.
PlaceBehind(all) ==
  [k \in DOMAIN all |-> [name |-> all[k], at |-> BytesOf(SubSeq(all, 1, k))]]

\* Where each string starts in the strings block: bucket by bucket.
Place(all) ==
  [k \in DOMAIN all |-> [name |-> all[k], at |-> BytesOf(SubSeq(all, 1, k - 1))]]

BuildStrings ==
  /\ phase = "make"
  /\ identifier' = Place(FlattenSeq(strings))
  /\ phase' = IF BytesOf(FlattenSeq(strings)) = stringsSize
                THEN "walk" ELSE "assert"
  /\ UNCHANGED <<tree, node, previous, blob, offset>>

Identifier(name) ==
  identifier[CHOOSE k \in DOMAIN identifier : identifier[k].name = name].at

Begin(n) ==
  <<[token |-> "begin", name |-> nodes[n].name,
     bytes |-> 4 + Align(NameLength(nodes[n].name) + 1)]>>

Prop(property, id) ==
  [token |-> "prop", size |-> property.size, name |-> id,
   bytes |-> 12 + Align(property.size)]

End(token) == <<[token |-> token, bytes |-> 4]>>

\* Write tokens; each write is checked against the size that was counted.
Emit(tokens, next) ==
  LET size == offset + Total([k \in DOMAIN tokens |-> tokens[k].bytes])
  IN /\ blob' = blob \o tokens
     /\ offset' = size
     /\ phase' = IF size <= structureSize THEN next ELSE "assert"

NextSibling(n) ==
  LET siblings == nodes[nodes[n].parent].children
      k == CHOOSE i \in DOMAIN siblings : siblings[i] = n
  IN IF k = Len(siblings) THEN 0 ELSE siblings[k + 1]

\* One turn of the loop: into a node, to its next child, or out of it.
Walk ==
  LET entering == previous = nodes[node].parent
      next == IF ~entering THEN NextSibling(previous)
              ELSE IF nodes[node].children = <<>> THEN 0
              ELSE Head(nodes[node].children)
      opening == Begin(node) \o
        [k \in DOMAIN nodes[node].properties |->
           LET property == nodes[node].properties[k]
           IN Prop(property, Identifier(property.name))]
  IN /\ phase = "walk"
     /\ node # 0
     /\ Emit((IF entering THEN opening ELSE <<>>)
               \o (IF next = 0 THEN End("end") ELSE <<>>), "walk")
     /\ node' = IF next # 0 THEN next ELSE nodes[node].parent
     /\ previous' = node
     /\ UNCHANGED <<tree, identifier>>

EndBlob ==
  /\ phase = "walk"
  /\ node = 0
  /\ Emit(End("END"), IF offset + 4 = structureSize THEN "done" ELSE "assert")
  /\ UNCHANGED <<tree, identifier, node, previous>>

TreeNext ==
  \/ \E parent \in DOMAIN nodes :
       \/ \E name \in NodeNames : CreateNode(parent, name)
       \/ \E name \in PropertyNames, size \in DataSizes :
            AddProperty(parent, name, size)
  \/ BuildStrings
  \/ Walk
  \/ EndBlob

\* Once the blob is begun nothing else happens until it is done.
TreeSpec == TreeInit /\ [][TreeNext]_treeVars

---------------------------------------------------------------------------
(* Properties.                                                             *)

\* The assertions in dt.c hold: what is written has the size that was
\* counted, and nothing is ever written behind it.
AssertionsHold == phase # "assert"

\* Every property name is in the table exactly once, in the bucket its hash
\* says now, however often the table grew; a quarter of the table is free.
StringsFindable ==
  /\ IsInjective(FlattenSeq(strings))
  /\ Range(FlattenSeq(strings)) =
       UNION {{p.name : p \in Range(nodes[n].properties)} : n \in DOMAIN nodes}
  /\ \A b \in DOMAIN strings, name \in PropertyNames :
       name \in Range(strings[b]) => b = Bucket(strings, name)
  /\ Capacity(strings) > 0 =>
       4 * Count(strings) <= 3 * Capacity(strings) + 3

\* The flattened tree, by recursion over the nodes, with the properties'
\* names in full.
Flat[n \in DOMAIN nodes] ==
  Begin(n)
    \o [k \in DOMAIN nodes[n].properties |->
          Prop(nodes[n].properties[k], nodes[n].properties[k].name)]
    \o FlattenSeq([k \in DOMAIN nodes[n].children |->
                     Flat[nodes[n].children[k]]])
    \o End("end")

\* A name starts at a place in the strings block.
StartsAt(name, at) ==
  LET all == FlattenSeq(strings)
  IN \E k \in DOMAIN all :
       all[k] = name /\ at = BytesOf(SubSeq(all, 1, k - 1))

\* The blob is the tree: the loop visits every node in order, closes each
\* one once, and every property's identifier leads to its name.
BlobIsTree ==
  phase = "done" =>
    LET flat == Flat[1] \o End("END")
    IN /\ Len(blob) = Len(flat)
       /\ \A k \in DOMAIN flat :
            IF flat[k].token = "prop"
              THEN /\ StartsAt(flat[k].name, blob[k].name)
                   /\ blob[k] = [flat[k] EXCEPT !.name = blob[k].name]
              ELSE blob[k] = flat[k]
=============================================================================
