----------------------------- MODULE BTreeNode -----------------------------
(***************************************************************************)
(* The nodes of the B+tree of src/include/simpledb/btree.h and their       *)
(* operations, as operators on values.                                     *)
(*                                                                         *)
(* A node is a record.  The arrays of a page are sequences that hold the   *)
(* entries in use only: `count` is Len(values) in a leaf, where every      *)
(* value has a key, and Len(children) in an inner node, which has one key  *)
(* less than children.  Positions (`pos.first`) count from 0 as in the     *)
(* code, sequences from 1.                                                 *)
(***************************************************************************)
EXTENDS Integers, Sequences, SequencesExt, BinarySearch

LeafNode == [level |-> 0, keys |-> <<>>, values |-> <<>>]

is_leaf(node) == node.level = 0
Count(node) == IF is_leaf(node) THEN Len(node.values) ELSE Len(node.children)

\* fault: a full node still has space
HasSpaceWhenFull(node, kCapacity) == Count(node) <= kCapacity

has_space(node, kCapacity) == Count(node) < kCapacity

\* the pair lower_bound returns
Pos(keys, key) ==
    LET i == LowerBoundBranchless(keys, key)
    IN  [first |-> i, second |-> i < Len(keys) /\ keys[i + 1] = key]

\* LeafNode::lower_bound, over keys[0 .. count)
LeafLowerBound(node, key) == Pos(node.keys, key)

\* InnerNode::lower_bound, over keys[0 .. count - 1)
InnerLowerBound(node, key) == Pos(SubSeq(node.keys, 1, Count(node) - 1), key)

\* the child a descent for key goes to
Child(node, key) == node.children[InnerLowerBound(node, key).first + 1]

\* the value lookup finds in a leaf, or none
LeafValue(node, key, none) ==
    LET pos == LeafLowerBound(node, key)
    IN  IF pos.second THEN node.values[pos.first + 1] ELSE none

\* fault: the value of a key already there is kept
LeafInsertKeepsValue(node, key, value) ==
    LET pos == LeafLowerBound(node, key)
    IN  IF pos.second THEN node
        ELSE [node EXCEPT !.keys = InsertAt(@, pos.first + 1, key),
                          !.values = InsertAt(@, pos.first + 1, value)]

\* LeafNode::insert
LeafInsert(node, key, value) ==
    LET pos == LeafLowerBound(node, key)
    IN  IF pos.second
        THEN [node EXCEPT !.values[pos.first + 1] = value]
        ELSE [node EXCEPT !.keys = InsertAt(@, pos.first + 1, key),
                          !.values = InsertAt(@, pos.first + 1, value)]

\* LeafNode::erase: the node afterwards; `erased` is whether it differs
LeafErase(node, key) ==
    LET pos == LeafLowerBound(node, key)
    IN  IF pos.second
        THEN [node EXCEPT !.keys = RemoveAt(@, pos.first + 1),
                          !.values = RemoveAt(@, pos.first + 1)]
        ELSE node

\* fault: the split child is entered before the child that was split
InsertSplitBefore(node, key, split_page) ==
    LET pos == InnerLowerBound(node, key)
    IN  [node EXCEPT !.keys = InsertAt(@, pos.first + 1, key),
                     !.children = InsertAt(@, pos.first + 1, split_page)]

\* InnerNode::insert_split
InsertSplit(node, key, split_page) ==
    LET pos == InnerLowerBound(node, key)
    IN  [node EXCEPT !.keys = InsertAt(@, pos.first + 1, key),
                     !.children = InsertAt(@, pos.first + 2, split_page)]

\* fault: the separator is the first key of the right half
SeparatorFromRight(node, newCount) == node.keys[newCount + 1]

\* return keys[newCount - 1]
Separator(node, newCount) == node.keys[newCount]

(* LeafNode::split and InnerNode::split: what stays in the node, what goes *)
(* to the new page, and the separator key.                                 *)
LeafSplit(node) ==
    LET count == Count(node)
        newCount == count - count \div 2
    IN  [left |-> [node EXCEPT !.keys = SubSeq(@, 1, newCount),
                               !.values = SubSeq(@, 1, newCount)],
         other |-> [node EXCEPT !.keys = SubSeq(@, newCount + 1, count),
                                !.values = SubSeq(@, newCount + 1, count)],
         key |-> Separator(node, newCount)]

InnerSplit(node) ==
    LET count == Count(node)
        newCount == count - count \div 2
    IN  [left |-> [node EXCEPT !.keys = SubSeq(@, 1, newCount - 1),
                               !.children = SubSeq(@, 1, newCount)],
         other |-> [node EXCEPT !.keys = SubSeq(@, newCount + 1, count - 1),
                                !.children = SubSeq(@, newCount + 1, count)],
         key |-> Separator(node, newCount)]

Split(node) == IF is_leaf(node) THEN LeafSplit(node) ELSE InnerSplit(node)

\* the node grow_root writes into the new root's page
NewRoot(level, sep_key, left_child, right_child) ==
    [level |-> level, keys |-> <<sep_key>>, children |-> <<left_child, right_child>>]

=============================================================================
