------------------------------- MODULE BTree -------------------------------
(***************************************************************************)
(* lookup, insert and erase of the B+tree of                               *)
(* src/include/simpledb/btree.h, called by several threads.                *)
(*                                                                         *)
(* The tree sees the buffer manager through fix_page and unfix_page only.  *)
(* Here a fixed page is a held page latch and a page keeps what was last   *)
(* written to it, which is what FixedPagesResident, NoLostUpdate and       *)
(* LatchesAccounted of module BufferManager establish.  `disk` is the copy *)
(* a page would be reloaded from if it were evicted as soon as it is       *)
(* unfixed: unfix_page(frame, true) saves the page, unfix_page(frame,      *)
(* false) does not.                                                        *)
(*                                                                         *)
(* A step of a thread is one read of `root` or `treeHeight`, one blocking  *)
(* fix_page, or the code that runs between two of them with the latches    *)
(* it holds.  A page nobody else knows of is fixed inside such a step.     *)
(***************************************************************************)
EXTENDS Integers, Sequences, FiniteSets, BTreeNode, Latch

CONSTANTS
    Threads,
    Keys,           \* a set of integers
    Values,
    LeafCapacity,   \* LeafNode::kCapacity
    InnerCapacity,  \* InnerNode::kCapacity
    MaxNodes        \* bound: pages create_new_node hands out

ASSUME /\ Keys \subseteq Int /\ None \notin Values \cup Threads
       /\ LeafCapacity >= 2 /\ InnerCapacity >= 2 /\ MaxNodes >= 1

VARIABLES
    page,           \* pid -> the node in the page
    latch,          \* pid -> the page latch of its frame
    disk,           \* pid -> the node as last saved
    root, treeHeight, nodeCount,
    pc,             \* per thread: where it is in its operation
    op,             \* per thread: the operation it runs, or None
    exclusive,      \* per thread: insert's `exclusive`
    mode,           \* per thread: the mode of the fix_page it is about to call
    parentFrame, currentFrame, rightFrame,
    result          \* per thread: what its last lookup returned

tree == <<page, disk, root, treeHeight, nodeCount>>
frames == <<parentFrame, currentFrame, rightFrame>>
vars == <<tree, latch, pc, op, exclusive, mode, frames, result>>

Pids == 0..MaxNodes - 1
Operations ==
    [type : {"lookup", "erase"}, key : Keys] \cup
    [type : {"insert"}, key : Keys, value : Values]

Capacity(node) == IF is_leaf(node) THEN LeafCapacity ELSE InnerCapacity
Full(node) == ~has_space(node, Capacity(node))

-----------------------------------------------------------------------------
\* BTree(): the root is an empty leaf in page 0; other pages are zeroed
Init ==
    /\ page = [p \in Pids |-> LeafNode]
    /\ disk = [p \in Pids |-> LeafNode]
    /\ latch = [p \in Pids |-> FreeLatch]
    /\ root = 0 /\ treeHeight = 1 /\ nodeCount = 1
    /\ pc = [t \in Threads |-> "idle"]
    /\ op = [t \in Threads |-> None]
    /\ exclusive = [t \in Threads |-> FALSE]
    /\ mode = [t \in Threads |-> FALSE]
    /\ parentFrame = [t \in Threads |-> None]
    /\ currentFrame = [t \in Threads |-> None]
    /\ rightFrame = [t \in Threads |-> None]
    /\ result = [t \in Threads |-> None]

Goto(t, label) == pc' = [pc EXCEPT ![t] = label]

(* unfix_page(frame, is_dirty) for every <<frame, is_dirty>> in `unfixes`,  *)
(* after the step has written the pages.                                   *)
Unfix(t, unfixes) ==
    /\ latch' = [p \in Pids |-> IF \E u \in unfixes : u[1] = p
                                THEN Unlocked(latch[p], t) ELSE latch[p]]
    /\ disk' = [p \in Pids |-> IF <<p, TRUE>> \in unfixes THEN page'[p] ELSE disk[p]]

\* `if (parentFrame)`: the parent as a set of frames
Parent(t) == {parentFrame[t]} \ {None}

\* if (parentFrame) unfix_page(*parentFrame, false)
ParentClean(t) == Parent(t) \X {FALSE}

\* the operation returns
Done(t) ==
    /\ Goto(t, "idle")
    /\ op' = [op EXCEPT ![t] = None]
    /\ exclusive' = [exclusive EXCEPT ![t] = FALSE]
    /\ parentFrame' = [parentFrame EXCEPT ![t] = None]
    /\ currentFrame' = [currentFrame EXCEPT ![t] = None]
    /\ UNCHANGED <<mode, rightFrame>>

\* goto restart, with the value `exclusive` has from then on
Restart(t, excl) ==
    /\ Goto(t, "readRoot")
    /\ exclusive' = [exclusive EXCEPT ![t] = excl]
    /\ parentFrame' = [parentFrame EXCEPT ![t] = None]
    /\ currentFrame' = [currentFrame EXCEPT ![t] = None]
    /\ rightFrame' = [rightFrame EXCEPT ![t] = None]
    /\ UNCHANGED <<op, mode, result>>

-----------------------------------------------------------------------------
Call(t, o) ==
    /\ pc[t] = "idle"
    /\ op' = [op EXCEPT ![t] = o]
    /\ Goto(t, "readRoot")
    /\ UNCHANGED <<tree, latch, exclusive, mode, frames, result>>

(* rootPid = root.  lookup fixes the root shared, an exclusive insert      *)
(* exclusive; the others go on to read treeHeight.                         *)
ReadRoot(t) ==
    /\ pc[t] = "readRoot"
    /\ currentFrame' = [currentFrame EXCEPT ![t] = root]
    /\ \/ /\ op[t].type = "lookup" \/ exclusive[t]
          /\ mode' = [mode EXCEPT ![t] = exclusive[t]]
          /\ Goto(t, "fixRoot")
       \/ /\ op[t].type # "lookup" /\ ~exclusive[t]
          /\ Goto(t, "readHeight")
          /\ UNCHANGED mode
    /\ UNCHANGED <<tree, latch, op, exclusive, parentFrame, rightFrame, result>>

\* fault: the root is fixed shared whatever the height
HeightIgnored(height) == FALSE

\* the mode of the root's fix_page: treeHeight == 1
RootIsLeaf(height) == height = 1

ReadHeight(t) ==
    /\ pc[t] = "readHeight"
    /\ mode' = [mode EXCEPT ![t] = RootIsLeaf(treeHeight)]
    /\ Goto(t, "fixRoot")
    /\ UNCHANGED <<tree, latch, op, exclusive, frames, result>>

\* fault: the root is used without the second look
RootTrusted(rootPid) == TRUE

\* `root != rootPid`, negated
RootUnchanged(rootPid) == root = rootPid

\* fix_page(rootPid, mode), and the restart if the root has changed
FixRoot(t) ==
    LET rootPid == currentFrame[t] IN
    /\ pc[t] = "fixRoot"
    /\ CanFix(latch[rootPid], mode[t])
    /\ \/ /\ RootUnchanged(rootPid)
          /\ latch' = [latch EXCEPT ![rootPid] = Fixed(@, t, mode[t])]
          /\ Goto(t, "node")
          /\ UNCHANGED <<exclusive, frames>>
       \/ /\ ~RootUnchanged(rootPid)
          /\ Restart(t, exclusive[t])
          /\ UNCHANGED latch
    /\ mode' = [mode EXCEPT ![t] = FALSE]
    /\ UNCHANGED <<tree, op, result>>

\* fault: the leaves are fixed like the inner nodes
ChildModeOfDescent(t, node) == exclusive[t]

\* the mode of a child's fix_page: false, level == 1, exclusive || level == 1
ChildMode(t, node) ==
    \/ exclusive[t]
    \/ op[t].type # "lookup" /\ node.level = 1

\* move down: the grandparent is unfixed, the child is to be fixed
Descend(t) ==
    LET node == page[currentFrame[t]] IN
    /\ pc[t] = "node"
    /\ ~is_leaf(node)
    /\ op[t].type = "insert" => ~Full(node)
    /\ page' = page /\ Unfix(t, ParentClean(t))
    /\ parentFrame' = [parentFrame EXCEPT ![t] = currentFrame[t]]
    /\ currentFrame' = [currentFrame EXCEPT ![t] = Child(node, op[t].key)]
    /\ mode' = [mode EXCEPT ![t] = ChildMode(t, node)]
    /\ Goto(t, "fixChild")
    /\ UNCHANGED <<root, treeHeight, nodeCount, op, exclusive, rightFrame, result>>

FixChild(t) ==
    /\ pc[t] = "fixChild"
    /\ CanFix(latch[currentFrame[t]], mode[t])
    /\ latch' = [latch EXCEPT ![currentFrame[t]] = Fixed(@, t, mode[t])]
    /\ mode' = [mode EXCEPT ![t] = FALSE]
    /\ Goto(t, "node")
    /\ UNCHANGED <<tree, op, exclusive, frames, result>>

-----------------------------------------------------------------------------
\* fault: the parent stays fixed when the descent starts over
RestartKeepsParent(t) ==
    /\ ~exclusive[t]
    /\ page' = page /\ Unfix(t, {<<currentFrame[t], FALSE>>})
    /\ Restart(t, TRUE)
    /\ UNCHANGED <<root, treeHeight, nodeCount>>

\* fault: the descent starts over as it was
RestartShared(t) ==
    /\ ~exclusive[t]
    /\ page' = page /\ Unfix(t, {<<currentFrame[t], FALSE>>} \cup ParentClean(t))
    /\ Restart(t, FALSE)
    /\ UNCHANGED <<root, treeHeight, nodeCount>>

\* a full node met on a shared descent: start over, exclusive
RestartExclusive(t) ==
    /\ ~exclusive[t]
    /\ page' = page /\ Unfix(t, {<<currentFrame[t], FALSE>>} \cup ParentClean(t))
    /\ Restart(t, TRUE)
    /\ UNCHANGED <<root, treeHeight, nodeCount>>

(* A full node with a parent: the upper half moves to a new page, the      *)
(* separator and the page go into the parent, all three are unfixed dirty. *)
SplitBelowParent(t) ==
    LET pid == currentFrame[t]
        rightPid == nodeCount
        halves == Split(page[pid])
    IN  /\ exclusive[t] /\ parentFrame[t] # None
        /\ nodeCount < MaxNodes
        /\ nodeCount' = nodeCount + 1
        /\ page' = [page EXCEPT ![pid] = halves.left,
                                ![rightPid] = halves.other,
                                ![parentFrame[t]] = InsertSplit(@, halves.key, rightPid)]
        /\ Unfix(t, {rightPid, pid, parentFrame[t]} \X {TRUE})
        /\ Restart(t, FALSE)
        /\ UNCHANGED <<root, treeHeight>>

(* A full root: split, then grow_root up to `root = pid`.  The old root,   *)
(* the new page and the new root stay fixed.                               *)
SplitRoot(t) ==
    LET pid == currentFrame[t]
        rightPid == nodeCount
        newRoot == nodeCount + 1
        halves == Split(page[pid])
    IN  /\ exclusive[t] /\ parentFrame[t] = None
        /\ nodeCount + 1 < MaxNodes
        /\ nodeCount' = nodeCount + 2
        /\ page' = [page EXCEPT ![pid] = halves.left,
                                ![rightPid] = halves.other,
                                ![newRoot] = NewRoot(page[pid].level + 1, halves.key,
                                                     pid, rightPid)]
        /\ latch' = [latch EXCEPT ![rightPid] = Locked(@, t), ![newRoot] = Locked(@, t)]
        /\ root' = newRoot
        /\ rightFrame' = [rightFrame EXCEPT ![t] = rightPid]
        /\ parentFrame' = [parentFrame EXCEPT ![t] = newRoot]
        /\ Goto(t, "growRoot")
        /\ UNCHANGED <<disk, treeHeight, op, exclusive, mode, currentFrame, result>>

\* `if (!node.has_space())` of insert, in an inner node and in a leaf
FullNode(t) ==
    /\ pc[t] = "node"
    /\ op[t].type = "insert"
    /\ Full(page[currentFrame[t]])
    /\ RestartExclusive(t) \/ SplitBelowParent(t) \/ SplitRoot(t)

\* fault: the height is left as it was
HeightKept(height) == height

\* ++treeHeight
HeightGrown(height) == height + 1

\* the rest of grow_root and of the split: ++treeHeight, the three unfixes
PublishHeight(t) ==
    /\ pc[t] = "growRoot"
    /\ treeHeight' = HeightGrown(treeHeight)
    /\ page' = page
    /\ Unfix(t, {rightFrame[t], currentFrame[t], parentFrame[t]} \X {TRUE})
    /\ Restart(t, FALSE)
    /\ UNCHANGED <<root, nodeCount>>

-----------------------------------------------------------------------------
\* the leaf is reached: the last part of lookup
LookupLeaf(t) ==
    /\ op[t].type = "lookup"
    /\ result' = [result EXCEPT ![t] = LeafValue(page[currentFrame[t]], op[t].key, None)]
    /\ page' = page /\ Unfix(t, {<<currentFrame[t], FALSE>>} \cup ParentClean(t))

\* fault: erase reports that nothing was erased
ErasedNothing(before, after) == FALSE

\* what LeafNode::erase returns
Erased(before, after) == before # after

EraseLeaf(t) ==
    LET pid == currentFrame[t] IN
    /\ op[t].type = "erase"
    /\ page' = [page EXCEPT ![pid] = LeafErase(@, op[t].key)]
    /\ Unfix(t, {<<pid, Erased(page[pid], page'[pid])>>} \cup ParentClean(t))
    /\ UNCHANGED result

InsertLeaf(t) ==
    LET pid == currentFrame[t] IN
    /\ op[t].type = "insert"
    /\ ~Full(page[pid])
    /\ page' = [page EXCEPT ![pid] = LeafInsert(@, op[t].key, op[t].value)]
    /\ Unfix(t, {<<pid, TRUE>>} \cup ParentClean(t))
    /\ UNCHANGED result

Leaf(t) ==
    /\ pc[t] = "node"
    /\ is_leaf(page[currentFrame[t]])
    /\ LookupLeaf(t) \/ EraseLeaf(t) \/ InsertLeaf(t)
    /\ Done(t)
    /\ UNCHANGED <<root, treeHeight, nodeCount>>

-----------------------------------------------------------------------------
Step(t) ==
    \/ ReadRoot(t) \/ ReadHeight(t) \/ FixRoot(t)
    \/ Descend(t) \/ FixChild(t)
    \/ FullNode(t) \/ PublishHeight(t)
    \/ Leaf(t)

Next == \E t \in Threads : Step(t) \/ \E o \in Operations : Call(t, o)

Spec == Init /\ [][Next]_vars

(* A thread inside an operation that can take a step eventually takes one. *)
(* Nothing is assumed about who gets a latch several threads wait for.     *)
FairSpec == Spec /\ \A t \in Threads : WF_vars(Step(t))

-----------------------------------------------------------------------------
(* fix_page throws buffer_full_error.  The tree has no handler: the        *)
(* exception leaves the operation where it is, and the thread is "failed". *)
Throw(t) ==
    /\ Goto(t, "failed")
    /\ UNCHANGED <<disk, root, treeHeight, op, exclusive, mode, parentFrame,
                   currentFrame, result>>

\* the fix_page of the root or of a child throws
DescentThrows(t) ==
    /\ pc[t] \in {"fixRoot", "fixChild"}
    /\ Throw(t)
    /\ UNCHANGED <<page, latch, nodeCount, rightFrame>>

\* the fix_page of the new page of a split throws
SplitThrows(t) ==
    /\ pc[t] = "node" /\ op[t].type = "insert"
    /\ Full(page[currentFrame[t]]) /\ exclusive[t]
    /\ nodeCount < MaxNodes
    /\ nodeCount' = nodeCount + 1
    /\ Throw(t)
    /\ UNCHANGED <<page, latch, rightFrame>>

\* the fix_page of grow_root throws, after the split
GrowRootThrows(t) ==
    LET pid == currentFrame[t]
        rightPid == nodeCount
        halves == Split(page[pid])
    IN  /\ pc[t] = "node" /\ op[t].type = "insert"
        /\ Full(page[pid]) /\ exclusive[t] /\ parentFrame[t] = None
        /\ nodeCount + 1 < MaxNodes
        /\ nodeCount' = nodeCount + 2
        /\ page' = [page EXCEPT ![pid] = halves.left, ![rightPid] = halves.other]
        /\ latch' = [latch EXCEPT ![rightPid] = Locked(@, t)]
        /\ rightFrame' = [rightFrame EXCEPT ![t] = rightPid]
        /\ Throw(t)

NextOrThrow ==
    \/ Next
    \/ \E t \in Threads : DescentThrows(t) \/ SplitThrows(t) \/ GrowRootThrows(t)

SpecWithThrow == Init /\ [][NextOrThrow]_vars

-----------------------------------------------------------------------------
Labels == {"idle", "readRoot", "readHeight", "fixRoot", "node", "fixChild",
           "growRoot", "failed"}

Nodes ==
    [level : {0}, keys : BoundedSeq(Keys, LeafCapacity),
     values : BoundedSeq(Values, LeafCapacity)] \cup
    [level : 1..MaxNodes, keys : BoundedSeq(Keys, InnerCapacity),
     children : BoundedSeq(Pids, InnerCapacity)]

TypeOK ==
    /\ page \in [Pids -> Nodes] /\ disk \in [Pids -> Nodes]
    /\ latch \in [Pids -> [writer : Threads \cup {None}, readers : SUBSET Threads]]
    /\ root \in Pids /\ treeHeight \in 1..MaxNodes /\ nodeCount \in 1..MaxNodes
    /\ pc \in [Threads -> Labels]
    /\ op \in [Threads -> Operations \cup {None}]
    /\ exclusive \in [Threads -> BOOLEAN] /\ mode \in [Threads -> BOOLEAN]
    /\ parentFrame \in [Threads -> Pids \cup {None}]
    /\ currentFrame \in [Threads -> Pids \cup {None}]
    /\ rightFrame \in [Threads -> Pids \cup {None}]
    /\ result \in [Threads -> Values \cup {None}]

-----------------------------------------------------------------------------
RECURSIVE Subtree(_)
Subtree(pid) ==
    {pid} \cup IF is_leaf(page[pid]) THEN {}
               ELSE UNION {Subtree(c) : c \in Range(page[pid].children)}

\* the entries of the leaves below the root, as a map
Contents ==
    LET leaves == {p \in Subtree(root) : is_leaf(page[p])}
        entries == UNION {{<<page[p].keys[i], page[p].values[i]>> :
                             i \in DOMAIN page[p].keys} : p \in leaves}
    IN  [k \in Keys |-> LET found == {e \in entries : e[1] = k}
                        IN  IF found = {} THEN None
                            ELSE (CHOOSE e \in found : TRUE)[2]]

KV == INSTANCE KVMap WITH map <- Contents, pending <- op, ret <- result

(* The tree is a map whose operations take effect one at a time: a call    *)
(* starts an operation, the step at the leaf is the operation (a lookup    *)
(* returns what the map holds then, an insert or erase changes that key    *)
(* only), and every other step, splits and root growth included, leaves    *)
(* the entries reachable from `root` as they are.                          *)
ImplementsMap == KV!Spec

RECURSIVE Ordered(_, _, _)
Ordered(pid, lo, hi) ==
    LET node == page[pid]
        keys == node.keys
    IN  /\ Count(node) <= Capacity(node)
        /\ \A i \in DOMAIN keys : lo < keys[i] /\ keys[i] <= hi
        /\ \A i \in 1..Len(keys) - 1 : keys[i] < keys[i + 1]
        /\ IF is_leaf(node) THEN Len(keys) = Len(node.values)
           ELSE /\ Len(keys) = Len(node.children) - 1
                /\ \A i \in DOMAIN node.children :
                     /\ page[node.children[i]].level = node.level - 1
                     /\ Ordered(node.children[i],
                                IF i = 1 THEN lo ELSE keys[i - 1],
                                IF i = Len(node.children) THEN hi ELSE keys[i])

(* The structure a descent relies on, in every state another thread can    *)
(* see: no node holds more than its capacity (the asserts of insert and    *)
(* insert_split), keys increase strictly in every node (the assert "Split  *)
(* key already exists?"), an inner node has one key less than children,    *)
(* all leaves are at level 0, the keys below child i lie between the       *)
(* separators left and right of it, and every node is a page that          *)
(* create_new_node has handed out.                                         *)
TreeWellFormed ==
    /\ Subtree(root) \subseteq 0..nodeCount - 1
    /\ Ordered(root, Min(Keys) - 1, Max(Keys))

(* treeHeight is the level of the root plus one, except between the two    *)
(* stores of grow_root, `root = pid` and `++treeHeight`, of the one thread *)
(* that grows the root.                                                    *)
HeightTracksRoot ==
    treeHeight = page[root].level + IF \E t \in Threads : pc[t] = "growRoot" THEN 0 ELSE 1

\* the frames a thread has fixed, by where it is
Fixes(t) ==
    CASE pc[t] = "node" -> {currentFrame[t]} \cup Parent(t)
      [] pc[t] = "fixChild" -> Parent(t)
      [] pc[t] = "growRoot" -> {currentFrame[t], rightFrame[t], parentFrame[t]}
      [] OTHER -> {}

(* Latch coupling: a thread holds the latches of its current node and of   *)
(* the parent and no other, the three pages of a root growth excepted; no  *)
(* operation returns or restarts with a page still fixed, and none         *)
(* unfixes a page it has not fixed.                                        *)
LatchesMatchDescent ==
    \A p \in Pids :
        /\ {t \in Threads : Holds(latch[p], t)} = {t \in Threads : p \in Fixes(t)}
        /\ latch[p].writer # None => latch[p].readers = {}

(* A page is written only under its exclusive latch, whatever the values   *)
(* of `root` and `treeHeight` the writer read before it fixed the page     *)
(* (pages no other thread knows yet are the exception).                    *)
WritesUnderExclusiveLatch ==
    [][\A p \in Pids : page'[p] # page[p] => latch[p].writer # None \/ p >= nodeCount]_vars

(* Every written page is unfixed dirty: were the page evicted the moment   *)
(* it is unfixed, the copy it is reloaded from would be the page.          *)
WritesReachDisk ==
    \A p \in Pids : latch[p] = FreeLatch => disk[p] = page[p]

(* Some operation always completes: however the threads restart, wait for  *)
(* latches and split, they do not keep each other inside their operations  *)
(* for ever.                                                               *)
AllBusy == \A t \in Threads : pc[t] # "idle"
SomeOperationCompletes == AllBusy ~> ~AllBusy

(* Spec 4.3 and 7: "the tree holds no latches on exit because it unwinds   *)
(* on error"; the caller of an operation that threw buffer_full_error      *)
(* holds no latch.                                                         *)
NoLatchAfterThrow ==
    \A t \in Threads : pc[t] = "failed" => \A p \in Pids : ~Holds(latch[p], t)

(* Spec 7: a tree operation that failed leaves the tree logically          *)
(* unchanged.                                                              *)
FailureChangesNothing ==
    [][\A t \in Threads : pc[t] # "failed" /\ pc'[t] = "failed" => Contents' = Contents]_vars

(* Spec 4.3, insert: grow_root "increments height, publishes root_pid      *)
(* last": no thread sees a root whose level the height does not yet count. *)
RootPublishedLast == treeHeight >= page[root].level + 1

=============================================================================
