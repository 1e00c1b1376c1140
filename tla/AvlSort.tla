------------------------------- MODULE AvlSort ------------------------------
(***************************************************************************)
(* Sorting and compaction of an array of words (avl.c and the sort         *)
(* utilities of util.c), as functions and operators.  The sort builds a    *)
(* balanced search tree, which keeps one node per key, and writes its keys *)
(* back in order: an array with duplicates is longer than what is written  *)
(* back, and the end of it keeps its old words.                            *)
(*                                                                         *)
(* A tree is NoTree or a record with its two subtrees.  The height is      *)
(* stored, and is what the rotations and insert_node last wrote there.     *)
(***************************************************************************)
EXTENDS Integers, Sequences, SequencesExt

CONSTANT
    MaxDepth    \* depth of the recursion: the length of the longest array to sort

ASSUME DepthAssumption == MaxDepth \in Nat

-----------------------------------------------------------------------------
NoTree == [height |-> 0]

\* The nodes with two of the trees under them, whatever their heights say.
Nodes(trees) == [key : Nat, height : Nat \ {0}, left : trees, right : trees]

\* The trees that are at most n nodes deep.
Trees[n \in Nat] == IF n = 0 THEN {NoTree} ELSE {NoTree} \cup Nodes(Trees[n - 1])

Tree == Trees[MaxDepth]

Height(node) == IF node = NoTree THEN 0 ELSE node.height

Higher(a, b) == IF a > b THEN a ELSE b

NewNode(key) ==
    [key |-> key, height |-> 1, left |-> NoTree, right |-> NoTree]

WithHeight(node) ==
    [node EXCEPT !.height = Higher(Height(node.left), Height(node.right)) + 1]

GetBalance(node) == Height(node.left) - Height(node.right)

\* A version that leaves the height of the node that moved down as it was.
MutantRightRotate(y) ==
    LET x == y.left IN
    WithHeight([x EXCEPT !.right = [y EXCEPT !.left = x.right]])

RightRotate(y) ==
    LET x == y.left IN
    WithHeight([x EXCEPT !.right = WithHeight([y EXCEPT !.left = x.right])])

LeftRotate(x) ==
    LET y == x.right IN
    WithHeight([y EXCEPT !.left = WithHeight([x EXCEPT !.right = y.left])])

\* The rotations of insert_node after key went into a subtree of node.
Rebalance(node, key) ==
    CASE GetBalance(node) > 1 /\ key < node.left.key -> RightRotate(node)
      [] GetBalance(node) < -1 /\ key > node.right.key -> LeftRotate(node)
      [] GetBalance(node) > 1 /\ key > node.left.key ->
            RightRotate([node EXCEPT !.left = LeftRotate(@)])
      [] GetBalance(node) < -1 /\ key < node.right.key ->
            LeftRotate([node EXCEPT !.right = RightRotate(@)])
      [] OTHER -> node

InsertNode[node \in Tree] ==
    [key \in Nat |->
        IF node = NoTree THEN NewNode(key)
        ELSE IF key < node.key
        THEN Rebalance(WithHeight([node EXCEPT !.left = InsertNode[@][key]]), key)
        ELSE IF key > node.key
        THEN Rebalance(WithHeight([node EXCEPT !.right = InsertNode[@][key]]), key)
        ELSE node]

\* avl_build_from_array: insert the words one after the other.
BuildFromArray[a \in Seq(Nat)] ==
    IF a = <<>> THEN NoTree ELSE InsertNode[BuildFromArray[Front(a)]][Last(a)]

\* inorder_traverse, as the sequence of the keys it visits.
Inorder[node \in Tree] ==
    IF node = NoTree THEN <<>>
    ELSE Inorder[node.left] \o <<node.key>> \o Inorder[node.right]

\* forkscan_util_avl_sort with write_to_array.
UtilAvlSort(a) ==
    IF Len(a) <= 1 THEN a
    ELSE LET sorted == Inorder[BuildFromArray[a]] IN
         sorted \o SubSeq(a, Len(sorted) + 1, Len(a))

\* Drop every word equal to the last one kept.
Compacted[a \in Seq(Nat)] ==
    IF a = <<>> THEN <<>>
    ELSE LET kept == Compacted[Front(a)] IN
         IF kept # <<>> /\ Last(kept) = Last(a) THEN kept ELSE Append(kept, Last(a))

\* A version that stops one word short.
MutantUtilCompact(a) == Compacted[Front(a)]

\* forkscan_util_compact.
UtilCompact(a) == Compacted[a]

-----------------------------------------------------------------------------
(***************************************************************************)
(* What a search tree is.                                                  *)
(***************************************************************************)
Depth[node \in Tree] ==
    IF node = NoTree THEN 0 ELSE Higher(Depth[node.left], Depth[node.right]) + 1

Subtrees[node \in Tree] ==
    IF node = NoTree THEN {}
    ELSE {node} \cup Subtrees[node.left] \cup Subtrees[node.right]

Ascending(a) == \A j, k \in 1 .. Len(a) : j < k => a[j] < a[k]

\* Every stored height is right, every node is balanced, and the keys in order
\* are the words of the array, ascending, each once.
IsAvlTreeOf(node, a) ==
    /\ \A n \in Subtrees[node] :
          n.height = Depth[n] /\ GetBalance(n) \in {-1, 0, 1}
    /\ Ascending(Inorder[node])
    /\ ToSet(Inorder[node]) = ToSet(a)
=============================================================================
