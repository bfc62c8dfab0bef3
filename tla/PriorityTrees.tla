---------------------------- MODULE PriorityTrees ---------------------------
(***************************************************************************)
(* The red-black trees in which the kernel keeps threads and timer tasks   *)
(* in order: by priority (ConditionVariableComparator and                  *)
(* LockWithPriorityInheritanceComparator of k_thread.h) or by time         *)
(* (KTimerTask::Compare).  No comparator calls two elements equal: the one *)
(* that is inserted goes behind those of its own key, so that equals stay  *)
(* in order of arrival.  A tree is the sequence of its in-order traversal, *)
(* and key[x] is the priority or the time of element x.                    *)
(***************************************************************************)
EXTENDS Lists, SequencesExt

\* May an element of key k be inserted at position i of the tree s?
IsInsertPosition(s, i, k, key) ==
    /\ \A j \in 1 .. (i - 1) : key[s[j]] <= k
    /\ \A j \in i .. Len(s) : key[s[j]] > k

\* The tree s with t inserted at its place.
TreeInsert(s, t, key) ==
    { InsertAt(s, i, t) :
        i \in { i \in 1 .. (Len(s) + 1) : IsInsertPosition(s, i, key[t], key) } }

\* The tree s without t.
TreeErase(s, t) == { RemoveAt(s, i) : i \in { i \in 1 .. Len(s) : s[i] = t } }

\* What the trees of all components have in common besides Distinct: the
\* elements are in the order of their keys.
Sorted(s, key) ==
    \A i, j \in 1 .. Len(s) : i < j => key[s[i]] <= key[s[j]]

=============================================================================
