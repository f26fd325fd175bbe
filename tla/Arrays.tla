------------------------------- MODULE Arrays -------------------------------
(***************************************************************************)
(* LVArray over lvvector (array.h, utils.h), the array functions of the    *)
(* API and the base library: growing and shrinking, the functions that     *)
(* call a closure for each element (map, apply, reduce, filter), and sort, *)
(* a heap sort whose comparison is a function of the script.  A closure    *)
(* that one of them calls may change the array; sort keeps references into *)
(* it over the call, so its comparison must not.  Sizes are not negative:  *)
(* lv_arrayresize refuses such a size (api.cpp:310-319), the resize of a   *)
(* script hands it to the vector (baselib.cpp:709-717), which is left out. *)
(*                                                                         *)
(* Values are numbers, and their order is that of ObjCmp.  arr[i] here is  *)
(* _values[i - 1].                                                         *)
(***************************************************************************)
EXTENDS Integers, Sequences, SequencesExt

CONSTANTS
    Element,   \* elements, integers
    MaxSort,   \* bound on the length of an array that is sorted or mapped
    NewSizes,  \* the sizes resize is called with, none negative
    MaxEdits   \* bound on the operations on the array

ASSUME ArraysAssumption ==
    /\ Element \subseteq Int /\ NewSizes \subseteq Nat
    /\ MaxSort \in Nat /\ MaxEdits \in Nat

VARIABLES
    arr,    \* _values
    alloc,  \* _allocated of the vector
    call,   \* the function that runs, or Idle
    edits   \* operations begun

arrayVars == <<arr, alloc, call, edits>>

NoCall == [fun |-> "none"]
ArraySize == Len(arr)

-----------------------------------------------------------------------------
\* lvvector

\* The capacity after push_back on n elements in room for a.
RoomPushed(n, a) == IF a > n THEN a ELSE IF n = 0 THEN 4 ELSE 2 * n

\* ... after resize to n
RoomResized(n, a) == IF n > a THEN n ELSE a

\* ShrinkIfNeeded on n elements, with shrinktofit
RoomShrunk(n, a) == IF n <= a \div 4 /\ n > 4 THEN n ELSE a

\* A function of the script runs: the program, or a closure that a function
\* other than sort has called.
ScriptRuns == call.fun = "none" \/ (call.fun \in {"read", "apply"} /\ call.called)

Edit(new, room) ==
    /\ ScriptRuns /\ edits < MaxEdits
    /\ edits' = edits + 1 /\ arr' = new /\ alloc' = room
    /\ UNCHANGED call

\* lv_arrayappend
lv_arrayappend(x) == Edit(Append(arr, x), RoomPushed(ArraySize, alloc))

\* lv_arraypop
lv_arraypop == ArraySize > 0 /\ Edit(Front(arr), RoomShrunk(ArraySize - 1, alloc))

\* lv_arrayinsert: one more element, moved up to its place
lv_arrayinsert(i, x) == Edit(InsertAt(arr, i, x), RoomResized(ArraySize + 1, alloc))

\* lv_arrayremove
lv_arrayremove(i) == Edit(RemoveAt(arr, i), RoomShrunk(ArraySize - 1, alloc))

\* lv_arrayresize
lv_arrayresize(n, x) ==
    Edit([i \in 1 .. n |-> IF i <= ArraySize THEN arr[i] ELSE x], RoomShrunk(n, RoomResized(n, alloc)))

\* lv_arrayreverse swaps the two ends, then inwards.
lv_arrayreverse == Edit([i \in 1 .. ArraySize |-> arr[ArraySize + 1 - i]], alloc)

\* array_extend with the array itself: its length is read once.
array_extend ==
    LET room[n \in 0 .. ArraySize] == IF n = 0 THEN alloc ELSE RoomPushed(ArraySize + n - 1, room[n - 1])
    IN  Edit(arr \o arr, room[ArraySize])

-----------------------------------------------------------------------------
\* map, reduce and filter ("read") and apply: the size is read once, each
\* element when its turn comes; one that is gone by then is skipped.

Each(fun) ==
    /\ call = NoCall /\ edits < MaxEdits /\ ArraySize <= MaxSort
    /\ call' = [fun |-> fun, n |-> 1, size |-> ArraySize, called |-> FALSE]
    /\ edits' = edits + 1
    /\ UNCHANGED <<arr, alloc>>

CallEach ==
    /\ call.fun \in {"read", "apply"} /\ ~call.called
    /\ call' = IF call.n <= call.size THEN [call EXCEPT !.called = TRUE] ELSE NoCall
    /\ UNCHANGED <<arr, alloc, edits>>

NextOf(c) == [c EXCEPT !.n = @ + 1, !.called = FALSE]

\* The closure returns x, or fails.
EachReturns(x) ==
    /\ call.fun \in {"read", "apply"} /\ call.called
    /\ arr' = IF call.fun = "apply" /\ call.n <= ArraySize THEN [arr EXCEPT ![call.n] = x] ELSE arr
    /\ call' \in {NextOf(call), NoCall}
    /\ UNCHANGED <<alloc, edits>>

-----------------------------------------------------------------------------
\* array_sort.  Indices count from 0 as in the code; the children of a node
\* are 2r and 2r + 1, the root its own first child.

At(i) == arr[i + 1]

Swapped(i, j) == [arr EXCEPT ![i + 1] = At(j), ![j + 1] = At(i)]

\* _hsort: sift down from the middle of the array
Sort(cmp) ==
    /\ call = NoCall /\ edits < MaxEdits
    /\ ArraySize \in 2 .. MaxSort
    /\ call' = [fun |-> "sort", cmp |-> cmp, before |-> arr, at |-> "sift",
                build |-> TRUE, i |-> ArraySize \div 2, root |-> ArraySize \div 2,
                bottom |-> ArraySize - 1, child |-> 0]
    /\ edits' = edits + 1
    /\ UNCHANGED <<arr, alloc>>

\* _sort_compare: by order, or what a function that knows no order answers.
Compared(i, j) ==
    IF call.cmp = "any" THEN {-1, 0, 1}
    ELSE {IF At(i) < At(j) THEN -1 ELSE IF At(i) > At(j) THEN 1 ELSE 0}

LastChild(r, bottom) == 2 * r = bottom

\* The larger child
SiftChild ==
    /\ call.fun = "sort" /\ call.at = "sift" /\ 2 * call.root <= call.bottom
    /\ IF LastChild(call.root, call.bottom)
       THEN call' = [call EXCEPT !.at = "parent", !.child = 2 * call.root]
       ELSE \E r \in Compared(2 * call.root, 2 * call.root + 1) :
              call' = [call EXCEPT !.at = "parent",
                                   !.child = 2 * call.root + (IF r > 0 THEN 0 ELSE 1)]
    /\ UNCHANGED <<arr, alloc, edits>>

\* Seeded bug: a node that is smaller than itself goes down to itself.
SiftParent_Unchecked ==
    /\ call.fun = "sort" /\ call.at = "parent"
    /\ \E r \in Compared(call.root, call.child) :
         IF r >= 0 THEN call' = [call EXCEPT !.at = "done"] /\ UNCHANGED arr
         ELSE /\ arr' = Swapped(call.root, call.child)
              /\ call' = [call EXCEPT !.at = "sift", !.root = call.child]
    /\ UNCHANGED <<alloc, edits>>

\* The node goes down if it is the smaller one; a node smaller than itself is
\* an error.
SiftParent ==
    /\ call.fun = "sort" /\ call.at = "parent"
    /\ \E r \in Compared(call.root, call.child) :
         IF r >= 0 THEN call' = [call EXCEPT !.at = "done"] /\ UNCHANGED arr
         ELSE IF call.root = call.child THEN call' = NoCall /\ UNCHANGED arr
         ELSE /\ arr' = Swapped(call.root, call.child)
              /\ call' = [call EXCEPT !.at = "sift", !.root = call.child]
    /\ UNCHANGED <<alloc, edits>>

\* Seeded bug: the heap is built from its last inner node down to 1.
LastBuilt_One(i) == i = 1

LastBuilt(i) == i = 0

Finished == [fun |-> "sorted", cmp |-> call.cmp, before |-> call.before]

\* _hsort's two loops: the next node of the heap, then the largest of it to
\* the end.
SiftDone ==
    /\ call.fun = "sort"
    /\ call.at = "done" \/ (call.at = "sift" /\ 2 * call.root > call.bottom)
    /\ LET i == IF ~call.build THEN call.i - 1
                ELSE IF LastBuilt(call.i) THEN ArraySize - 1 ELSE call.i - 1
       IN  IF call.build /\ ~LastBuilt(call.i)
           THEN /\ call' = [call EXCEPT !.i = i, !.root = i, !.at = "sift"]
                /\ UNCHANGED arr
           ELSE IF i = 0 THEN call' = Finished /\ UNCHANGED arr
           ELSE /\ arr' = Swapped(0, i)
                /\ call' = [call EXCEPT !.build = FALSE, !.i = i, !.root = 0,
                                        !.bottom = i - 1, !.at = "sift"]
    /\ UNCHANGED <<alloc, edits>>

\* A comparison that fails ends the sort; and the result is taken.
SortEnds ==
    /\ call.fun = "sorted" \/ (call.fun = "sort" /\ call.at # "done")
    /\ call' = NoCall
    /\ UNCHANGED <<arr, alloc, edits>>

-----------------------------------------------------------------------------
ArraysInit ==
    /\ arr \in SeqOf(Element, MaxSort)
    /\ alloc = IF arr = <<>> THEN 0 ELSE Len(arr)
    /\ call = NoCall
    /\ edits = 0

Edits ==
    \/ \E x \in Element : lv_arrayappend(x)
    \/ lv_arraypop \/ lv_arrayreverse \/ array_extend
    \/ \E i \in 1 .. ArraySize + 1, x \in Element : lv_arrayinsert(i, x)
    \/ \E i \in 1 .. ArraySize : lv_arrayremove(i)
    \/ \E n \in NewSizes, x \in Element : lv_arrayresize(n, x)

ArraysStep ==
    \/ CallEach \/ \E x \in Element : EachReturns(x)
    \/ SiftChild \/ SiftParent \/ SiftDone \/ SortEnds

ArraysNext ==
    \/ Edits \/ ArraysStep
    \/ \E fun \in {"read", "apply"} : Each(fun)
    \/ \E cmp \in {"order", "any"} : Sort(cmp)

ArraysSpec == ArraysInit /\ [][ArraysNext]_arrayVars

\* A function of the library goes on, and closures return.
FairArraysSpec == ArraysSpec /\ WF_arrayVars(ArraysStep)

-----------------------------------------------------------------------------
\* Properties

\* What a call says while it runs.
SortCall ==
    [fun : {"sort"}, cmp : {"order", "any"}, before : Seq(Element),
     at : {"sift", "parent", "done"}, build : BOOLEAN, i : Nat, root : Nat, bottom : Nat, child : Nat]

Calls ==
    {NoCall} \cup SortCall
    \cup [fun : {"read", "apply"}, n : Nat, size : Nat, called : BOOLEAN]
    \cup [fun : {"sorted"}, cmp : {"order", "any"}, before : Seq(Element)]

\* The types of the variables.
ArraysTypeOK ==
    /\ arr \in Seq(Element)
    /\ alloc \in Nat /\ edits \in 0 .. MaxEdits
    /\ call \in Calls

\* The elements fit the memory of the vector, whatever the order of pushes,
\* inserts, resizes and the shrinking that pop, remove and resize do.
SizeFits == ArraySize <= alloc

\* a has the elements of s in another order: p is where each comes from.
Rearranged(a, s) ==
    \E p \in [DOMAIN s -> DOMAIN s] :
        /\ a = [i \in DOMAIN s |-> s[p[i]]]
        /\ \A j \in DOMAIN s : \E i \in DOMAIN s : p[i] = j

\* With a comparison that contradicts itself, too, sort reads and writes only
\* elements of the array (it checks no index), and loses none.
SortSafe ==
    call.fun \in {"sort", "sorted"} =>
        /\ Rearranged(arr, call.before)
        /\ call.fun = "sort" /\ call.at = "sift" /\ 2 * call.root <= call.bottom =>
             (IF LastChild(call.root, call.bottom) THEN 2 * call.root ELSE 2 * call.root + 1) < ArraySize
        /\ call.fun = "sort" /\ call.at = "parent" => call.child < ArraySize

\* With a comparison that is an order, the array ends sorted.
EndsSorted ==
    call.fun = "sorted" /\ call.cmp = "order" =>
        \A i, j \in 1 .. ArraySize : i < j => arr[i] <= arr[j]

\* array_sort sorts, and stays inside the array (baselib.cpp:822-907);
\* elements fit the memory of their vector (utils.h).
SortSorts == SortSafe /\ EndsSorted /\ SizeFits

\* Sort ends whatever its comparison answers, and map, apply, reduce and
\* filter end whatever their closures do to the array.
CallsEnd == call # NoCall ~> call = NoCall
=============================================================================
