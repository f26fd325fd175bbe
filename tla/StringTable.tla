---------------------------- MODULE StringTable ----------------------------
(***************************************************************************)
(* LVStringTable (state.cpp): every string of the program is made by Add,  *)
(* which returns the string there is when it has the same characters, so   *)
(* that strings are compared by address; a string removes itself when its  *)
(* last reference goes.  A slot is a list of strings, newest first; the    *)
(* table doubles when it holds more strings than slots.                    *)
(*                                                                         *)
(* A string is named by its characters; the hash of each is a constant.    *)
(***************************************************************************)
EXTENDS Integers, Sequences, SequencesExt, FiniteSetsExt

CONSTANTS
    String,     \* strings of characters
    HashStr,    \* _hashstr of each
    FirstSlots, \* the slots a new table has, 4 in state.cpp
    MaxSlots    \* bound on the slots

ASSUME StringTableAssumption ==
    /\ HashStr \in [String -> Nat]
    /\ FirstSlots \in Nat \ {0}
    /\ MaxSlots \in Nat

VARIABLES
    strings,  \* _strings: for each slot, from 0, its list
    slotused  \* _slotused

stringVars == <<strings, slotused>>

SlotsOf(tab) == Cardinality(DOMAIN tab)
NoStrings(n) == [h \in 0 .. n - 1 |-> <<>>]

\* hash & (_numofslots - 1), the number of slots being a power of two
Slot(s, n) == HashStr[s] % n

\* The list Add searches, for a string of this length with these characters.
Found(s) == Contains(strings[Slot(s, SlotsOf(strings))], s)

Linked(tab, s, n) == [tab EXCEPT ![Slot(s, n)] = <<s>> \o @]

\* The loop of Resize over one list: each of its strings becomes the first of
\* a list of tab.
AllLinked(tab, list, n) ==
    LET link[i \in 0 .. Len(list)] ==
            IF i = 0 THEN tab ELSE Linked(link[i - 1], list[i], n)
    IN  link[Len(list)]

\* Seeded bug: Resize links a string into the slot it had.
Relinked_OldSlot(tab, n) ==
    [h \in 0 .. n - 1 |-> IF h \in DOMAIN tab THEN Reverse(tab[h]) ELSE <<>>]

\* Resize: slot by slot, the strings go to a new table of n slots.
Relinked(tab, n) ==
    LET link[h \in 0 .. SlotsOf(tab)] ==
            IF h = 0 THEN NoStrings(n) ELSE AllLinked(link[h - 1], tab[h - 1], n)
    IN  link[SlotsOf(tab)]

\* LVStringTable::Add
AddString(s) ==
    IF Found(s) THEN UNCHANGED stringVars
    ELSE LET n == SlotsOf(strings)
             tab == Linked(strings, s, n)
             crowded == slotused + 1 > n
         IN  /\ crowded => 2 * n <= MaxSlots
             /\ strings' = IF crowded THEN Relinked(tab, 2 * n) ELSE tab
             /\ slotused' = slotused + 1

\* LVStringTable::Remove, by LVString::Release: the list is left without the
\* node of the string.
RemoveString(s) ==
    /\ \E h \in DOMAIN strings : Contains(strings[h], s)
    /\ Found(s)
    /\ \E i \in DOMAIN strings[Slot(s, SlotsOf(strings))] :
          /\ strings[Slot(s, SlotsOf(strings))][i] = s
          /\ strings' = [strings EXCEPT ![Slot(s, SlotsOf(strings))] = RemoveAt(@, i)]
    /\ slotused' = slotused - 1

StringInit == strings = NoStrings(FirstSlots) /\ slotused = 0

StringNext == \E s \in String : AddString(s) \/ RemoveString(s)

StringSpec == StringInit /\ [][StringNext]_stringVars

-----------------------------------------------------------------------------
\* Properties

\* The strings there are.
Interned == {s \in String : \E h \in DOMAIN strings : Contains(strings[h], s)}

\* However often the table has doubled since a string was added, the string is
\* there once and in the slot where Add and Remove look (Remove ends the
\* program otherwise, state.cpp:675), and the count that makes the table double
\* is exact.
StringsInterned ==
    /\ \A h \in DOMAIN strings :
        /\ IsInjective(strings[h])
        /\ \A i \in DOMAIN strings[h] : Slot(strings[h][i], SlotsOf(strings)) = h
    /\ slotused = Cardinality(Interned)
    /\ slotused <= SlotsOf(strings)
=============================================================================
