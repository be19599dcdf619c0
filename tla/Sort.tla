-------------------------------- MODULE Sort --------------------------------
(***************************************************************************)
(* ffsort() (ffbase/sort.c, sort-merge.h, sort-insertion.h) and the        *)
(* searches in arrays (ffbase/slice.h).                                    *)
(*                                                                         *)
(* An element is <<key, place>>: the comparison function looks at the key  *)
(* only, the place is where the element was before the call.               *)
(***************************************************************************)
EXTENDS Integers, SequencesExt

CONSTANTS
  SortKeys,   \* keys of elements
  SortMaxLen, \* bound: elements of an array
  SortSizes,  \* sizes of an element
  SortSmall   \* 64: arrays of so many bytes are sorted by insertion

ASSUME SortAssumption == SortSmall \in Nat /\ SortKeys \subseteq Int /\ SortSizes \subseteq Nat \ {0}

VARIABLES
  array,  \* the elements as the caller gave them, and as they are
  lookup  \* the key looked for, and what the searches returned

sortVars == <<array, lookup>>

SortInit == array = [given |-> <<>>, now |-> <<>>, sorted |-> FALSE] /\ lookup = <<>>

cmp(a, b) == a[1] - b[1]

----------------------------------------------------------------------------
(* Sorting *)

(* _ffsort_insertion(): each goes to the right of the last not greater. *)
Insertion(a) ==
  FoldLeft(LAMBDA d, x : InsertAt(d, SelectLastInSeq(d, LAMBDA e : cmp(e, x) <= 0) + 1, x), <<>>, a)

(* Definitions "Wrong..." are what a plausible slip would have made of the *)
(* definition below them; no specification uses them.                      *)

(* Wrong: of two equal elements the right one goes first. *)
RECURSIVE WrongMerged(_, _)
WrongMerged(L, R) ==
  CASE L = <<>> -> <<>>
    [] L # <<>> /\ R = <<>> -> L
    [] L # <<>> /\ R # <<>> /\ cmp(L[1], R[1]) < 0 -> <<L[1]>> \o WrongMerged(Tail(L), R)
    [] OTHER -> <<R[1]>> \o WrongMerged(L, Tail(R))

(* The temporary storage: all but the right tail, which stays in place. *)
RECURSIVE Merged(_, _)
Merged(L, R) ==
  CASE L = <<>> -> <<>>
    [] L # <<>> /\ R = <<>> -> L
    [] L # <<>> /\ R # <<>> /\ cmp(L[1], R[1]) <= 0 -> <<L[1]>> \o Merged(Tail(L), R)
    [] OTHER -> <<R[1]>> \o Merged(L, Tail(R))

(* _ffsort_merge() *)
RECURSIVE Merge(_, _)
Merge(a, elsize) ==
  LET nL == Len(a) \div 2
      halves == Merge(SubSeq(a, 1, nL), elsize) \o Merge(SubSeq(a, nL + 1, Len(a)), elsize)
      tmp == Merged(SubSeq(halves, 1, nL), SubSeq(halves, nL + 1, Len(a)))
  IN  IF Len(a) <= 1 THEN a
      ELSE IF Len(a) * elsize <= SortSmall THEN Insertion(a)
      ELSE tmp \o SubSeq(halves, Len(tmp) + 1, Len(a))

(* ffsort() on an array that the caller has filled; it sorts nothing when  *)
(* there is no memory for the temporary storage.                           *)
ffsort(keys, elsize, memory) ==
  LET a == [i \in DOMAIN keys |-> <<keys[i], i>>]
  IN  /\ array.given = <<>>
      /\ array' = [given |-> a, now |-> IF memory THEN Merge(a, elsize) ELSE a, sorted |-> memory]
      /\ UNCHANGED lookup

----------------------------------------------------------------------------
(* Searching: places are from 0, and -1 is "not found".                    *)

(* ffslice_find(), ffarrint*_find(), ffszarr_find() *)
FindFirst(a, key) == SelectInSeq(a, LAMBDA x : x[1] = key) - 1

(* Wrong: the element is taken for the key. *)
RECURSIVE WrongHalve(_, _, _)
WrongHalve(r, start, len) ==
  LET i == start + (len - start) \div 2
  IN  IF start = len THEN -1
      ELSE IF r[i + 1] = 0 THEN i
      ELSE IF r[i + 1] > 0 THEN WrongHalve(r, i + 1, len)
      ELSE WrongHalve(r, start, i)

(* ffarr_binfind(), ffarrint*_binfind(), ffszarr_findsorted(): r is the    *)
(* sign of element - key.                                                  *)
RECURSIVE Halve(_, _, _)
Halve(r, start, len) ==
  LET i == start + (len - start) \div 2
  IN  IF start = len THEN -1
      ELSE IF r[i + 1] = 0 THEN i
      ELSE IF r[i + 1] > 0 THEN Halve(r, start, i)
      ELSE Halve(r, i + 1, len)

BinFind(r) == Halve(r, 0, Len(r))

ffslice_find(key) ==
  /\ array.given # <<>> /\ lookup = <<>>
  /\ lookup' = <<key, FindFirst(array.now, key),
                 IF array.sorted THEN BinFind([i \in DOMAIN array.now |-> array.now[i][1] - key]) ELSE -1>>
  /\ UNCHANGED array

SortNext ==
  \/ \E n \in 0..SortMaxLen : \E keys \in [1..n -> SortKeys] :
       \E elsize \in SortSizes : \E memory \in BOOLEAN : ffsort(keys, elsize, memory)
  \/ \E key \in SortKeys : ffslice_find(key)

----------------------------------------------------------------------------
(* Properties *)

(* However the array is split and merged, sorting loses no element, puts   *)
(* none before a smaller one, and keeps equal ones in their order; without *)
(* memory the array is as it was.                                          *)
SortIsStable ==
  LET a == array.now
  IN  /\ Len(a) = Len(array.given) /\ ToSet(a) = ToSet(array.given)
      /\ \A i, j \in DOMAIN a : i < j =>
           IF array.sorted THEN a[i][1] < a[j][1] \/ (a[i][1] = a[j][1] /\ a[i][2] < a[j][2])
           ELSE a[i][2] < a[j][2]

(* In a sorted array the halving search finds a key just when the search   *)
(* from the start does, at an element that has it.                         *)
SearchesAgree ==
  lookup # <<>> =>
    LET Has(i) == array.now[i + 1][1] = lookup[1]
        places == 0..Len(array.now) - 1
    IN  /\ IF lookup[2] = -1 THEN \A i \in places : ~Has(i)
           ELSE Has(lookup[2]) /\ \A i \in 0..lookup[2] - 1 : ~Has(i)
        /\ array.sorted => IF lookup[2] = -1 THEN lookup[3] = -1 ELSE lookup[3] # -1 /\ Has(lookup[3])
=============================================================================
