------------------------------ MODULE NameTree ------------------------------
(***************************************************************************)
(* fntree (ffbase/fntree.h): directories as growing blocks of entries, an  *)
(* entry that is a directory having the block of its own entries attached. *)
(* Cursors walk a tree in three orders, and compare two of them.           *)
(*                                                                         *)
(* The client fills a block before it attaches it: growing a block moves   *)
(* it, and the pointer in the parent's entry would be left behind.         *)
(* Entries of a block are numbered from 1; 0 is NULL.  Sizes count         *)
(* entries: an entry takes one unit.                                       *)
(***************************************************************************)
EXTENDS Integers, SequencesExt, FiniteSetsExt

CONSTANTS
  Blocks,      \* the blocks a client may create: positive numbers
  EntryNames,  \* names of entries: numbers, in their order
  BlockCap,    \* entries a new block has room for
  MaxEntries,  \* bound: entries in all blocks
  StackSize    \* levels a cursor can go down: FF_COUNT(block_stk)

ASSUME NameTreeAssumption ==
  /\ Blocks \subseteq Nat \ {0} /\ EntryNames \subseteq Nat
  /\ BlockCap \in Nat \ {0} /\ MaxEntries \in Nat /\ StackSize \in Nat

VARIABLES
  blocks,  \* the blocks: room, entries
  roots,   \* the blocks that are not attached
  walk     \* the walk under way: cursors, what it gave, blocks freed

treeVars == <<blocks, roots, walk>>

NoCursor == [cur |-> 0, blk |-> 0, stk |-> <<>>]

NoWalk == [kind |-> "none", root |-> 0, other |-> 0, l |-> NoCursor, r |-> NoCursor,
           out |-> <<>>, freed |-> {}]

TreeInit == blocks = <<>> /\ roots = {} /\ walk = NoWalk

----------------------------------------------------------------------------
(* Building *)

(* fntree_create() *)
Create(b) ==
  /\ b \notin DOMAIN blocks /\ \A c \in Blocks : c < b => c \in DOMAIN blocks
  /\ blocks' = [c \in DOMAIN blocks \cup {b} |->
                  IF c = b THEN [cap |-> BlockCap, entries |-> <<>>] ELSE blocks[c]]
  /\ roots' = roots \cup {b}

(* fntree_add().  A block that is full is doubled; if it cannot be, all    *)
(* stays as it was.  The names are given in their order.                   *)
Add(b, name) ==
  LET es   == blocks[b].entries
      full == Len(es) = blocks[b].cap
  IN  /\ FoldLeft(LAMBDA n, c : n + Len(blocks[c].entries), 0, SetToSeq(DOMAIN blocks)) < MaxEntries
      /\ es # <<>> => Last(es).name < name
      /\ blocks' = [blocks EXCEPT
                      ![b].cap = IF full THEN 2 * @ ELSE @,
                      ![b].entries = Append(@, [name |-> name, children |-> 0])]
      /\ UNCHANGED roots

(* fntree_attach() *)
Attach(b, i, c) ==
  /\ b # c /\ blocks[b].entries[i].children = 0
  /\ blocks' = [blocks EXCEPT ![b].entries[i].children = c]
  /\ roots' = roots \ {c}

Build ==
  /\ walk = NoWalk
  /\ \/ \E b \in Blocks : Create(b)
     \/ \E b \in roots, n \in EntryNames : Add(b, n)
     \/ \E b, c \in roots : \E i \in DOMAIN blocks[b].entries : Attach(b, i, c)
  /\ UNCHANGED walk

----------------------------------------------------------------------------
(* Cursors *)

Children(b, i) == blocks[b].entries[i].children

(* fntree_cur_next(): the cursor at the next entry, or as it was *)
Moved(c, b) == IF c.cur < Len(blocks[b].entries) THEN [c EXCEPT !.cur = @ + 1] ELSE c
HasNext(c, b) == c.cur < Len(blocks[b].entries)

(* _fntr_cur_push(), when there is a level left *)
Full(c) == Len(c.stk) = StackSize
Push(c, b, i) ==
  [cur |-> 0, blk |-> Children(b, i), stk |-> Append(c.stk, [blk |-> b, cur |-> i])]

(* _fntr_cur_pop(), when there is one *)
Pop(c) == [cur |-> Last(c.stk).cur, blk |-> Last(c.stk).blk, stk |-> Front(c.stk)]

(* Definitions "Wrong..." are what a plausible slip would have made of the *)
(* definition below them; no specification uses them.                      *)

(* The walking functions return the cursor and what they found: an entry,  *)
(* a block, or NULL.                                                       *)
Gives(c, e) == [c |-> c, e |-> e]
NULL == <<>>

(* Wrong: only one level is restored. *)
WrongUpToNext(c) ==
  CASE HasNext(c, c.blk) -> Gives(Moved(c, c.blk), <<c.blk, c.cur + 1>>)
    [] ~HasNext(c, c.blk) /\ c.stk # <<>> /\ HasNext(Pop(c), Last(c.stk).blk) ->
         Gives(Moved(Pop(c), Last(c.stk).blk), <<Last(c.stk).blk, Last(c.stk).cur + 1>>)
    [] OTHER -> Gives(c, NULL)

RECURSIVE UpToNext(_)
UpToNext(c) ==
  CASE HasNext(c, c.blk) -> Gives(Moved(c, c.blk), <<c.blk, c.cur + 1>>)
    [] ~HasNext(c, c.blk) /\ c.stk = <<>> -> Gives(c, NULL)
    [] OTHER -> UpToNext(Pop(c))

Entered(c, root) == [c EXCEPT !.blk = IF @ = 0 THEN root ELSE @]

(* fntree_cur_next_r() *)
NextR(cursor, root) ==
  LET c    == Entered(cursor, root)
      down == c.cur # 0 /\ Children(c.blk, c.cur) # 0
  IN  IF down /\ Full(c) THEN Gives(c, NULL)
      ELSE UpToNext(IF down THEN Push(c, c.blk, c.cur) ELSE c)

(* The second scan of fntree_cur_next_r_ctx().  A push that fails leaves   *)
(* it with no block to read.                                               *)
RECURSIVE NextDirectory(_)
NextDirectory(c) ==
  LET m == Moved(c, c.blk)
  IN  CASE ~HasNext(c, c.blk) -> IF c.stk = <<>> THEN Gives(c, NULL) ELSE NextDirectory(Pop(c))
        [] HasNext(c, c.blk) /\ Children(c.blk, m.cur) = 0 -> NextDirectory(m)
        [] OTHER -> IF Full(m) THEN Gives(m, <<"crash">>) ELSE Gives(Push(m, c.blk, m.cur), <<"down">>)

(* fntree_cur_next_r_ctx() *)
RECURSIVE NextRCtx(_, _)
NextRCtx(cursor, root) ==
  LET c == Entered(cursor, root)
      d == NextDirectory([c EXCEPT !.cur = 0])
  IN  IF HasNext(c, c.blk) THEN Gives(Moved(c, c.blk), <<c.blk, c.cur + 1>>)
      ELSE IF d.e = <<"down">> THEN NextRCtx(d.c, root) ELSE d

Done == -1

RECURSIVE Downward(_)
Downward(c) ==
  LET m == Moved(c, c.blk)
  IN  CASE ~HasNext(c, c.blk) -> Gives([c EXCEPT !.blk = Done], <<c.blk>>)
        [] HasNext(c, c.blk) /\ Children(c.blk, m.cur) = 0 -> Downward(m)
        [] OTHER -> IF Full(m) THEN Gives(m, NULL) ELSE Downward(Push(m, c.blk, m.cur))

(* _fntr_blk_next_r_post(); a block that was given is out of use. *)
NextPost(c, root) ==
  IF c.blk # Done THEN Downward(Entered(c, root))
  ELSE IF c.stk = <<>> THEN Gives(c, NULL) ELSE Downward(Pop(c))

----------------------------------------------------------------------------
(* Walks: an action is a call *)

Start(kind, root, other, l, r) ==
  /\ walk = NoWalk
  /\ walk' = [NoWalk EXCEPT !.kind = kind, !.root = root, !.other = other, !.l = l, !.r = r]
  /\ UNCHANGED <<blocks, roots>>

Walk == \E b \in roots, kind \in {"r", "ctx", "free"} : Start(kind, b, b, NoCursor, NoCursor)

(* fntree_cmp_init() *)
Compare ==
  \E b, c \in roots : b # c /\ Start("cmp", b, c, [Moved(NoCursor, b) EXCEPT !.blk = b],
                                                  [Moved(NoCursor, c) EXCEPT !.blk = c])

(* The last call said that there is no more. *)
Ended == walk.out # <<>> /\ Last(walk.out) = NULL

Goes(kind) == walk.kind = kind /\ ~Ended

NextCall(g) ==
  /\ walk' = [walk EXCEPT !.l = g.c, !.out = Append(@, g.e)]
  /\ UNCHANGED <<blocks, roots>>

Next_r == Goes("r") /\ NextCall(NextR(walk.l, walk.root))

Next_r_ctx ==
  /\ Goes("ctx") /\ IF walk.out = <<>> THEN TRUE ELSE Last(walk.out) # <<"crash">>
  /\ NextCall(NextRCtx(walk.l, walk.root))

(* A turn of fntree_free_all() *)
FreeNext ==
  LET g == NextPost(walk.l, walk.root)
  IN  /\ Goes("free")
      /\ walk' = [walk EXCEPT !.l = g.c, !.out = Append(@, g.e), !.freed = @ \cup ToSet(g.e)]
      /\ UNCHANGED <<blocks, roots>>

Name(c) == blocks[c.blk].entries[c.cur].name

(* Wrong: entries at different depths are compared. *)
WrongShown(c, other) == c.cur

(* An entry that is not to be compared, the other side being deeper, is 0. *)
Shown(c, other) == IF Len(c.stk) < Len(other.stk) THEN 0 ELSE c.cur

(* c->lc.cur = fntree_cur_next_r(&c->lc, &b) *)
Advance(c) == LET g == NextR(c, 0) IN [g.c EXCEPT !.cur = IF g.e = NULL THEN 0 ELSE @]

(* fntree_cmp_next(), with _fntree_cmp_default() *)
CompareNext ==
  LET l == walk.l   r == walk.r
      l1 == Shown(l, r)   r1 == Shown(r, l)
      i == CASE l1 = 0 -> IF r1 # 0 THEN "right" ELSE "done"
             [] l1 # 0 /\ r1 = 0 -> "left"
             [] OTHER -> CASE Name(l) < Name(r) -> "left" [] Name(l) > Name(r) -> "right" [] OTHER -> "eq"
  IN  /\ Goes("cmp")
      /\ walk' = [walk EXCEPT
           !.l = IF i # "right" /\ @.cur # 0 THEN Advance(@) ELSE @,
           !.r = IF i # "left" /\ @.cur # 0 THEN Advance(@) ELSE @,
           !.out = Append(@, IF i = "done" THEN NULL
                             ELSE <<i, <<l.blk, l.cur>>, <<r.blk, r.cur>>>>)]
      /\ UNCHANGED <<blocks, roots>>

TreeNext == Build \/ Walk \/ Compare \/ Next_r \/ Next_r_ctx \/ FreeNext \/ CompareNext

----------------------------------------------------------------------------
(* Properties *)

EntriesOf(b) == [i \in DOMAIN blocks[b].entries |-> <<b, i>>]

(* The entries below b: parents before their children; all entries of a    *)
(* directory before what is below them.                                    *)
RECURSIVE PreOrder(_), CtxOrder(_), Levels(_), Below(_)
PreOrder(b) ==
  IF b = 0 THEN <<>>
  ELSE FlattenSeq([i \in DOMAIN blocks[b].entries |-> <<<<b, i>>>> \o PreOrder(Children(b, i))])
CtxOrder(b) ==
  IF b = 0 THEN <<>>
  ELSE EntriesOf(b) \o FlattenSeq([i \in DOMAIN blocks[b].entries |-> CtxOrder(Children(b, i))])
Levels(b) == IF b = 0 THEN -1 ELSE 1 + Max({-1} \cup {Levels(Children(b, i)) : i \in DOMAIN blocks[b].entries})
Below(b) == IF b = 0 THEN {} ELSE {b} \cup UNION {Below(Children(b, i)) : i \in DOMAIN blocks[b].entries}

(* The tree is not deeper than the stack of a cursor. *)
Shallow == Levels(walk.root) <= StackSize /\ Levels(walk.other) <= StackSize

Reported == SelectSeq(walk.out, LAMBDA e : e # NULL)

(* Every order visits every entry once, in that order; freeing frees every *)
(* block once, after all below it, and reads none it has freed.  A tree    *)
(* that is too deep is left early, with nothing visited twice.             *)
WalksVisitAll ==
  /\ walk.kind = "r" => IsPrefix(Reported, PreOrder(walk.root)) /\ (Ended /\ Shallow => Reported = PreOrder(walk.root))
  /\ walk.kind = "ctx" /\ Shallow => IsPrefix(Reported, CtxOrder(walk.root)) /\ (Ended => Reported = CtxOrder(walk.root))
  /\ walk.kind = "free" =>
       /\ \A i, j \in DOMAIN Reported : i < j => Reported[j][1] \notin Below(Reported[i][1])
       /\ \A i \in DOMAIN walk.l.stk : walk.l.stk[i].blk \notin walk.freed
       /\ Ended /\ Shallow => walk.freed = Below(walk.root)

(* The names from the root down to an entry *)
RECURSIVE PathOf(_, _)
PathOf(root, e) ==
  LET up == {p \in ToSet(PreOrder(root)) : Children(p[1], p[2]) = e[1]}
      own == <<blocks[e[1]].entries[e[2]].name>>
  IN  IF up = {} THEN own ELSE PathOf(root, CHOOSE p \in up : TRUE) \o own

(* Comparing two trees reports every entry of both once: as a pair of      *)
(* equals exactly when the other tree has an entry with the same path.     *)
CompareMergesTrees ==
  walk.kind = "cmp" /\ Ended /\ Shallow =>
    LET L == PreOrder(walk.root)   R == PreOrder(walk.other)
        side(kinds, n) == [i \in DOMAIN SelectSeq(Reported, LAMBDA e : e[1] \in kinds) |->
                             SelectSeq(Reported, LAMBDA e : e[1] \in kinds)[i][n]]
        paths(root) == {PathOf(root, e) : e \in ToSet(PreOrder(root))}
    IN  /\ side({"left", "eq"}, 2) = L /\ side({"right", "eq"}, 3) = R
        /\ {PathOf(walk.root, e) : e \in ToSet(side({"eq"}, 2))} = paths(walk.root) \cap paths(walk.other)
        /\ \A i \in DOMAIN side({"eq"}, 2) :
             PathOf(walk.root, side({"eq"}, 2)[i]) = PathOf(walk.other, side({"eq"}, 3)[i])
=============================================================================
