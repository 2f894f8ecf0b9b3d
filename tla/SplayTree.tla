------------------------------- MODULE SplayTree -------------------------------
(***************************************************************************)
(* The top-down splay trees of the dynamic analysis.  A tree is Null or    *)
(* <<left, item, right>>; an item is a record with a key.  The header      *)
(* holds five copies of the same code; the trees differ in what they do    *)
(* with a key that is there already.  The sizes the nodes keep are those   *)
(* of their subtrees whenever they are read, and are computed here.        *)
(***************************************************************************)
EXTENDS Naturals, Sequences

Null == <<>>
Leaf(item) == <<Null, item, Null>>
Left(t) == t[1]
Item(t) == t[2]
Right(t) == t[3]
Key(t) == t[2].key

RECURSIVE InOrder(_)
InOrder(t) == IF t = Null THEN <<>> ELSE InOrder(Left(t)) \o <<Item(t)>> \o InOrder(Right(t))
Size(t) == Len(InOrder(t))

RotateRight(t) == LET y == Left(t) IN <<Left(y), Item(y), <<Right(y), Item(t), Right(t)>>>>
RotateLeft(t) == LET y == Right(t) IN <<<<Left(t), Item(t), Left(y)>>, Item(y), Right(y)>>

\* What is left of u on the way to s goes to the side of the new root s it belongs to.
HangRight(u, s) == IF s = Null THEN u ELSE <<Left(s), Item(s), <<Right(s), Item(u), Right(u)>>>>
HangLeft(u, s) == IF s = Null THEN u ELSE <<<<Left(u), Item(u), Left(s)>>, Item(s), Right(s)>>

\* The node with key i becomes the root, or the last one on the way to where it would be.
RECURSIVE Splay(_, _), SplayLeft(_, _), SplayRight(_, _)
SplayLeft(i, u) == HangRight(u, Splay(i, Left(u)))
SplayRight(i, u) == HangLeft(u, Splay(i, Right(u)))
Splay(i, t) ==
  CASE t # Null /\ i < Key(t) /\ Left(t) # Null ->
         SplayLeft(i, IF i < Key(Left(t)) THEN RotateRight(t) ELSE t)
    [] t # Null /\ i > Key(t) /\ Right(t) # Null ->
         SplayRight(i, IF i > Key(Right(t)) THEN RotateLeft(t) ELSE t)
    [] OTHER -> t

\* Load buffer and dispatch queue: a key that is there already is inserted once more.
NewRoot(item, s) ==
  CASE s = Null -> Leaf(item)
    [] s # Null /\ item.key < Key(s) -> <<Left(s), item, <<Null, Item(s), Right(s)>>>>
    [] OTHER -> <<<<Left(s), Item(s), Null>>, item, Right(s)>>
InsertAgain(item, t) == NewRoot(item, Splay(item.key, t))

\* Reuse tree and levels: a key that is there already stays as it is.
KeepOrNewRoot(item, s) == IF s # Null /\ Key(s) = item.key THEN s ELSE NewRoot(item, s)
Insert(item, t) == KeepOrNewRoot(item, Splay(item.key, t))

\* What is to the right of the node that replaces the root is not looked at.
Join(x, right) == <<Left(x), Item(x), right>>
DeleteRoot(i, s) == IF Left(s) = Null THEN Right(s) ELSE Join(Splay(i, Left(s)), Right(s))
DeleteAt(i, s) == IF s # Null /\ Key(s) = i THEN DeleteRoot(i, s) ELSE s
Delete(i, t) == DeleteAt(i, Splay(i, t))

RECURSIVE MinKey(_)
MinKey(t) == IF Left(t) = Null THEN Key(t) ELSE MinKey(Left(t))
================================================================================
