--------------------------- MODULE MCTraceEncoding ---------------------------
(***************************************************************************)
(* Eight programs.  Sizes of ids, addresses and events are the real ones;   *)
(* the buffer is a few hundred bytes, so that it is handed over in the     *)
(* middle of each of them, and the margin and the limits of a block's      *)
(* operations that follow from it are smaller in proportion.               *)
(***************************************************************************)
EXTENDS TraceEncoding

Var(v, off) == [var |-> v, off |-> off]
Cst(off) == [var |-> "", off |-> off]
Value(v) == [kind |-> "value", base |-> v, idx |-> <<>>]
Other(v) == [kind |-> "other", base |-> v, idx |-> <<>>]
Gep(v, idx) == [kind |-> "gep", base |-> v, idx |-> idx]

Load(n, addr) == [op |-> "mem", write |-> FALSE, addr |-> addr, bytes |-> 8, at |-> n]
Store(n, addr) == [op |-> "mem", write |-> TRUE, addr |-> addr, bytes |-> 4, at |-> n]
Atomic(n) == [op |-> "atomic", at |-> n]
Call(n, class) == [op |-> "call", class |-> class, at |-> n]
CallTo(n, f) == [op |-> "call", class |-> "function", to |-> f, at |-> n]
To(body, succ) == [body |-> body, succ |-> succ, mark |-> FALSE]

\* A loop around an if with an else, after which the two ways share a block that only
\* leads to the loop's test: it is duplicated, and the id of the test left out.
Loop ==
  [functions |-> <<"f">>, threads |-> {1},
   layout |-> [f |-> <<1, 2, 3, 4, 5, 6, 7>>],
   code |-> <<To(<<Load(1, Value("g")), Load(2, Value("g"))>>, <<2>>),
              To(<<Load(3, Gep("a", <<Var("i", 8), Cst(0)>>)),
                   Store(4, Gep("a", <<Var("i", 8), Cst(4)>>)),
                   Load(5, Gep("a", <<Var("j", 8), Cst(0)>>))>>, <<3, 4>>),
              To(<<Store(6, Other("p"))>>, <<5>>),
              To(<<Load(7, Value("q")), Store(8, Other("p")), Load(9, Value("q"))>>, <<5>>),
              To(<<Load(10, Gep("s", <<Cst(0), Cst(8)>>)), Store(11, Gep("s", <<Cst(0), Cst(0)>>))>>,
                 <<6>>),
              To(<<Load(12, Gep("s", <<Cst(0), Cst(0)>>))>>, <<2, 7>>),
              To(<<Store(13, Value("g"))>>, <<>>)>>]

\* Calls in the middle of blocks, an annotation and a builtin among them, and a branch after
\* a call that is there already; the function called uses atomics, before and after its last
\* stored address.
Calling ==
  [functions |-> <<"f", "h">>, threads |-> {1},
   layout |-> [f |-> <<1, 2, 3, 4>>, h |-> <<5, 6, 7>>],
   code |-> <<To(<<Load(1, Value("g"))>>, <<2>>),
              To(<<Call(2, "note"), Load(3, Value("g")), CallTo(4, "h"),
                   Load(5, Value("g")), Call(6, "acquire")>>, <<3>>),
              To(<<Store(7, Value("g")), Call(8, "malloc"), Call(9, "builtin"),
                   Load(10, Value("g"))>>, <<2, 4>>),
              To(<<CallTo(11, "h")>>, <<>>),
              To(<<Atomic(12), Load(13, Value("x")), Atomic(14)>>, <<6>>),
              To(<<Store(15, Value("x")), Atomic(16)>>, <<7>>),
              To(<<Load(17, Value("y"))>>, <<>>)>>]

\* Every other event.
Recording ==
  [functions |-> <<"f">>, threads |-> {1},
   layout |-> [f |-> <<1, 2, 3, 4>>],
   code |-> <<To(<<Call(1, "malloc")>>, <<2>>),
              To(<<Load(2, Other("p")), Call(3, "condwait"), Call(4, "condsignal")>>, <<2, 3>>),
              To(<<Call(5, "barrier"), Call(6, "realloc"), Call(7, "bulk")>>, <<2, 4>>),
              To(<<Call(8, "transfer"), Call(9, "wait"), Call(10, "create"), Call(13, "release"),
                   Call(11, "join"), Call(12, "free")>>, <<>>)>>]

\* Two threads, whose buffers are mixed in the file.
Sharing ==
  [functions |-> <<"f">>, threads |-> {1, 2},
   layout |-> [f |-> <<1, 2, 3>>],
   code |-> <<To(<<Load(1, Value("g")), Atomic(2)>>, <<2>>),
              To(<<Load(3, Value("g")), Store(4, Value("h")), Call(5, "malloc")>>, <<2, 3>>),
              To(<<Call(6, "free")>>, <<>>)>>]

\* A block with more operations than the margin holds.
Many(n) == [k \in 1..n |-> Load(100 + k, Other("p"))]
LargeAfter(first, second) ==
  [functions |-> <<"f">>, threads |-> {1},
   layout |-> [f |-> <<1, 2, 3, 4>>],
   code |-> <<To(first, <<2>>),
              To(second, <<3, 4>>),
              To(Many((Margin - 4) \div OpBytes + 1), <<2, 4>>),
              To(<<Store(3, Value("g"))>>, <<>>)>>]
Fits == LargeAfter(<<Load(1, Value("g"))>>, <<Load(2, Value("g"))>>)

\* What Sound leaves out: the same block where there is no room for it; a buffer that is full
\* in a function's first block, whose successor has no id; and GEPs of different lengths.
Moved == LargeAfter(<<Call(1, "malloc")>>, <<>>)
First ==
  [functions |-> <<"f">>, threads |-> {1},
   layout |-> [f |-> <<1, 2>>],
   code |-> <<To([k \in 1..5 |-> Load(k, Other("p"))], <<2>>),
              To(<<Load(6, Value("g"))>>, <<>>)>>]
Lengths ==
  [functions |-> <<"f">>, threads |-> {1},
   layout |-> [f |-> <<1>>],
   code |-> <<To(<<Load(1, Gep("s", <<Cst(0), Cst(0)>>)),
                   Load(2, Gep("s", <<Cst(0), Cst(4), Var("i", 8)>>))>>, <<>>)>>]

MCPrograms == {Loop, Sharing, Calling, Recording, Fits, Moved, First, Lengths}
==============================================================================
