----------------------------- MODULE TextProofs -----------------------------
(***************************************************************************)
(* Text that goes out and text that comes in.  First the terminal: the     *)
(* pointers into the virtual symbols, and what is shown, for windows of    *)
(* any sizes, any drawings and a buffer of any length.  Then the parser:   *)
(* what parser_parse_file answers and what the getters show, for all       *)
(* formats, lines and files.                                               *)
(***************************************************************************)
EXTENDS Parser, Terminal, FiniteSetTheorems, WellFoundedInduction, TLAPS

\* The index of a cell is inside of the block, which has a symbol for each cell.
LEMMA IndexInside ==
    ASSUME NEW w \in Nat, NEW h \in Nat, NEW x \in 0 .. w - 1, NEW y \in 0 .. h - 1
    PROVE  y * w + x \in Nat /\ y * w + x < w * h
<1>1. y * w \in Nat
  OBVIOUS
<1>2. PICK k \in Nat : h = (y + 1) + k
  <2>1. h - (y + 1) \in Nat /\ h = (y + 1) + (h - (y + 1))
    OBVIOUS
  <2>. QED
    BY <2>1
<1>3. k * w \in Nat
  OBVIOUS
<1>4. w * h = (y * w + w) + k * w
  BY <1>2
<1>. QED
  BY <1>1, <1>3, <1>4

Typed ==
    /\ size \in Sizes
    /\ extents \in {Start, size}
    /\ cell \in Nat \X Nat

\* Where the client or a refresh is in the middle of a call that the handler did not interrupt, the
\* cell is one of the window, and the pointer points to it.
Pointing ==
    /\ at = "chosen" => cell \in Cells(size)
    /\ at \in {"got", "visit"} => cell \in Cells(size) /\ pointer = IndexOf(cell)

PointersInv ==
    /\ Typed
    /\ resized \/ Pointing
    /\ OnlyTheHandlerHurts

LEMMA SizesAreNat ==
    ASSUME NEW s \in Sizes
    PROVE  s[1] \in Nat \ {0} /\ s[2] \in Nat \ {0}
BY TerminalAssumption

LEMMA PointersInit == Init => PointersInv
BY DEF Init, PointersInv, Typed, Pointing, OnlyTheHandlerHurts, Start

\* What a pointer that is used can be.
LEMMA PointerGood ==
    ASSUME PointersInv, at \in {"got", "visit"}, BadPointer
    PROVE  resized
<1>. SUFFICES ASSUME ~resized
              PROVE  FALSE
  OBVIOUS
<1>. DEFINE x == cell[1]
            y == cell[2]
            w == size[1]
            h == size[2]
<1>1. x \in 0 .. w - 1 /\ y \in 0 .. h - 1 /\ pointer = y * w + x
  BY DEF PointersInv, Pointing, Cells, IndexOf
<1>2. w \in Nat /\ h \in Nat
  BY SizesAreNat DEF PointersInv, Typed
<1>. HIDE DEF x, y, w, h
<1>3. pointer \in Nat /\ pointer < w * h
  BY <1>1, <1>2, IndexInside
<1>4. pointer = None \/ pointer >= w * h
  BY DEF BadPointer, w, h
<1>. QED
  BY <1>2, <1>3, <1>4 DEF None

\* The client is back where it calls nothing, or about to be.
LEMMA PointersRest ==
    ASSUME PointersInv, fault = "none",
           UNCHANGED <<size, extents, fault, resized>>, cell' \in Nat \X Nat,
           at' \in {"idle", "refresh", "refreshed"}
    PROVE  PointersInv'
BY DEF PointersInv, Typed, Pointing, OnlyTheHandlerHurts

\* The failure of a call that uses its pointer.
LEMMA PointersFail ==
    ASSUME PointersInv, at \in {"got", "visit"}, BadPointer, Fails("bad pointer")
    PROVE  PointersInv'
<1>1. resized
  BY PointerGood
<1>2. UNCHANGED <<size, symbols, extents, cell, resized>> /\ fault' = "bad pointer"
  BY DEF Fails, client
<1>. QED
  BY <1>1, <1>2 DEF PointersInv, Typed, OnlyTheHandlerHurts

\* The sizes that the client knows are that of the window, or 0 x 0.
LEMMA ChoosePoints ==
    ASSUME PointersInv, Choose
    PROVE  PointersInv'
<1>1. /\ fault = "none" /\ UNCHANGED <<size, symbols, extents, fault>>
      /\ at' = "chosen" /\ cell' \in Cells(extents) \cup Cells(size)
  BY DEF Choose, Running
<1>2. Cells(Start) = {}
  BY DEF Cells, Start
<1>3. cell' \in Cells(size)
  BY <1>1, <1>2 DEF PointersInv, Typed
<1>4. Cells(size) \subseteq Nat \X Nat
  BY SizesAreNat DEF PointersInv, Typed, Cells
<1>5. Typed' /\ Pointing'
  BY <1>1, <1>3, <1>4 DEF PointersInv, Typed, Pointing
<1>. QED
  BY <1>1, <1>5 DEF PointersInv, OnlyTheHandlerHurts

LEMMA GetSymbolPoints ==
    ASSUME PointersInv, GetSymbol
    PROVE  PointersInv'
<1>1. /\ fault = "none" /\ UNCHANGED <<size, symbols, extents, cell, fault, resized>>
      /\ at = "chosen" /\ at' = "got" /\ pointer' = IndexOf(cell)
  BY DEF GetSymbol, Running
<1>2. Pointing => Pointing'
  BY <1>1 DEF Pointing, IndexOf
<1>. QED
  BY <1>1, <1>2 DEF PointersInv, Typed, OnlyTheHandlerHurts

LEMMA ChangePoints ==
    ASSUME PointersInv, Change
    PROVE  PointersInv'
<1>1. CASE BadPointer
  BY <1>1, PointersFail DEF Change
<1>2. CASE ~BadPointer
  <2>1. fault = "none" /\ Idle /\ UNCHANGED <<size, extents, fault, resized>>
    BY <1>2 DEF Change, Running
  <2>2. cell' \in Nat \X Nat /\ at' = "idle"
    BY <2>1 DEF Idle, Start
  <2>. QED
    BY <2>1, <2>2, PointersRest
<1>. QED
  BY <1>1, <1>2

\* The loop conditions of term_refresh.
LEMMA VisitPoints ==
    ASSUME PointersInv, Visit
    PROVE  PointersInv'
<1>1. /\ fault = "none"
      /\ UNCHANGED <<size, symbols, extents, fault, resized>>
  BY DEF Visit, Running
<1>2. cell \in Nat \X Nat /\ size[1] \in Nat /\ size[2] \in Nat
  BY SizesAreNat DEF PointersInv, Typed
<1>3. CASE /\ cell[2] < size[2] /\ cell[1] < size[1]
           /\ at' = "visit" /\ pointer' = IndexOf(cell)
           /\ UNCHANGED cell
  <2>1. cell \in Cells(size)
    BY <1>2, <1>3 DEF Cells
  <2>2. Pointing'
    BY <1>1, <1>3, <2>1 DEF Pointing, IndexOf
  <2>. QED
    BY <1>1, <1>3, <2>2 DEF PointersInv, Typed, OnlyTheHandlerHurts
<1>4. CASE cell' = <<0, cell[2] + 1>> /\ UNCHANGED at
  <2>1. at' = "refresh" /\ cell' \in Nat \X Nat
    BY <1>2, <1>4 DEF Visit
  <2>. QED
    BY <1>1, <2>1, PointersRest
<1>5. CASE at' = "refreshed" /\ UNCHANGED cell
  BY <1>1, <1>2, <1>5, PointersRest
<1>. QED
  BY <1>3, <1>4, <1>5 DEF Visit

LEMMA EmitPoints ==
    ASSUME PointersInv, Emit
    PROVE  PointersInv'
<1>1. CASE BadPointer
  BY <1>1, PointersFail DEF Emit
<1>2. CASE ~BadPointer
  <2>1. /\ fault = "none" /\ UNCHANGED <<size, extents, fault, resized>>
        /\ at' = "refresh" /\ cell' = <<cell[1] + 1, cell[2]>>
    BY <1>2 DEF Emit, Running
  <2>2. cell' \in Nat \X Nat
    BY <2>1 DEF PointersInv, Typed
  <2>. QED
    BY <2>1, <2>2, PointersRest
<1>. QED
  BY <1>1, <1>2

\* The handler gives the window and g_screen their new size, and follows NULL after term_uninit.
LEMMA WinchPoints ==
    ASSUME PointersInv, NEW s \in Sizes, Winch(s)
    PROVE  PointersInv'
<1>1. CASE symbols = <<>>
  <2>1. /\ UNCHANGED <<size, symbols, extents, at, cell, pointer, resized>>
        /\ fault' = "no terminal"
    BY <1>1 DEF Winch, Fails, client
  <2>2. Typed' /\ (resized \/ Pointing)'
    BY <2>1 DEF PointersInv, Typed, Pointing, IndexOf
  <2>. QED
    BY <1>1, <2>1, <2>2 DEF PointersInv, OnlyTheHandlerHurts
<1>2. CASE symbols # <<>>
  <2>1. size' = s /\ extents' = s /\ UNCHANGED <<cell, fault>> /\ resized' /\ fault = "none"
    BY <1>2 DEF Winch
  <2>. QED
    BY <2>1 DEF PointersInv, Typed, OnlyTheHandlerHurts
<1>. QED
  BY <1>1, <1>2

LEMMA PointersNext == PointersInv /\ [Next]_vars => PointersInv'
<1>. SUFFICES ASSUME PointersInv, [Next]_vars
              PROVE  PointersInv'
  OBVIOUS
<1>1. CASE Choose \/ GetSymbol \/ Change \/ Visit \/ Emit
  BY <1>1, ChoosePoints, GetSymbolPoints, ChangePoints, VisitPoints, EmitPoints
<1>2. CASE Clear \/ Uninit
  <2>1. /\ fault = "none" /\ at = "idle"
        /\ UNCHANGED <<size, extents, at, cell, fault, resized>>
    BY <1>2 DEF Clear, Uninit, Running, client
  <2>. QED
    BY <2>1, PointersRest DEF PointersInv, Typed
<1>3. CASE Refresh
  <2>1. fault = "none" /\ at' = "refresh" /\ UNCHANGED <<size, extents, cell, fault>>
    BY <1>3 DEF Refresh, Running
  <2>. QED
    BY <2>1 DEF PointersInv, Typed, Pointing, OnlyTheHandlerHurts
<1>4. CASE Flush
  <2>1. fault = "none" /\ Idle /\ UNCHANGED <<size, extents, fault, resized>>
    BY <1>4 DEF Flush, Running
  <2>2. cell' \in Nat \X Nat /\ at' = "idle"
    BY <2>1 DEF Idle, Start
  <2>. QED
    BY <2>1, <2>2, PointersRest
<1>5. CASE \E s \in Sizes : Winch(s)
  BY <1>5, WinchPoints
<1>6. CASE UNCHANGED vars
  BY <1>6 DEF vars, client, PointersInv, Typed, Pointing, IndexOf, OnlyTheHandlerHurts
<1>. QED
  BY <1>1, <1>2, <1>3, <1>4, <1>5, <1>6 DEF Next

\* A pointer into the symbols is good wherever it is used, for windows of any sizes and however they
\* change, unless the handler of SIGWINCH ran in the middle of the call (draw.c:27-51, term.c:156,
\* term.c:165-188, term.c:320-395); between two calls it fails only after term_uninit.
THEOREM PointersCorrect == Spec => []OnlyTheHandlerHurts
<1>1. PointersInv => OnlyTheHandlerHurts
  BY DEF PointersInv
<1>. QED
  BY <1>1, PointersInit, PointersNext, PTL DEF Spec

-----------------------------------------------------------------------------
(* What the terminal shows.                                                  *)

\* What symbols, commands and terminals can be.
Stored == [symbol : Symbols, fg : Colours, bg : Colours, ta_flags : SUBSET Attributes,
           redraw : BOOLEAN]
Commands == [kind : {"clear", "move", "put"}, to : Nat \X Nat, look : Looks]
Terminals(s) == [screen : [Cells(s) -> Looks], cursor : Cells(s)]

Less == {r \in Nat \X Nat : r[1] < r[2]}

\* A nonempty set of naturals has a least element, by which what follows is shown
\* for each number of commands.
LEMMA Least ==
  ASSUME NEW S \in SUBSET Nat, S # {}
  PROVE  \E n \in S : \A m \in S : n <= m
<1>1. IsWellFoundedOn(Less, Nat)
  BY NatLessThanWellFounded DEF OpToRel, Less
<1>2. PICK n \in S : \A m \in S : ~(<<m, n>> \in Less)
  BY <1>1, WFMin
<1>3. \A m \in S : ~(m < n)
  BY <1>2 DEF Less
<1> QED
  BY <1>3

Steps(f, s, seen, commands) ==
    f = [n \in 0 .. Len(commands) |->
           IF n = 0 THEN seen ELSE Obeyed(s, f[n - 1], commands[n])]

LEMMA StepsAt ==
  ASSUME NEW f, NEW s, NEW seen, NEW commands \in Seq(Commands), Steps(f, s, seen, commands)
  PROVE  /\ f[0] = seen
         /\ \A n \in 1 .. Len(commands) : f[n] = Obeyed(s, f[n - 1], commands[n])
         /\ DOMAIN f = 0 .. Len(commands)
<1>1. f = [n \in 0 .. Len(commands) |->
           IF n = 0 THEN seen ELSE Obeyed(s, f[n - 1], commands[n])]
  BY DEF Steps
<1>2. /\ Len(commands) \in Nat /\ 0 \in 0 .. Len(commands)
      /\ \A n \in 1 .. Len(commands) : n \in 0 .. Len(commands) /\ n # 0
  OBVIOUS
<1>3. DOMAIN f = 0 .. Len(commands)
  BY <1>1
<1>4. \A n \in 0 .. Len(commands) :
        f[n] = IF n = 0 THEN seen ELSE Obeyed(s, f[n - 1], commands[n])
  BY <1>1
<1> QED
  BY <1>2, <1>3, <1>4

LEMMA StepsUnique ==
  ASSUME NEW s, NEW seen, NEW commands \in Seq(Commands), NEW more \in Seq(Commands),
         Len(commands) <= Len(more),
         \A n \in 1 .. Len(commands) : more[n] = commands[n],
         NEW f, Steps(f, s, seen, commands), NEW g, Steps(g, s, seen, more)
  PROVE  \A n \in 0 .. Len(commands) : f[n] = g[n]
<1> DEFINE Bad == {n \in 0 .. Len(commands) : f[n] # g[n]}
<1>1. SUFFICES ASSUME Bad # {}
               PROVE  FALSE
  OBVIOUS
<1>7. Bad \in SUBSET Nat
  OBVIOUS
<1>2. PICK n \in Bad : \A m \in Bad : n <= m
  BY <1>1, <1>7, Least
<1>3. f[0] = g[0]
  BY StepsAt
<1>4. n \in 1 .. Len(commands) /\ n \in 1 .. Len(more) /\ n - 1 \in 0 .. Len(commands)
  BY <1>2, <1>3
<1>5. f[n - 1] = g[n - 1]
  BY <1>2, <1>4
<1>6. f[n] = Obeyed(s, f[n - 1], commands[n]) /\ g[n] = Obeyed(s, g[n - 1], more[n])
  BY <1>4, StepsAt
<1> QED
  BY <1>2, <1>4, <1>5, <1>6

LEMMA StepsExist ==
  ASSUME NEW s, NEW seen, NEW commands \in Seq(Commands)
  PROVE  \E f : Steps(f, s, seen, commands)
<1> DEFINE Upto(m, f) == f = [n \in 0 .. m |->
                                IF n = 0 THEN seen ELSE Obeyed(s, f[n - 1], commands[n])]
           Bad == {m \in Nat : ~\E f : Upto(m, f)}
<1>1. ASSUME Bad # {}
      PROVE  FALSE
  <2>1. PICK m \in Bad : \A k \in Bad : m <= k
    BY <1>1, Least
  <2>2. CASE m = 0
    <3> DEFINE f == [n \in 0 .. 0 |-> seen]
    <3>1. Upto(0, f)
      OBVIOUS
    <3> QED
      BY <2>1, <2>2, <3>1
  <2>3. CASE m # 0
    <3>0. m \in Nat
      BY <2>1
    <3>1. m - 1 \in Nat /\ m - 1 \notin Bad
      <4> HIDE DEF Bad
      <4> QED
        BY <2>1, <2>3, <3>0
    <3>2. PICK f : Upto(m - 1, f)
      BY <3>1
    <3> DEFINE g == [n \in 0 .. m |-> IF n = m THEN Obeyed(s, f[m - 1], commands[m]) ELSE f[n]]
    <3>3. \A n \in 0 .. m : g[n] = IF n = 0 THEN seen ELSE Obeyed(s, g[n - 1], commands[n])
      <4> SUFFICES ASSUME NEW n \in 0 .. m
                   PROVE  g[n] = IF n = 0 THEN seen ELSE Obeyed(s, g[n - 1], commands[n])
        OBVIOUS
      <4>1. \A k \in 0 .. m - 1 :
              f[k] = IF k = 0 THEN seen ELSE Obeyed(s, f[k - 1], commands[k])
        BY <3>2
      <4>2. CASE n = 0
        BY <2>1, <2>3, <4>1, <4>2
      <4>3. CASE n # 0 /\ n # m
        <5>1. n \in 0 .. m - 1 /\ n - 1 \in 0 .. m /\ n - 1 # m
          BY <2>1, <4>3
        <5>2. g[n] = f[n] /\ g[n - 1] = f[n - 1]
          BY <4>3, <5>1
        <5> QED
          BY <4>1, <4>3, <5>1, <5>2
      <4>4. CASE n = m
        <5>1. m - 1 \in 0 .. m /\ m - 1 # m
          BY <3>1
        <5>2. g[n] = Obeyed(s, f[m - 1], commands[m]) /\ g[m - 1] = f[m - 1]
          BY <4>4, <5>1
        <5> QED
          BY <2>3, <4>4, <5>2
      <4> QED
        BY <4>2, <4>3, <4>4
    <3>4. DOMAIN g = 0 .. m
      OBVIOUS
    <3>5. g = [n \in 0 .. m |-> g[n]]
      OBVIOUS
    <3> HIDE DEF g
    <3>6. Upto(m, g)
      BY <3>3, <3>5
    <3> QED
      BY <2>1, <3>6
  <2> QED
    BY <2>2, <2>3
<1>2. Len(commands) \in Nat
  OBVIOUS
<1>3. PICK f : Upto(Len(commands), f)
  BY <1>1, <1>2
<1> QED
  BY <1>3 DEF Steps

LEMMA ShownIs ==
  ASSUME NEW s, NEW seen, NEW commands \in Seq(Commands)
  PROVE  \E f : Steps(f, s, seen, commands) /\ Shown(s, seen, commands) = f[Len(commands)]
<1> DEFINE d == CHOOSE f : Steps(f, s, seen, commands)
<1>1. Steps(d, s, seen, commands)
  BY StepsExist
<1>2. Shown(s, seen, commands) = d[Len(commands)]
  BY DEF Shown, Steps
<1> QED
  BY <1>1, <1>2

\* One more command is applied to what the others leave.
LEMMA ShownOneMore ==
  ASSUME NEW s, NEW seen, NEW commands \in Seq(Commands), NEW c \in Commands
  PROVE  Shown(s, seen, Append(commands, c)) = Obeyed(s, Shown(s, seen, commands), c)
<1> DEFINE more == Append(commands, c)
           n == Len(commands)
<1>1. /\ more \in Seq(Commands) /\ Len(more) = n + 1 /\ n \in Nat
      /\ \A k \in 1 .. n : more[k] = commands[k]
      /\ more[n + 1] = c
  OBVIOUS
<1> HIDE DEF more, n
<1>2. PICK f : Steps(f, s, seen, commands) /\ Shown(s, seen, commands) = f[n]
  BY ShownIs DEF n
<1>3. PICK g : Steps(g, s, seen, more) /\ Shown(s, seen, more) = g[n + 1]
  BY <1>1, ShownIs
<1>4. f[n] = g[n]
  <2>1. Len(commands) <= Len(more) /\ n \in 0 .. Len(commands)
    BY <1>1 DEF n
  <2>2. \A k \in 1 .. Len(commands) : more[k] = commands[k]
    BY <1>1 DEF n
  <2> QED
    BY <1>1, <1>2, <1>3, <2>1, <2>2, StepsUnique
<1>5. n + 1 \in 1 .. Len(more) /\ (n + 1) - 1 = n
  BY <1>1
<1>6. g[n + 1] = Obeyed(s, g[n], c)
  BY <1>1, <1>3, <1>5, StepsAt
<1> QED
  BY <1>2, <1>3, <1>4, <1>6 DEF more

LEMMA ShownNone ==
  ASSUME NEW s, NEW seen
  PROVE  Shown(s, seen, <<>>) = seen
<1>1. <<>> \in Seq(Commands) /\ Len(<<>>) = 0
  OBVIOUS
<1>2. PICK f : Steps(f, s, seen, <<>>) /\ Shown(s, seen, <<>>) = f[0]
  BY <1>1, ShownIs
<1> QED
  BY <1>1, <1>2, StepsAt


LEMMA LooksTyped ==
  /\ Blank \in Looks /\ Zeroed \in Stored /\ Look(Zeroed) = Blank
  /\ \A sym \in Stored : Look(sym) \in Looks
  /\ ClearCommand \in Commands
  /\ \A c \in Nat \X Nat : MoveCommand(c) \in Commands
  /\ \A look \in Looks : PutCommand(look) \in Commands
BY DEF Blank, Zeroed, Look, Looks, Stored, Symbols, Colours, Commands, ClearCommand,
       MoveCommand, PutCommand, Start

LEMMA CellsTyped ==
  ASSUME NEW s \in Sizes
  PROVE  /\ Start \in Cells(s)
         /\ \A c : c \in Cells(s) <=> /\ c \in Nat \X Nat
                                      /\ c[1] < s[1] /\ c[2] < s[2]
         /\ \A c \in Nat \X Nat : Clamped(c, s) \in Cells(s)
         /\ \A c \in Cells(s) : Clamped(c, s) = c /\ After(c, s) \in Cells(s)
BY SizesAreNat DEF Cells, Start, Clamped, After

LEMMA ObeyedTyped ==
  ASSUME NEW s \in Sizes, NEW seen \in Terminals(s), NEW command \in Commands
  PROVE  Obeyed(s, seen, command) \in Terminals(s)
<1>1. CASE command.kind = "clear"
  BY <1>1, LooksTyped DEF Obeyed, Terminals
<1>2. CASE command.kind = "move"
  BY <1>2, CellsTyped DEF Obeyed, Terminals, Commands
<1>3. CASE command.kind = "put"
  BY <1>3, CellsTyped DEF Obeyed, Terminals, Commands
<1> QED
  BY <1>1, <1>2, <1>3 DEF Commands

LEMMA ShownTyped ==
  ASSUME NEW s \in Sizes, NEW seen \in Terminals(s), NEW commands \in Seq(Commands)
  PROVE  Shown(s, seen, commands) \in Terminals(s)
<1>1. PICK f : Steps(f, s, seen, commands) /\ Shown(s, seen, commands) = f[Len(commands)]
  BY ShownIs
<1> DEFINE Bad == {n \in 0 .. Len(commands) : f[n] \notin Terminals(s)}
<1>2. ASSUME Bad # {}
      PROVE  FALSE
  <2>5. Bad \in SUBSET Nat
    OBVIOUS
  <2>1. PICK n \in Bad : \A m \in Bad : n <= m
    BY <1>2, <2>5, Least
  <2>2. n \in 1 .. Len(commands) /\ n - 1 \in 0 .. Len(commands)
    BY <1>1, <2>1, StepsAt
  <2>3. f[n - 1] \in Terminals(s)
    BY <2>1, <2>2
  <2>4. f[n] = Obeyed(s, f[n - 1], commands[n]) /\ commands[n] \in Commands
    BY <1>1, <2>2, StepsAt
  <2> QED
    BY <2>1, <2>3, <2>4, ObeyedTyped
<1>3. Len(commands) \in 0 .. Len(commands)
  OBVIOUS
<1> QED
  BY <1>1, <1>2, <1>3

LEMMA QuotientIs ==
  ASSUME NEW a \in Nat, NEW b \in Nat \ {0}
  PROVE  a = b * (a \div b) + (a % b)
OBVIOUS

\* The index of a cell points to the cell.
LEMMA IndexPoints ==
  ASSUME NEW w \in Nat, NEW x \in 0 .. w - 1, NEW y \in Nat
  PROVE  (y * w + x) % w = x /\ (y * w + x) \div w = y
<1>1. w \in Nat \ {0} /\ y * w \in Nat /\ y * w + x \in Nat
  OBVIOUS
<1> DEFINE a == y * w + x
           q == a \div w
           r == a % w
<1>2. a = w * q + r /\ q \in Int /\ r \in 0 .. w - 1
  BY <1>1, QuotientIs
<1> HIDE DEF q, r
<1>3. w * (q - y) = x - r
  BY <1>1, <1>2
<1>4. q - y \in Int /\ -w < x - r /\ x - r < w /\ x - r \in Int
  BY <1>1, <1>2
<1>5. q - y = 0
  <2>1. q - y >= 1 => w * (q - y) >= w
    BY <1>1, <1>4
  <2>2. q - y <= -1 => w * (q - y) <= -w
    BY <1>1, <1>4
  <2> QED
    BY <1>3, <1>4, <2>1, <2>2
<1>6. q = y /\ x = r
  BY <1>2, <1>3, <1>5
<1> QED
  BY <1>6 DEF q, r

\* The row of an index inside of the block.
LEMMA RowInside ==
  ASSUME NEW w \in Nat \ {0}, NEW h \in Nat, NEW i \in Nat, i < w * h
  PROVE  i % w \in 0 .. w - 1 /\ i \div w \in 0 .. h - 1
<1> DEFINE q == i \div w
           r == i % w
<1>1. i = w * q + r
  BY QuotientIs
<1>2. q \in Int /\ r \in 0 .. w - 1
  OBVIOUS
<1> HIDE DEF q, r
<1>3. q >= 0
  <2>1. q <= -1 => w * q <= -w
    BY <1>2
  <2> QED
    BY <1>1, <1>2, <2>1
<1>4. q < h
  <2>1. q >= h => w * q >= w * h
    BY <1>2
  <2>2. w * q \in Int /\ w * h \in Int
    BY <1>2
  <2> QED
    BY <1>1, <1>2, <2>1, <2>2
<1> QED
  BY <1>2, <1>3, <1>4 DEF q, r

\* A pointer into the block points to a cell of the window.
LEMMA PointedInside ==
  ASSUME size \in Sizes, pointer \in Nat \cup {None}, ~BadPointer
  PROVE  Pointed \in Cells(size)
<1>1. size[1] \in Nat \ {0} /\ size[2] \in Nat \ {0}
  BY SizesAreNat
<1>2. size[1] * size[2] \in Nat
  BY <1>1
<1>3. pointer \in Nat /\ pointer < size[1] * size[2]
  BY <1>2 DEF BadPointer
<1>4. pointer % size[1] \in 0 .. size[1] - 1 /\ pointer \div size[1] \in 0 .. size[2] - 1
  BY <1>1, <1>3, RowInside
<1> QED
  BY <1>4 DEF Pointed, Cells

LEMMA OneMore ==
  ASSUME NEW s \in Seq(Commands), NEW b \in Commands
  PROVE  s \o <<b>> = Append(s, b)
OBVIOUS

LEMMA Joined ==
  ASSUME NEW a \in Commands, NEW b \in Commands
  PROVE  <<a>> \o <<b>> = <<a, b>> /\ <<>> \o <<b>> = <<b>>
<1>1. <<a>> \in Seq(Commands) /\ <<>> \in Seq(Commands)
  OBVIOUS
<1>2. <<a>> \o <<b>> = Append(<<a>>, b)
  BY <1>1, OneMore
<1>3. <<>> \o <<b>> = Append(<<>>, b)
  BY <1>1, OneMore
<1>4. Append(<<a>>, b) = <<a, b>>
  <2>1. /\ Append(<<a>>, b) \in Seq(Commands) /\ Len(Append(<<a>>, b)) = 2
        /\ Append(<<a>>, b)[1] = a /\ Append(<<a>>, b)[2] = b
    BY <1>1
  <2>2. /\ <<a, b>> \in Seq(Commands) /\ Len(<<a, b>>) = 2
        /\ <<a, b>>[1] = a /\ <<a, b>>[2] = b
    OBVIOUS
  <2>3. \A i \in 1 .. 2 : Append(<<a>>, b)[i] = <<a, b>>[i]
    BY <2>1, <2>2
  <2>4. ASSUME NEW p \in Seq(Commands), NEW q \in Seq(Commands), Len(p) = 2, Len(q) = 2,
               \A i \in 1 .. 2 : p[i] = q[i]
        PROVE  p = q
    BY <2>4
  <2> QED
    BY <2>1, <2>2, <2>3, <2>4
<1>5. Append(<<>>, b) = <<b>>
  <2>1. /\ Append(<<>>, b) \in Seq(Commands) /\ Len(Append(<<>>, b)) = 1
        /\ Append(<<>>, b)[1] = b
    BY <1>1
  <2>2. <<b>> \in Seq(Commands) /\ Len(<<b>>) = 1
    OBVIOUS
  <2> QED
    BY <2>1, <2>2
<1> QED
  BY <1>2, <1>3, <1>4, <1>5

\* What _writef leaves in the buffer.
LEMMA WrittenIs ==
  ASSUME buffer \in Seq(Commands), Len(buffer) <= BUFFER_SIZE, NEW commands \in Seq(Commands)
  PROVE  /\ Written(commands) \in Seq(Commands) /\ Len(Written(commands)) <= BUFFER_SIZE
         /\ Fits(commands) => Written(commands) = buffer \o commands
<1> DEFINE all == buffer \o commands
           n == IF Len(all) <= BUFFER_SIZE THEN Len(all) ELSE BUFFER_SIZE
<1>1. all \in Seq(Commands) /\ Len(all) = Len(buffer) + Len(commands) /\ BUFFER_SIZE \in Nat
  BY TerminalAssumption
<1>2. Written(commands) = SubSeq(all, 1, n)
  BY DEF Written
<1> HIDE DEF all
<1>3. n \in Nat /\ n <= Len(all) /\ n <= BUFFER_SIZE
  BY <1>1
<1> HIDE DEF n
<1>4. SubSeq(all, 1, n) \in Seq(Commands) /\ Len(SubSeq(all, 1, n)) = n
  BY <1>1, <1>3
<1>5. ASSUME Fits(commands)
      PROVE  SubSeq(all, 1, n) = all
  <2>1. n = Len(all)
    BY <1>1, <1>5 DEF Fits, n
  <2> QED
    BY <1>1, <2>1
<1> QED
  BY <1>2, <1>3, <1>4, <1>5 DEF all

LEMMA ShownThen ==
  ASSUME NEW s, NEW seen, NEW commands \in Seq(Commands), NEW a \in Commands
  PROVE  Shown(s, seen, commands \o <<a>>) = Obeyed(s, Shown(s, seen, commands), a)
<1>1. commands \o <<a>> = Append(commands, a)
  OBVIOUS
<1> QED
  BY <1>1, ShownOneMore

LEMMA ShownThenTwo ==
  ASSUME NEW s, NEW seen, NEW commands \in Seq(Commands), NEW a \in Commands, NEW b \in Commands
  PROVE  Shown(s, seen, commands \o <<a, b>>)
           = Obeyed(s, Obeyed(s, Shown(s, seen, commands), a), b)
<1>1. commands \o <<a, b>> = Append(Append(commands, a), b) /\ Append(commands, a) \in Seq(Commands)
  OBVIOUS
<1> QED
  BY <1>1, ShownOneMore

\* What a call makes of a symbol is another one, or waits for the next refresh.
LEMMA ChangedSymbol ==
  ASSUME NEW sym \in Stored,
         NEW new \in {Drawn(sym, d) : d \in Drawings} \cup {Erased} \cup
                     (IF sym.symbol = Null THEN {} ELSE
                        {AttributesSet(sym, flags) : flags \in SUBSET Attributes} \cup
                        {AttributesUnset(sym, flags) : flags \in SUBSET Attributes})
  PROVE  new \in Stored /\ (new = sym \/ new.redraw)
<1>1. CASE new = Erased
  BY <1>1 DEF Erased, Stored, Symbols, Colours
<1>2. ASSUME NEW d \in Drawings, new = Drawn(sym, d)
      PROVE  new \in Stored /\ (new = sym \/ new.redraw)
  <2>1. d.symbol \in Symbols /\ d.ta_flags \in SUBSET Attributes
    BY TerminalAssumption DEF Symbols
  <2>2. (d.fg # Null => d.fg \in Colours) /\ (d.bg # Null => d.bg \in Colours)
    <3>1. {d.fg, d.bg} \in {{x.fg, x.bg} : x \in Drawings}
      OBVIOUS
    <3>2. {d.fg, d.bg} \subseteq UNION {{x.fg, x.bg} : x \in Drawings}
      BY <3>1
    <3> QED
      BY <3>2 DEF Colours
  <2> QED
    BY <1>2, <2>1, <2>2 DEF Drawn, Stored
<1>3. ASSUME NEW flags \in SUBSET Attributes,
             new = AttributesSet(sym, flags) \/ new = AttributesUnset(sym, flags)
      PROVE  new \in Stored /\ (new = sym \/ new.redraw)
  <2>1. ASSUME NEW kept \in SUBSET Attributes
        PROVE  /\ [sym EXCEPT !.ta_flags = kept, !.redraw = TRUE] \in Stored
               /\ [sym EXCEPT !.ta_flags = kept, !.redraw = TRUE].redraw
    BY DEF Stored
  <2>2. sym.ta_flags \cup flags \in SUBSET Attributes /\ sym.ta_flags \ flags \in SUBSET Attributes
    BY DEF Stored
  <2> QED
    BY <1>3, <2>1, <2>2 DEF AttributesSet, AttributesUnset
<1> QED
  BY <1>1, <1>2, <1>3

Unmoved == <<-1, -1>>

\* The cells that a refresh has been to.
Before(c, d) == c[2] < d[2] \/ (c[2] = d[2] /\ c[1] < d[1])

\* Where the handler ran in the middle of a call, what the terminal shows is not known.
Interrupted == at # "idle" /\ resized => stale

AtRest == at = "idle" => cell = Start /\ last = Unmoved

Pending ==
    ~stale /\ symbols # <<>> =>
      \A c \in Cells(size) : symbols[c].redraw \/ Flushed.screen[c] = Look(symbols[c])

\* A refresh knows where the cursor will be.
CursorKnown ==
    ~stale /\ at \in {"refresh", "visit"} =>
      last = Unmoved \/ (last \in Cells(size) /\ Flushed.cursor = After(last, size))

Visited ==
    at \in {"refresh", "visit", "refreshed"} /\ symbols # <<>> =>
      \A c \in Cells(size) : resized \/ Before(c, cell) => ~symbols[c].redraw

VisitedAll == at = "refreshed" => resized \/ cell[2] >= size[2]

Showing ==
    /\ PointersInv /\ TypeOK
    /\ Interrupted /\ AtRest /\ Pending /\ CursorKnown /\ Visited /\ VisitedAll

LEMMA TypeOKIs ==
  TypeOK <=>
    /\ size \in Sizes /\ extents \in Sizes \cup {Start}
    /\ symbols # <<>> => symbols \in [Cells(size) -> Stored]
    /\ screen \in [Cells(size) -> Looks] /\ cursor \in Cells(size)
    /\ buffer \in Seq(Commands) /\ Len(buffer) <= BUFFER_SIZE
    /\ at \in {"idle", "chosen", "got", "refresh", "visit", "refreshed"}
    /\ cell \in Nat \X Nat /\ last \in Int \X Int /\ pointer \in Nat \cup {None}
    /\ fault \in {"none", "bad pointer", "no terminal"}
    /\ {resized, stale} \subseteq BOOLEAN
BY DEF TypeOK, Stored, Commands

LEMMA FlushedTyped ==
  ASSUME TypeOK
  PROVE  Flushed \in Terminals(size)
<1>1. [screen |-> screen, cursor |-> cursor] \in Terminals(size)
  BY DEF TypeOK, Terminals
<1> QED
  BY <1>1, TypeOKIs, ShownTyped DEF Flushed

LEMMA ShowingInit == Init => Showing
<1> SUFFICES ASSUME Init
             PROVE  Showing
  OBVIOUS
<1>1. size \in Sizes /\ Start \in Cells(size)
  BY CellsTyped DEF Init
<1>2. /\ symbols \in [Cells(size) -> Stored] /\ screen \in [Cells(size) -> Looks]
      /\ \A c \in Cells(size) : /\ ~symbols[c].redraw /\ Look(symbols[c]) = Blank
                                /\ screen[c] = Blank
  BY LooksTyped DEF Init, AllZeroed, Zeroed
<1>3. buffer = <<>> /\ buffer \in Seq(Commands) /\ Len(buffer) <= BUFFER_SIZE
  BY TerminalAssumption DEF Init
<1>4. TypeOK
  <2>1. cell \in Nat \X Nat /\ last \in Int \X Int /\ pointer \in Nat \cup {None}
    BY DEF Init, Start
  <2>2. {resized, stale} \subseteq BOOLEAN
    BY DEF Init
  <2> QED
    BY <1>1, <1>2, <1>3, <2>1, <2>2 DEF Init, TypeOK, Stored, Commands
<1>5. Flushed = [screen |-> screen, cursor |-> cursor]
  BY <1>3, ShownNone DEF Flushed
<1>6. Pending
  BY <1>2, <1>5 DEF Pending
<1>7. /\ at = "idle" /\ cell = Start /\ last = Unmoved /\ PointersInv
  BY PointersInit DEF Init, Unmoved
<1> QED
  BY <1>4, <1>6, <1>7 DEF Showing, Interrupted, AtRest, CursorKnown, Visited, VisitedAll

\* The client at work changes neither the terminal nor what it will show.
LEMMA FlushedKept ==
  ASSUME UNCHANGED <<size, screen, cursor, buffer>>
  PROVE  Flushed' = Flushed
BY DEF Flushed

LEMMA FailShows ==
  ASSUME Showing, NEW kind \in {"bad pointer", "no terminal"}, Fails(kind), PointersInv'
  PROVE  Showing'
<1>1. /\ UNCHANGED <<size, symbols, extents, buffer, screen, cursor, resized, stale>>
      /\ UNCHANGED <<at, cell, last, pointer>> /\ fault' = kind
  BY DEF Fails, client
<1>2. Flushed' = Flushed
  BY <1>1, FlushedKept
<1>3. TypeOK'
  BY <1>1 DEF Showing, TypeOK
<1> QED
  BY <1>1, <1>2, <1>3 DEF Showing, Interrupted, AtRest, Pending, CursorKnown, Visited, VisitedAll

\* The client chooses a cell, takes the pointer, or begins a refresh.
LEMMA BeginShows ==
  ASSUME Showing, Choose \/ GetSymbol \/ Refresh, PointersInv'
  PROVE  Showing'
<1>1. UNCHANGED <<size, symbols, extents, buffer, screen, cursor, last, fault, stale>>
  BY DEF Choose, GetSymbol, Refresh
<1>2. Flushed' = Flushed
  BY <1>1, FlushedKept
<1>3. /\ cell' \in Nat \X Nat
      /\ pointer' \in Nat \cup {None}
      /\ resized' \in BOOLEAN
  <2>1. cell \in Nat \X Nat /\ size[1] \in Nat /\ size[2] \in Nat
    BY SizesAreNat DEF Showing, TypeOK
  <2>2. IndexOf(cell) \in Nat
    BY <2>1 DEF IndexOf
  <2>3. pointer' \in Nat \cup {None} /\ resized' \in BOOLEAN
    BY <2>2 DEF Choose, GetSymbol, Refresh, Showing, TypeOK
  <2> QED
    BY <2>3 DEF PointersInv, Typed
<1>4. at' \in {"chosen", "got", "refresh"}
  BY DEF Choose, GetSymbol, Refresh
<1>5. TypeOK'
  BY <1>1, <1>3, <1>4 DEF Showing, TypeOK
<1>6. Interrupted'
  BY <1>1 DEF Choose, GetSymbol, Refresh, Showing, Interrupted
<1>7. at' = "refresh" => cell' = Start /\ last' = Unmoved /\ ~resized'
  BY <1>1 DEF Choose, GetSymbol, Refresh, Showing, AtRest
<1>8. Visited'
  <2>1. ASSUME NEW c \in Cells(size)
        PROVE  ~Before(c, Start)
    <3>1. size \in Sizes
      BY DEF Showing, TypeOK
    <3>2. c[1] \in Nat /\ c[2] \in Nat
      BY <3>1, SizesAreNat DEF Cells
    <3> QED
      BY <3>2 DEF Before, Start
  <2> QED
    BY <1>1, <1>4, <1>7, <2>1 DEF Visited
<1> QED
  BY <1>1, <1>2, <1>4, <1>5, <1>6, <1>7, <1>8
     DEF Showing, AtRest, Pending, CursorKnown, VisitedAll

\* A call that draws.
LEMMA ChangeShows ==
  ASSUME Showing, Change, PointersInv'
  PROVE  Showing'
<1>1. CASE BadPointer
  BY <1>1, FailShows DEF Change
<1>2. CASE ~BadPointer
  <2> DEFINE sym == symbols[Pointed]
  <2>1. PICK new \in {Drawn(sym, d) : d \in Drawings} \cup {Erased} \cup
                     (IF sym.symbol = Null THEN {} ELSE
                        {AttributesSet(sym, flags) : flags \in SUBSET Attributes} \cup
                        {AttributesUnset(sym, flags) : flags \in SUBSET Attributes}) :
          symbols' = [symbols EXCEPT ![Pointed] = new]
    BY <1>2 DEF Change
  <2>2. /\ Idle /\ symbols # <<>>
        /\ UNCHANGED <<size, extents, buffer, screen, cursor, fault, resized, stale>>
    BY <1>2 DEF Change, Running
  <2>3. symbols \in [Cells(size) -> Stored]
    BY <2>2, TypeOKIs DEF Showing
  <2>4. /\ symbols' \in [Cells(size) -> Stored]
        /\ \A c \in Cells(size) : symbols'[c] = symbols[c] \/ symbols'[c].redraw
    <3>1. CASE Pointed \in Cells(size)
      <4>1. sym \in Stored
        BY <2>3, <3>1
      <4>2. new \in Stored /\ (new = sym \/ new.redraw)
        BY <4>1, ChangedSymbol
      <4> QED
        BY <2>1, <2>3, <3>1, <4>2
    <3>2. CASE Pointed \notin Cells(size)
      BY <2>1, <2>3, <3>2
    <3> QED
      BY <3>1, <3>2
  <2>5. Flushed' = Flushed
    BY <2>2, FlushedKept
  <2>6. at' = "idle" /\ cell' = Start /\ last' = Unmoved /\ pointer' = None
    BY <2>2 DEF Idle, Unmoved
  <2>7. TypeOK'
    <3>1. Start \in Nat \X Nat /\ Unmoved \in Int \X Int
      BY DEF Start, Unmoved
    <3> QED
      BY <2>2, <2>4, <2>6, <3>1 DEF Showing, TypeOK, Stored
  <2>8. Pending'
    BY <2>2, <2>4, <2>5 DEF Showing, Pending
  <2> QED
    BY <2>2, <2>6, <2>7, <2>8 DEF Showing, Interrupted, AtRest, CursorKnown, Visited, VisitedAll
<1> QED
  BY <1>1, <1>2

LEMMA ClearShows ==
  ASSUME Showing, Clear, PointersInv'
  PROVE  Showing'
<1>1. /\ symbols' = AllZeroed(size) /\ buffer' = Written(<<ClearCommand>>)
      /\ stale' = ~Fits(<<ClearCommand>>) /\ at = "idle"
      /\ UNCHANGED <<size, extents, screen, cursor, at, cell, last, pointer, fault, resized>>
  BY DEF Clear, client
<1>2. /\ size \in Sizes /\ buffer \in Seq(Commands) /\ Len(buffer) <= BUFFER_SIZE
      /\ <<ClearCommand>> \in Seq(Commands)
  <2>1. ClearCommand \in Commands
    BY LooksTyped
  <2>2. <<ClearCommand>> \in Seq(Commands)
    BY <2>1
  <2> QED
    BY <2>2, TypeOKIs DEF Showing
<1>3. buffer' \in Seq(Commands) /\ Len(buffer') <= BUFFER_SIZE
  BY <1>1, <1>2, WrittenIs
<1>4. symbols' \in [Cells(size) -> Stored] /\ \A c \in Cells(size) : Look(symbols'[c]) = Blank
  BY <1>1, LooksTyped DEF AllZeroed
<1>5. stale' \in BOOLEAN
  BY <1>1
<1>6. TypeOK'
  BY <1>1, <1>3, <1>4, <1>5 DEF Showing, TypeOK, Stored, Commands
<1>7. Pending'
  <2>1. SUFFICES ASSUME Fits(<<ClearCommand>>), NEW c \in Cells(size)
                 PROVE  Flushed'.screen[c] = Blank
    BY <1>1, <1>4 DEF Pending
  <2>2. Flushed' = Obeyed(size, Flushed, ClearCommand)
    <3>1. buffer' = buffer \o <<ClearCommand>> /\ ClearCommand \in Commands
      BY <1>1, <1>2, <2>1, WrittenIs, LooksTyped
    <3>2. Flushed' = Shown(size, [screen |-> screen, cursor |-> cursor],
                           buffer \o <<ClearCommand>>)
      BY <1>1, <3>1 DEF Flushed
    <3> QED
      BY <1>2, <3>1, <3>2, ShownThen DEF Flushed
  <2>3. Flushed \in Terminals(size) /\ ClearCommand.kind = "clear"
    BY FlushedTyped DEF Showing, ClearCommand
  <2>4. Flushed' = [Flushed EXCEPT !.screen = [d \in Cells(size) |-> Blank]]
    BY <2>2, <2>3 DEF Obeyed
  <2> QED
    BY <2>3, <2>4 DEF Terminals
<1> QED
  BY <1>1, <1>6, <1>7 DEF Showing, Interrupted, AtRest, CursorKnown, Visited, VisitedAll

LEMMA UninitShows ==
  ASSUME Showing, Uninit, PointersInv'
  PROVE  Showing'
<1>1. /\ symbols' = <<>> /\ buffer' = Written(<<ClearCommand>>) /\ at = "idle"
      /\ UNCHANGED <<size, extents, screen, cursor, at, cell, last, pointer, fault, resized>>
      /\ UNCHANGED stale
  BY DEF Uninit, client
<1>2. /\ buffer \in Seq(Commands) /\ Len(buffer) <= BUFFER_SIZE
      /\ <<ClearCommand>> \in Seq(Commands)
  <2>1. ClearCommand \in Commands
    BY LooksTyped
  <2>2. <<ClearCommand>> \in Seq(Commands)
    BY <2>1
  <2> QED
    BY <2>2, TypeOKIs DEF Showing
<1>3. buffer' \in Seq(Commands) /\ Len(buffer') <= BUFFER_SIZE
  BY <1>1, <1>2, WrittenIs
<1>4. TypeOK'
  BY <1>1, <1>3 DEF Showing, TypeOK, Commands
<1> QED
  BY <1>1, <1>4 DEF Showing, Interrupted, AtRest, Pending, CursorKnown, Visited, VisitedAll

\* The loops of term_refresh go on to a cell, to the next row, or end.
LEMMA VisitShows ==
  ASSUME Showing, Visit, PointersInv'
  PROVE  Showing'
<1>1. /\ at = "refresh" /\ symbols # <<>>
      /\ UNCHANGED <<size, symbols, extents, buffer, screen, cursor, last, fault, resized, stale>>
  BY DEF Visit, Running
<1>2. /\ size \in Sizes /\ size[1] \in Nat /\ size[2] \in Nat /\ cell \in Nat \X Nat
      /\ cell[1] \in Nat /\ cell[2] \in Nat
  BY SizesAreNat, TypeOKIs DEF Showing
<1>3. Flushed' = Flushed
  BY <1>1, FlushedKept
<1>4. \/ at' = "visit" /\ pointer' = IndexOf(cell) /\ cell' = cell
      \/ /\ at' = "refresh" /\ pointer' = pointer
         /\ cell[1] >= size[1] /\ cell' = <<0, cell[2] + 1>>
      \/ at' = "refreshed" /\ pointer' = pointer /\ cell' = cell /\ cell[2] >= size[2]
  BY <1>1 DEF Visit
<1>5. at' \in {"visit", "refresh", "refreshed"} /\ cell' \in Nat \X Nat
  BY <1>2, <1>4
<1>6. pointer' \in Nat \cup {None}
  <2>1. IndexOf(cell) \in Nat
    BY <1>2 DEF IndexOf
  <2> QED
    BY <1>4, <2>1 DEF Showing, TypeOK
<1>7. TypeOK'
  BY <1>1, <1>5, <1>6 DEF Showing, TypeOK
<1>8. ASSUME NEW c \in Cells(size), Before(c, cell')
      PROVE  Before(c, cell)
  <2>1. c[1] \in Nat /\ c[2] \in Nat /\ c[1] < size[1]
    BY <1>2 DEF Cells
  <2>2. CASE cell' = cell
    BY <1>8, <2>2
  <2>3. CASE cell[1] >= size[1] /\ cell' = <<0, cell[2] + 1>>
    <3>1. cell'[1] = 0 /\ cell'[2] = cell[2] + 1
      BY <2>3
    <3> QED
      BY <1>2, <1>8, <2>1, <2>3, <3>1 DEF Before
  <2> QED
    BY <1>4, <2>2, <2>3
<1>9. Visited'
  BY <1>1, <1>8 DEF Showing, Visited
<1>10. CursorKnown' /\ VisitedAll'
  BY <1>1, <1>3, <1>4 DEF Showing, CursorKnown, VisitedAll
<1> QED
  BY <1>1, <1>3, <1>5, <1>7, <1>9, <1>10 DEF Showing, Interrupted, AtRest, Pending

\* _flush makes the terminal what it was going to be.
LEMMA FlushShows ==
  ASSUME Showing, Flush, PointersInv'
  PROVE  Showing'
<1>1. /\ screen' = Flushed.screen /\ cursor' = Flushed.cursor /\ buffer' = <<>>
      /\ at' = "idle" /\ cell' = Start /\ last' = Unmoved /\ pointer' = None
      /\ UNCHANGED <<size, symbols, extents, fault, resized, stale>>
  BY DEF Flush, Idle, Unmoved
<1>2. Flushed \in Terminals(size)
  BY FlushedTyped DEF Showing
<1>3. Flushed' = Flushed
  <2>1. Flushed' = [screen |-> screen', cursor |-> cursor']
    BY <1>1, ShownNone DEF Flushed
  <2> QED
    BY <1>1, <1>2, <2>1 DEF Terminals
<1>4. TypeOK'
  <2>1. Start \in Nat \X Nat /\ Unmoved \in Int \X Int
    BY DEF Start, Unmoved
  <2>2. <<>> \in Seq(Commands) /\ Len(<<>>) <= BUFFER_SIZE
    BY TerminalAssumption
  <2>3. screen' \in [Cells(size) -> Looks] /\ cursor' \in Cells(size)
    BY <1>1, <1>2 DEF Terminals
  <2> QED
    BY <1>1, <2>1, <2>2, <2>3 DEF Showing, TypeOK, Commands
<1> QED
  BY <1>1, <1>3, <1>4
     DEF Showing, Interrupted, AtRest, Pending, CursorKnown, Visited, VisitedAll

\* The window changes: nothing is marked any more, and nothing is known of what is shown.
LEMMA WinchShows ==
  ASSUME Showing, NEW s \in Sizes, Winch(s), PointersInv'
  PROVE  Showing'
<1>1. CASE symbols = <<>>
  BY <1>1, FailShows DEF Winch
<1>2. CASE symbols # <<>>
  <2>1. /\ size' = s /\ symbols' = AllZeroed(s) /\ extents' = s
        /\ screen' = [c \in Cells(s) |-> IF c \in DOMAIN screen THEN screen[c] ELSE Blank]
        /\ cursor' = Clamped(cursor, s) /\ pointer' \in {pointer, None}
        /\ resized' = TRUE /\ stale' = TRUE
        /\ UNCHANGED <<buffer, at, cell, last, fault>>
    BY <1>2 DEF Winch
  <2>2. symbols' \in [Cells(s) -> Stored] /\ \A c \in Cells(s) : ~symbols'[c].redraw
    BY <2>1, LooksTyped DEF AllZeroed, Zeroed
  <2>3. screen' \in [Cells(s) -> Looks]
    BY <2>1, LooksTyped DEF Showing, TypeOK
  <2>4. cursor \in Nat \X Nat
    BY CellsTyped, TypeOKIs DEF Showing
  <2>5. cursor' \in Cells(s)
    BY <2>1, <2>4, CellsTyped
  <2>6. resized' \in BOOLEAN /\ stale' \in BOOLEAN
    BY <2>1
  <2>7. TypeOK'
    BY <2>1, <2>2, <2>3, <2>5, <2>6 DEF Showing, TypeOK, Stored
  <2> QED
    BY <2>1, <2>2, <2>7
       DEF Showing, Interrupted, AtRest, Pending, CursorKnown, Visited, VisitedAll
<1> QED
  BY <1>1, <1>2

\* A symbol that is marked is written in its place, wherever the cursor was.
LEMMA PutShows ==
  ASSUME Showing, at = "visit", ~stale, cell \in Cells(size), NEW look \in Looks,
         NEW commands,
         commands = (IF NeedsMove(cell) THEN <<MoveCommand(cell)>> ELSE <<>>)
                    \o <<PutCommand(look)>>,
         Fits(commands)
  PROVE  /\ commands \in Seq(Commands)
         /\ Shown(size, [screen |-> screen, cursor |-> cursor], Written(commands))
              = [screen |-> [Flushed.screen EXCEPT ![cell] = look], cursor |-> After(cell, size)]
<1>1. /\ size \in Sizes /\ buffer \in Seq(Commands) /\ Len(buffer) <= BUFFER_SIZE
      /\ cell \in Nat \X Nat
  BY TypeOKIs DEF Showing
<1>2. MoveCommand(cell) \in Commands /\ PutCommand(look) \in Commands
  BY <1>1, LooksTyped
<1>3. Flushed \in Terminals(size)
  BY FlushedTyped DEF Showing
<1>4. ASSUME NEW t \in Terminals(size), t.cursor = cell
      PROVE  Obeyed(size, t, PutCommand(look))
               = [screen |-> [t.screen EXCEPT ![cell] = look], cursor |-> After(cell, size)]
  <2>1. PutCommand(look).kind = "put" /\ PutCommand(look).look = look
    BY DEF PutCommand, ClearCommand
  <2> QED
    BY <1>4, <2>1 DEF Obeyed
<1>5. CASE NeedsMove(cell)
  <2>1. commands = <<MoveCommand(cell), PutCommand(look)>>
    <3>1. commands = <<MoveCommand(cell)>> \o <<PutCommand(look)>>
      BY <1>5
    <3> QED
      BY <1>2, <3>1, Joined
  <2>2. commands \in Seq(Commands)
    BY <1>2, <2>1
  <2>3. Written(commands) = buffer \o <<MoveCommand(cell), PutCommand(look)>>
    BY <1>1, <2>1, <2>2, WrittenIs
  <2>4. Shown(size, [screen |-> screen, cursor |-> cursor], Written(commands))
          = Obeyed(size, Obeyed(size, Flushed, MoveCommand(cell)), PutCommand(look))
    <3>1. Shown(size, [screen |-> screen, cursor |-> cursor],
                buffer \o <<MoveCommand(cell), PutCommand(look)>>)
            = Obeyed(size, Obeyed(size, Shown(size, [screen |-> screen, cursor |-> cursor],
                                              buffer),
                                  MoveCommand(cell)), PutCommand(look))
      BY <1>1, <1>2, ShownThenTwo
    <3> QED
      BY <2>3, <3>1 DEF Flushed
  <2>5. Obeyed(size, Flushed, MoveCommand(cell)) = [Flushed EXCEPT !.cursor = cell]
    <3>1. MoveCommand(cell).kind = "move" /\ MoveCommand(cell).to = cell
      BY DEF MoveCommand, ClearCommand
    <3>2. Clamped(cell, size) = cell
      BY <1>1, CellsTyped
    <3> QED
      BY <3>1, <3>2 DEF Obeyed
  <2>6. /\ [Flushed EXCEPT !.cursor = cell] \in Terminals(size)
        /\ [Flushed EXCEPT !.cursor = cell].cursor = cell
        /\ [Flushed EXCEPT !.cursor = cell].screen = Flushed.screen
    BY <1>3 DEF Terminals
  <2> QED
    BY <1>4, <2>2, <2>4, <2>5, <2>6
<1>6. CASE ~NeedsMove(cell)
  <2>1. commands = <<PutCommand(look)>>
    <3>1. commands = <<>> \o <<PutCommand(look)>>
      BY <1>6
    <3> QED
      BY <1>2, <3>1, Joined
  <2>2. commands \in Seq(Commands)
    BY <1>2, <2>1
  <2>3. Written(commands) = buffer \o <<PutCommand(look)>>
    BY <1>1, <2>1, <2>2, WrittenIs
  <2>4. Shown(size, [screen |-> screen, cursor |-> cursor], Written(commands))
          = Obeyed(size, Flushed, PutCommand(look))
    BY <1>1, <1>2, <2>3, ShownThen DEF Flushed
  <2>5. Flushed.cursor = cell
    <3>1. cell[1] = last[1] + 1 /\ cell[2] = last[2]
      BY <1>6 DEF NeedsMove
    <3>2. last # Unmoved
      BY <1>1, <3>1 DEF Unmoved
    <3>3. last \in Cells(size) /\ Flushed.cursor = After(last, size)
      BY <3>2 DEF Showing, CursorKnown
    <3>4. cell[1] < size[1] /\ cell = <<cell[1], cell[2]>>
      BY <1>1, CellsTyped
    <3> QED
      BY <3>1, <3>3, <3>4 DEF After
  <2> QED
    BY <1>3, <1>4, <2>2, <2>4, <2>5
<1> QED
  BY <1>5, <1>6

\* The next cell of a refresh, with its symbol.
LEMMA EmitShows ==
  ASSUME Showing, Emit, PointersInv'
  PROVE  Showing'
<1>1. CASE BadPointer
  BY <1>1, FailShows DEF Emit
<1>2. CASE ~BadPointer
  <2> DEFINE sym == symbols[Pointed]
             commands == (IF NeedsMove(cell) THEN <<MoveCommand(cell)>> ELSE <<>>)
                         \o <<PutCommand(Look(sym))>>
  <2>1. /\ IF ~sym.redraw THEN UNCHANGED <<symbols, buffer, last, stale>>
           ELSE /\ symbols' = [symbols EXCEPT ![Pointed].redraw = FALSE]
                /\ buffer' = Written(commands)
                /\ last' = cell
                /\ stale' = (stale \/ ~Fits(commands))
        /\ at = "visit" /\ at' = "refresh" /\ symbols # <<>>
        /\ cell' = <<cell[1] + 1, cell[2]>> /\ pointer' = None
        /\ UNCHANGED <<size, extents, screen, cursor, fault, resized>>
    BY <1>2 DEF Emit, Running
  <2>2. /\ size \in Sizes /\ symbols \in [Cells(size) -> Stored] /\ cell \in Nat \X Nat
        /\ buffer \in Seq(Commands) /\ Len(buffer) <= BUFFER_SIZE
    BY <2>1, TypeOKIs DEF Showing
  <2>3. ~resized => Pointed = cell /\ cell \in Cells(size)
    <3>1. SUFFICES ASSUME ~resized
                   PROVE  Pointed = cell /\ cell \in Cells(size)
      OBVIOUS
    <3>2. cell \in Cells(size) /\ pointer = cell[2] * size[1] + cell[1]
      BY <2>1, <3>1 DEF Showing, PointersInv, Pointing, IndexOf
    <3>3. cell[1] \in 0 .. size[1] - 1 /\ cell[2] \in Nat /\ size[1] \in Nat
      BY <2>2, <3>2, SizesAreNat DEF Cells
    <3>4. pointer % size[1] = cell[1] /\ pointer \div size[1] = cell[2]
      BY <3>2, <3>3, IndexPoints
    <3> QED
      BY <2>2, <3>2, <3>4 DEF Pointed
  <2>4. /\ symbols' \in [Cells(size) -> Stored]
        /\ \A c \in Cells(size) : /\ symbols'[c].redraw => symbols[c].redraw
                                  /\ c = Pointed => ~symbols'[c].redraw
                                  /\ Look(symbols'[c]) = Look(symbols[c])
                                  /\ c # Pointed => symbols'[c] = symbols[c]
    <3>1. CASE ~sym.redraw
      BY <2>1, <2>2, <3>1
    <3>2. CASE sym.redraw
      <4>1. symbols' = [symbols EXCEPT ![Pointed] = [sym EXCEPT !.redraw = FALSE]]
        BY <2>1, <3>2
      <4>2. ASSUME NEW x \in Stored
            PROVE  /\ [x EXCEPT !.redraw = FALSE] \in Stored
                   /\ ~[x EXCEPT !.redraw = FALSE].redraw
                   /\ Look([x EXCEPT !.redraw = FALSE]) = Look(x)
        BY DEF Stored, Look
      <4>3. CASE Pointed \in Cells(size)
        BY <2>2, <4>1, <4>2, <4>3
      <4>4. CASE Pointed \notin Cells(size)
        BY <2>2, <4>1, <4>4
      <4> QED
        BY <4>3, <4>4
    <3> QED
      BY <3>1, <3>2
  <2> HIDE DEF sym
  <2>5. cell' \in Nat \X Nat
    BY <2>1, <2>2
  <2>6. ASSUME NEW c \in Cells(size), Before(c, cell')
        PROVE  Before(c, cell) \/ c = cell
    <3>1. c[1] \in Nat /\ c[2] \in Nat /\ c = <<c[1], c[2]>>
      BY <2>2, CellsTyped
    <3>2. cell'[1] = cell[1] + 1 /\ cell'[2] = cell[2] /\ cell = <<cell[1], cell[2]>>
      BY <2>1, <2>2
    <3> QED
      BY <2>2, <2>6, <3>1, <3>2 DEF Before
  <2>7. Visited'
    BY <2>1, <2>3, <2>4, <2>6 DEF Showing, Visited
  <2>8. CASE ~sym.redraw
    <3>1. UNCHANGED <<symbols, buffer, last, stale>>
      BY <2>1, <2>8
    <3>2. Flushed' = Flushed
      BY <2>1, <3>1, FlushedKept
    <3>3. TypeOK'
      BY <2>1, <2>5, <3>1 DEF Showing, TypeOK
    <3> QED
      BY <2>1, <2>7, <3>1, <3>2, <3>3
         DEF Showing, Interrupted, AtRest, Pending, CursorKnown, VisitedAll
  <2>9. CASE sym.redraw
    <3>1. /\ buffer' = Written(commands) /\ last' = cell
          /\ stale' = (stale \/ ~Fits(commands))
      BY <2>1, <2>9
    <3>2. TypeOK'
      <4>1. Pointed \in Cells(size)
        BY <1>2, <2>2, PointedInside DEF Showing, TypeOK
      <4>2. Look(sym) \in Looks
        BY <2>2, <4>1, LooksTyped DEF sym
      <4>3. commands \in Seq(Commands)
        <5>1. MoveCommand(cell) \in Commands /\ PutCommand(Look(sym)) \in Commands
          BY <2>2, <4>2, LooksTyped
        <5> QED
          BY <5>1
      <4>4. buffer' \in Seq(Commands) /\ Len(buffer') <= BUFFER_SIZE
        BY <2>2, <3>1, <4>3, WrittenIs
      <4>5. last' \in Int \X Int /\ stale' \in BOOLEAN
        BY <2>2, <3>1
      <4> QED
        BY <2>1, <2>4, <2>5, <4>4, <4>5 DEF Showing, TypeOK, Stored, Commands
    <3>3. ASSUME ~stale'
          PROVE  /\ Pending'
                 /\ last' \in Cells(size) /\ Flushed'.cursor = After(last', size)
      <4>1. ~stale /\ Fits(commands) /\ ~resized
        BY <2>1, <3>1, <3>3 DEF Showing, Interrupted
      <4>2. Pointed = cell /\ cell \in Cells(size)
        BY <2>3, <4>1
      <4>3. Look(sym) \in Looks /\ Look(symbols'[cell]) = Look(sym)
        BY <2>2, <2>4, <4>2, LooksTyped DEF sym
      <4>4. Flushed' = [screen |-> [Flushed.screen EXCEPT ![cell] = Look(sym)],
                        cursor |-> After(cell, size)]
        <5>1. Flushed' = Shown(size, [screen |-> screen, cursor |-> cursor], Written(commands))
          BY <2>1, <3>1 DEF Flushed
        <5> QED
          BY <2>1, <4>1, <4>2, <4>3, <5>1, PutShows
      <4>5. Flushed \in Terminals(size)
        BY FlushedTyped DEF Showing
      <4>6. ASSUME NEW c \in Cells(size)
            PROVE  symbols'[c].redraw \/ Flushed'.screen[c] = Look(symbols'[c])
        <5>1. CASE c = cell
          BY <4>2, <4>3, <4>4, <4>5, <5>1 DEF Terminals
        <5>2. CASE c # cell
          <6>1. symbols'[c] = symbols[c] /\ Flushed'.screen[c] = Flushed.screen[c]
            BY <2>4, <4>2, <4>4, <4>5, <5>2 DEF Terminals
          <6> QED
            BY <2>1, <4>1, <6>1 DEF Showing, Pending
        <5> QED
          BY <5>1, <5>2
      <4> QED
        BY <2>1, <3>1, <4>2, <4>4, <4>6 DEF Pending
    <3>4. Interrupted'
      BY <2>1, <3>1 DEF Showing, Interrupted
    <3> QED
      BY <2>1, <2>7, <3>2, <3>3, <3>4
         DEF Showing, AtRest, Pending, CursorKnown, VisitedAll
  <2> QED
    BY <2>8, <2>9
<1> QED
  BY <1>1, <1>2

LEMMA ShowingNext == Showing /\ [Next]_vars => Showing'
<1> SUFFICES ASSUME Showing, [Next]_vars
             PROVE  Showing'
  OBVIOUS
<1>1. PointersInv'
  BY PointersNext DEF Showing
<1>2. CASE Choose \/ GetSymbol \/ Refresh
  BY <1>1, <1>2, BeginShows
<1>3. CASE Change \/ Clear \/ Visit \/ Emit \/ Flush \/ Uninit
  BY <1>1, <1>3, ChangeShows, ClearShows, VisitShows, EmitShows, FlushShows, UninitShows
<1>4. CASE \E s \in Sizes : Winch(s)
  BY <1>1, <1>4, WinchShows
<1>5. CASE UNCHANGED vars
  <2>1. /\ UNCHANGED <<size, symbols, extents, buffer, screen, cursor, fault, resized, stale>>
        /\ UNCHANGED <<at, cell, last, pointer>>
    BY <1>5 DEF vars, client
  <2>2. Flushed' = Flushed
    BY <2>1, FlushedKept
  <2>3. TypeOK'
    BY <2>1 DEF Showing, TypeOK
  <2> QED
    BY <1>1, <2>1, <2>2, <2>3
       DEF Showing, Interrupted, AtRest, Pending, CursorKnown, Visited, VisitedAll
<1> QED
  BY <1>2, <1>3, <1>4, <1>5 DEF Next

\* Unless the window changes or the buffer overflows the terminal will show what was drawn last in
\* every cell that does not wait for a refresh, and a refresh leaves none that waits, for windows
\* of any sizes, any drawings and buffers of any length (term.c:165-188, 320-395).
THEOREM ScreenCorrect == Spec => []ShowsWhatWasDrawn
<1>1. Showing => ShowsWhatWasDrawn
  <2>1. SUFFICES ASSUME Showing
                 PROVE  ShowsWhatWasDrawn
    OBVIOUS
  <2>2. ASSUME at = "refreshed", symbols # <<>>, NEW c \in Cells(size)
        PROVE  ~symbols[c].redraw
    <3>1. size \in Sizes /\ cell \in Nat \X Nat
      BY <2>1 DEF Showing, TypeOK
    <3>2. c[1] \in Nat /\ c[2] \in Nat /\ c[2] < size[2] /\ size[2] \in Nat
      BY <3>1, SizesAreNat DEF Cells
    <3>3. resized \/ Before(c, cell)
      BY <2>1, <2>2, <3>1, <3>2 DEF Showing, VisitedAll, Before
    <3> QED
      BY <2>1, <2>2, <3>3 DEF Showing, Visited
  <2> QED
    BY <2>1, <2>2 DEF Showing, Pending, ShowsWhatWasDrawn
<1> QED
  BY <1>1, ShowingInit, ShowingNext, PTL DEF Spec

-----------------------------------------------------------------------------
(* What parsing a file answers.                                              *)

Reads == {"nothing", "lines", "an error"}

FileTypes ==
    /\ file \in [open : BOOLEAN, read : Reads]
    /\ answer \in [success : BOOLEAN, read : Reads, before : BOOLEAN, given : BOOLEAN]

\* What last_code stands for: the last line of the open file, or the answer to the file before.
CodeKept ==
    /\ file.read = "an error" => ~Succeeded(last_code)
    /\ file.read = "lines" => Succeeded(last_code)
    /\ file.read = "nothing" /\ answer.given => answer.success = Succeeded(last_code)

Answering ==
    /\ FileTypes
    /\ ~file.open => file = NoFile
    /\ CodeKept
    /\ FileAnswers

\* A parser that was never given a file.
LEMMA AnsweringInit == ParserInit => Answering
BY DEF ParserInit, Answering, FileTypes, Reads, CodeKept, FileAnswers, NoFile, NoAnswer

\* The calls that do not concern files.
LEMMA AnsweringKept ==
    ASSUME Answering, UNCHANGED <<last_code, file, answer>>
    PROVE  Answering'
BY DEF Answering, FileTypes, CodeKept, FileAnswers, Succeeded

LEMMA RegisterKeeps ==
    ASSUME NEW name, NEW string, Register(name, string)
    PROVE  UNCHANGED <<last_code, file, answer>>
BY Zenon DEF Register

\* An error ends the loop, so that the line read now follows none that had one.
LEMMA ReadLineAnswers ==
    ASSUME NEW line, Answering, ReadLine(line)
    PROVE  Answering'
<1>1. PICK code \in Codes :
        /\ last_code' = code
        /\ file' = [file EXCEPT !.read =
                      IF @ # "an error" /\ Succeeded(code) THEN "lines" ELSE "an error"]
  BY DEF ReadLine
<1>2. file.open /\ UNCHANGED answer
  BY DEF ReadLine
<1>3. file.read # "an error"
  BY DEF ReadLine, GoesOn, Answering, CodeKept
<1>4. /\ file' \in [open : BOOLEAN, read : Reads]
      /\ file'.open
      /\ file'.read = IF Succeeded(last_code') THEN "lines" ELSE "an error"
  BY <1>1, <1>2, <1>3 DEF Answering, FileTypes, Reads
<1>5. FileTypes' /\ CodeKept'
  BY <1>2, <1>4 DEF Answering, FileTypes, CodeKept
<1>6. FileAnswers'
  BY <1>2 DEF Answering, FileAnswers
<1>. QED
  BY <1>4, <1>5, <1>6 DEF Answering

\* The answer is taken from last_code.
LEMMA CloseFileAnswers ==
    ASSUME Answering, CloseFile
    PROVE  Answering'
<1>1. /\ file' = NoFile /\ UNCHANGED last_code
      /\ answer' = [success |-> Succeeded(last_code), read |-> file.read,
                    before |-> answer.success, given |-> answer.given \/ file.read # "nothing"]
  BY DEF CloseFile
<1>0. Succeeded(last_code) \in BOOLEAN
  BY DEF Succeeded
<1>2. FileTypes'
  <2>1. /\ answer.success \in BOOLEAN
        /\ (answer.given \/ file.read # "nothing") \in BOOLEAN
        /\ file.read \in Reads
    BY DEF Answering, FileTypes
  <2>2. answer' \in [success : BOOLEAN, read : Reads, before : BOOLEAN, given : BOOLEAN]
    BY Zenon, <1>0, <1>1, <2>1
  <2>3. file' \in [open : BOOLEAN, read : Reads]
    BY <1>1 DEF NoFile, Reads
  <2>. QED
    BY <2>2, <2>3 DEF FileTypes
<1>3. /\ file'.read = "nothing"
      /\ answer'.success = Succeeded(last_code)
      /\ answer'.read = file.read
      /\ answer'.before = answer.success
      /\ answer'.given <=> answer.given \/ file.read # "nothing"
  BY <1>1 DEF NoFile
<1>4. CodeKept'
  BY <1>1, <1>3 DEF CodeKept, Succeeded
<1>5. CASE file.read = "nothing"
  BY <1>1, <1>2, <1>3, <1>4, <1>5 DEF Answering, CodeKept, FileAnswers
<1>6. CASE file.read # "nothing"
  <2>1. Succeeded(last_code) = (file.read # "an error")
    <3>1. file.read = "lines" \/ file.read = "an error"
      BY <1>6 DEF Answering, FileTypes, Reads
    <3>2. Succeeded(last_code) <=> file.read # "an error"
      BY <3>1 DEF Answering, CodeKept
    <3>. QED
      BY Zenon, <1>0, <3>2
  <2>. QED
    BY <1>1, <1>2, <1>3, <1>4, <1>6, <2>1 DEF Answering, FileAnswers
<1>. QED
  BY <1>5, <1>6

LEMMA AnsweringNext == Answering /\ [ParserNext]_parser_vars => Answering'
<1>. SUFFICES ASSUME Answering, [ParserNext]_parser_vars
              PROVE  Answering'
  OBVIOUS
<1>1. CASE \E name \in Names, string \in FormatStrings : Register(name, string)
  BY <1>1, AnsweringKept, RegisterKeeps
<1>2. CASE \E line \in Lines : Parse(line)
  <2>1. UNCHANGED <<last_code, file, answer>>
    BY <1>2 DEF Parse
  <2>. QED
    BY <2>1, AnsweringKept
<1>3. CASE \E line \in Lines : ReadLine(line)
  BY <1>3, ReadLineAnswers
<1>4. CASE OpenFile
  BY <1>4 DEF OpenFile, NoFileOpen, Answering, FileTypes, Reads, CodeKept, FileAnswers, NoFile,
              Succeeded
<1>5. CASE OpenFails
  <2>1. /\ ~file.open /\ UNCHANGED file /\ last_code' = "FILE_OPEN_FAIL"
        /\ answer' = [success |-> FALSE, read |-> "nothing", before |-> FALSE, given |-> TRUE]
    BY <1>5 DEF OpenFails, NoFileOpen, NoAnswer
  <2>2. FileTypes'
    BY <2>1 DEF Answering, FileTypes, Reads
  <2>3. CodeKept'
    <3>1. file'.read = "nothing" /\ answer'.success = FALSE
      BY <2>1 DEF Answering, NoFile
    <3>2. Succeeded(last_code') = FALSE
      BY <2>1 DEF Succeeded
    <3>. QED
      BY Zenon, <3>1, <3>2 DEF CodeKept
  <2>. QED
    BY <2>1, <2>2, <2>3 DEF Answering, FileAnswers
<1>6. CASE CloseFile
  BY <1>6, CloseFileAnswers
<1>7. CASE Renew
  <2>1. ~file.open /\ UNCHANGED file /\ answer' = NoAnswer
    BY <1>7 DEF Renew, NoFileOpen
  <2>2. FileTypes'
    BY <2>1 DEF Answering, FileTypes, Reads, NoAnswer
  <2>3. CodeKept'
    <3>1. file'.read = "nothing" /\ ~answer'.given
      BY <2>1 DEF Answering, NoFile, NoAnswer
    <3>. QED
      BY Zenon, <3>1 DEF CodeKept
  <2>. QED
    BY <2>1, <2>2, <2>3 DEF Answering, FileAnswers, NoAnswer
<1>8. CASE UNCHANGED parser_vars
  <2>1. UNCHANGED <<last_code, file, answer>>
    BY <1>8 DEF parser_vars
  <2>. QED
    BY <2>1, AnsweringKept
<1>. QED
  BY <1>1, <1>2, <1>3, <1>4, <1>5, <1>6, <1>7, <1>8 DEF ParserNext

\* parser_parse_file answers whether all the lines of the file were parsed, for every file, every
\* set of formats and all that is called between two files; an empty file has the answer of the
\* file before (parser.c:526-569).
THEOREM Answered == ParserSpec => []FileAnswers
<1>1. Answering => FileAnswers
  BY DEF Answering
<1>. QED
  BY <1>1, AnsweringInit, AnsweringNext, PTL DEF ParserSpec

-----------------------------------------------------------------------------
(* What the getters show.                                                    *)

\* The numbers up to n that are not in S.
Free(S, n) == {m \in 1 .. n : m \notin S}

\* Among enough numbers there is one with i - 1 free ones before it.
LEMMA FreeFound ==
    ASSUME NEW S, NEW N \in Nat, NEW i \in Nat \ {0}, i <= Cardinality(Free(S, N))
    PROVE  \E n \in Free(S, N) : Cardinality(Free(S, n - 1)) = i - 1
<1>1. ASSUME NEW n \in Nat
      PROVE  IsFiniteSet(Free(S, n)) /\ Cardinality(Free(S, n)) \in Nat
  <2>1. IsFiniteSet(1 .. n) /\ Free(S, n) \subseteq 1 .. n
    BY <1>1, FS_Interval DEF Free
  <2>. QED
    BY <2>1, FS_Subset, FS_CardinalityType
<1>. DEFINE Reached == {n \in 0 .. N : i <= Cardinality(Free(S, n))}
<1>2. Reached \in SUBSET Nat /\ N \in Reached
  OBVIOUS
<1>3. PICK n \in Reached : \A m \in Reached : n <= m
  BY <1>2, Least
<1>4. n # 0
  <2>1. Free(S, 0) = {}
    BY DEF Free
  <2>. QED
    BY <2>1, FS_EmptySet
<1>5. n - 1 \in Nat /\ n - 1 \notin Reached /\ n \in 1 .. N
  BY <1>3, <1>4
<1>6. Cardinality(Free(S, n - 1)) \in Nat /\ Cardinality(Free(S, n - 1)) < i
  BY <1>1, <1>5
<1>7. CASE n \in S
  <2>1. Free(S, n) = Free(S, n - 1)
    BY <1>5, <1>7 DEF Free
  <2>. QED
    BY <1>3, <1>6, <2>1
<1>8. CASE n \notin S
  <2>1. Free(S, n) = Free(S, n - 1) \cup {n} /\ n \notin Free(S, n - 1)
    BY <1>5, <1>8 DEF Free
  <2>2. Cardinality(Free(S, n)) = Cardinality(Free(S, n - 1)) + 1
    BY <1>1, <1>5, <2>1, FS_AddElement
  <2>3. Cardinality(Free(S, n - 1)) = i - 1
    BY <1>3, <1>6, <2>2
  <2>4. n \in Free(S, N)
    BY <1>5, <1>8 DEF Free
  <2>. QED
    BY <2>3, <2>4
<1>. QED
  BY <1>7, <1>8

\* The metadata allocated for a format have numbers of their own.
LEMMA FreshIds ==
    ASSUME DOMAIN metadata \subseteq 1 .. MetadataBound, NEW count \in Nat,
           Cardinality(DOMAIN metadata) + count <= MetadataBound,
           NEW i \in 1 .. count
    PROVE  FreshId(i) \in (1 .. MetadataBound) \ DOMAIN metadata
<1>. DEFINE D == DOMAIN metadata
<1>1. MetadataBound \in Nat
  BY ParserAssumption
<1>2. IsFiniteSet(1 .. MetadataBound) /\ Cardinality(1 .. MetadataBound) = MetadataBound
  BY <1>1, FS_Interval
<1>3. IsFiniteSet(D) /\ Cardinality(D) \in Nat
  BY <1>2, FS_Subset, FS_CardinalityType
<1>4. Free(D, MetadataBound) = (1 .. MetadataBound) \ D
  BY DEF Free
<1>5. Cardinality(Free(D, MetadataBound)) = MetadataBound - Cardinality(D)
  <2>1. (1 .. MetadataBound) \cap D = D
    OBVIOUS
  <2>2. Cardinality((1 .. MetadataBound) \ D)
          = Cardinality(1 .. MetadataBound) - Cardinality((1 .. MetadataBound) \cap D)
    BY <1>2, FS_Difference
  <2>. QED
    BY <1>2, <1>4, <2>1, <2>2
<1>6. i \in Nat \ {0} /\ i <= Cardinality(Free(D, MetadataBound))
  BY <1>1, <1>3, <1>5
<1>7. \E n \in Free(D, MetadataBound) : Cardinality(Free(D, n - 1)) = i - 1
  BY <1>1, <1>6, FreeFound
<1>8. FreshId(i) \in Free(D, MetadataBound)
  BY <1>7 DEF FreshId, Free
<1>. QED
  BY <1>4, <1>8

\* The formats, with metadata that are allocated.
Formats == [name : Names, metas : Seq(1 .. MetadataBound)]

FormatsOk ==
    /\ formats \in Seq(Formats)
    /\ DOMAIN metadata \subseteq 1 .. MetadataBound
    /\ \A m \in DOMAIN metadata : metadata[m] \in DataTypes
    /\ \A f \in DOMAIN formats : \A i \in DOMAIN formats[f].metas :
         formats[f].metas[i] \in DOMAIN metadata

\* What was parsed of the last line, and what it had.
FieldsOk ==
    /\ field_name \in Names
    /\ DOMAIN fields = 1 .. Len(fields) /\ Len(fields) \in Nat
    /\ \A i \in DOMAIN fields : /\ fields[i].meta \in DOMAIN metadata
                                /\ metadata[fields[i].meta] = fields[i].type
    /\ DOMAIN shown.values = DOMAIN fields
    /\ \A i \in DOMAIN fields : fields[i].token = shown.values[i]
    /\ DOMAIN fields # {} => field_name = shown.key

RestOk ==
    /\ active \in BOOLEAN /\ last_code \in Codes
    /\ userdata \in Seq({"data"}) /\ Len(userdata) <= UserdataBound

LineShown == FormatsOk /\ FieldsOk /\ RestOk

LEMMA LineShownInit == ParserInit => LineShown
<1>. SUFFICES ASSUME ParserInit
              PROVE  LineShown
  OBVIOUS
<1>1. FormatsOk
  BY DEF ParserInit, FormatsOk
<1>2. FieldsOk
  BY DEF ParserInit, FieldsOk, Nothing
<1>3. RestOk
  <2>1. <<>> \in Seq({"data"}) /\ Len(<<>>) = 0
    OBVIOUS
  <2>2. UserdataBound \in Nat
    BY ParserAssumption
  <2>3. active \in BOOLEAN /\ last_code \in Codes /\ userdata = <<>>
    BY DEF ParserInit
  <2>. QED
    BY <2>1, <2>2, <2>3 DEF RestOk
<1>. QED
  BY <1>1, <1>2, <1>3 DEF LineShown

LEMMA GettersShow == LineShown => GettersShowLine
<1>. SUFFICES ASSUME LineShown
              PROVE  GettersShowLine
  OBVIOUS
<1>1. ParserTypeOK
  BY DEF LineShown, FormatsOk, FieldsOk, RestOk, ParserTypeOK, Formats
<1>. QED
  BY <1>1 DEF LineShown, FieldsOk, GettersShowLine, FieldNamed

\* A format is dropped without harm to the others.
LEMMA DroppedOne ==
    ASSUME NEW S, NEW seq \in Seq(S), NEW pos \in DOMAIN seq
    PROVE  /\ Dropped(seq, pos) \in Seq(S)
           /\ \A i \in DOMAIN Dropped(seq, pos) :
                \E j \in DOMAIN seq : Dropped(seq, pos)[i] = seq[j]
<1>1. /\ SubSeq(seq, 1, pos - 1) \in Seq(S) /\ Len(SubSeq(seq, 1, pos - 1)) = pos - 1
      /\ \A i \in 1 .. pos - 1 : SubSeq(seq, 1, pos - 1)[i] = seq[i]
  OBVIOUS
<1>2. /\ SubSeq(seq, pos + 1, Len(seq)) \in Seq(S)
      /\ Len(SubSeq(seq, pos + 1, Len(seq))) = Len(seq) - pos
      /\ \A i \in 1 .. Len(seq) - pos : SubSeq(seq, pos + 1, Len(seq))[i] = seq[i + pos]
  OBVIOUS
<1>. DEFINE a == SubSeq(seq, 1, pos - 1)
            b == SubSeq(seq, pos + 1, Len(seq))
<1>. HIDE DEF a, b
<1>3. /\ a \o b \in Seq(S) /\ Len(a \o b) = Len(a) + Len(b)
      /\ DOMAIN (a \o b) = 1 .. Len(a) + Len(b)
      /\ \A i \in 1 .. Len(a) : (a \o b)[i] = a[i]
      /\ \A i \in Len(a) + 1 .. Len(a) + Len(b) : (a \o b)[i] = b[i - Len(a)]
  <2>1. a \in Seq(S) /\ b \in Seq(S)
    BY <1>1, <1>2 DEF a, b
  <2>. QED
    BY <2>1
<1>4. Dropped(seq, pos) = a \o b
  BY DEF Dropped, a, b
<1>5. /\ pos \in 1 .. Len(seq) /\ Len(seq) \in Nat
      /\ Len(a) = pos - 1 /\ Len(b) = Len(seq) - pos
      /\ \A i \in 1 .. pos - 1 : a[i] = seq[i]
      /\ \A i \in 1 .. Len(seq) - pos : b[i] = seq[i + pos]
  BY <1>1, <1>2 DEF a, b
<1>6. DOMAIN (a \o b) = 1 .. Len(seq) - 1
  <2>1. Len(a) + Len(b) = Len(seq) - 1
    BY <1>5
  <2>. QED
    BY <1>3, <2>1
<1>7. ASSUME NEW i \in 1 .. Len(seq) - 1
      PROVE  \E j \in DOMAIN seq : (a \o b)[i] = seq[j]
  <2>1. CASE i <= pos - 1
    <3>1. i \in 1 .. pos - 1 /\ i \in 1 .. Len(a)
      BY <1>5, <2>1
    <3>2. (a \o b)[i] = seq[i]
      BY <1>3, <1>5, <3>1
    <3>. QED
      BY <1>5, <3>2
  <2>2. CASE i > pos - 1
    <3>1. i - Len(a) \in 1 .. Len(seq) - pos /\ i - Len(a) + pos = i + 1
      BY <1>5, <2>2
    <3>2. i \in Len(a) + 1 .. Len(a) + Len(b)
      BY <1>5, <2>2
    <3>3. (a \o b)[i] = b[i - Len(a)] /\ b[i - Len(a)] = seq[i - Len(a) + pos]
      BY <1>3, <1>5, <3>1, <3>2
    <3>4. i + 1 \in DOMAIN seq
      BY <1>5
    <3>. QED
      BY <3>1, <3>3, <3>4
  <2>. QED
    BY <1>5, <2>1, <2>2
<1>. QED
  BY <1>3, <1>4, <1>6, <1>7

\* A name has a format, or none.
LEMMA FormatFound ==
    ASSUME FormatsOk, NEW name
    PROVE  \/ FormatNamed(name) = 0
           \/ /\ FormatNamed(name) \in DOMAIN formats
              /\ formats[FormatNamed(name)].name = name
<1>. DEFINE named == {i \in DOMAIN formats : formats[i].name = name}
<1>1. CASE named = {}
  <2>1. FormatNamed(name) = 0
    BY <1>1 DEF FormatNamed
  <2>. QED
    BY <2>1
<1>2. CASE named # {}
  <2>1. named \in SUBSET Nat
    BY DEF FormatsOk
  <2>2. \E i \in named : \A j \in named : i <= j
    BY <1>2, <2>1, Least
  <2>3. FormatNamed(name) = CHOOSE i \in named : \A j \in named : i <= j
    BY <1>2 DEF FormatNamed
  <2>4. FormatNamed(name) \in named
    BY <2>2, <2>3
  <2>. QED
    BY <2>4
<1>. QED
  BY <1>1, <1>2

LEMMA RegisterShows ==
    ASSUME LineShown, NEW name \in Names, NEW string \in FormatStrings, Register(name, string)
    PROVE  LineShown'
<1>. DEFINE pos == FormatNamed(name)
            count == Len(string.types)
            new == [i \in 1 .. count |-> FreshId(i)]
            format == [name |-> Truncated(name), metas |-> new]
            malformed == string.odd \/ count = 0
<1>1. /\ Cardinality(DOMAIN metadata) + count <= MetadataBound
      /\ metadata' = [m \in DOMAIN metadata \cup {new[i] : i \in 1 .. count} |->
                        IF \E i \in 1 .. count : new[i] = m
                          THEN string.types[CHOOSE i \in 1 .. count : new[i] = m]
                          ELSE metadata[m]]
      /\ \/ formats' = formats
         \/ pos = 0 /\ formats' = Append(formats, format)
         \/ pos # 0 /\ formats' = Dropped(formats, pos)
         \/ pos # 0 /\ formats' = [formats EXCEPT ![pos] = format]
      /\ UNCHANGED <<fields, field_name, active, last_code, userdata, shown>>
  BY DEF Register, Discard
<1>2. string.types \in Seq(DataTypes) /\ count \in Nat
  BY ParserAssumption
<1>3. \A i \in 1 .. count : new[i] \in (1 .. MetadataBound) \ DOMAIN metadata
  BY <1>1, <1>2, FreshIds DEF LineShown, FormatsOk
<1>4. /\ DOMAIN metadata' = DOMAIN metadata \cup {new[i] : i \in 1 .. count}
      /\ DOMAIN metadata' \subseteq 1 .. MetadataBound
      /\ \A m \in DOMAIN metadata : metadata'[m] = metadata[m]
  <2>. HIDE DEF new
  <2>1. DOMAIN metadata' = DOMAIN metadata \cup {new[i] : i \in 1 .. count}
    BY <1>1
  <2>2. DOMAIN metadata' \subseteq 1 .. MetadataBound
    BY <1>3, <2>1 DEF LineShown, FormatsOk
  <2>3. ASSUME NEW m \in DOMAIN metadata
        PROVE  metadata'[m] = metadata[m]
    <3>1. ~\E i \in 1 .. count : new[i] = m
      BY <1>3
    <3>. QED
      BY <1>1, <3>1
  <2>. QED
    BY <2>1, <2>2, <2>3
<1>5. ASSUME NEW m \in DOMAIN metadata'
      PROVE  metadata'[m] \in DataTypes
  <2>1. CASE \E i \in 1 .. count : new[i] = m
    <3>1. (CHOOSE i \in 1 .. count : new[i] = m) \in 1 .. count
      BY <2>1
    <3>2. metadata'[m] = string.types[CHOOSE i \in 1 .. count : new[i] = m]
      BY <1>1, <1>4, <2>1
    <3>3. PICK k \in 1 .. count : metadata'[m] = string.types[k]
      BY <3>1, <3>2
    <3>. QED
      BY <1>2, <3>3
  <2>2. CASE ~\E i \in 1 .. count : new[i] = m
    BY <1>1, <1>4, <2>2 DEF LineShown, FormatsOk
  <2>. QED
    BY <2>1, <2>2
<1>6. /\ format \in Formats
      /\ \A i \in DOMAIN format.metas : format.metas[i] \in DOMAIN metadata'
  BY <1>2, <1>3, <1>4, ParserAssumption DEF Formats
<1>7. /\ formats' \in Seq(Formats)
      /\ \A f \in DOMAIN formats' : formats'[f] = format
                                    \/ \E g \in DOMAIN formats : formats'[f] = formats[g]
  <2>1. formats \in Seq(Formats)
    BY DEF LineShown, FormatsOk
  <2>2. pos = 0 \/ pos \in DOMAIN formats
    BY FormatFound DEF LineShown
  <2>. HIDE DEF pos, format
  <2>3. CASE formats' = formats
    BY <2>1, <2>3
  <2>4. CASE formats' = Append(formats, format)
    BY <1>6, <2>1, <2>4
  <2>5. CASE pos # 0 /\ formats' = Dropped(formats, pos)
    BY <2>1, <2>2, <2>5, DroppedOne
  <2>6. CASE pos # 0 /\ formats' = [formats EXCEPT ![pos] = format]
    BY <1>6, <2>1, <2>2, <2>6
  <2>. QED
    BY <1>1, <2>3, <2>4, <2>5, <2>6
<1>8. \A f \in DOMAIN formats' : \A i \in DOMAIN formats'[f].metas :
        formats'[f].metas[i] \in DOMAIN metadata'
  <2>. HIDE DEF format
  <2>. QED
    BY <1>4, <1>6, <1>7 DEF LineShown, FormatsOk
<1>9. FormatsOk'
  BY <1>4, <1>5, <1>7, <1>8 DEF FormatsOk
<1>10. FieldsOk' /\ RestOk'
  <2>. HIDE DEF format
  <2>. QED
    BY <1>1, <1>4 DEF LineShown, FieldsOk, RestOk
<1>. QED
  BY <1>9, <1>10 DEF LineShown

\* All values of a line are read only when it has one for each metadata.
LEMMA ParsableAll ==
    ASSUME NEW metas \in Seq(1 .. MetadataBound), NEW values \in Seq(STRING),
           Parsable(metas, values) = Len(metas)
    PROVE  Len(metas) <= Len(values)
<1>. DEFINE bad == Unparsable(metas, values)
<1>1. CASE bad = {}
  BY <1>1 DEF Unparsable
<1>2. CASE bad # {}
  <2>1. bad \in SUBSET Nat /\ bad \subseteq 1 .. Len(metas)
    BY DEF Unparsable
  <2>2. \E i \in bad : \A j \in bad : i <= j
    BY <1>2, <2>1, Least
  <2>3. (CHOOSE i \in bad : \A j \in bad : i <= j) \in bad
    BY <2>2
  <2>4. PICK n \in bad : Parsable(metas, values) = n - 1
    BY <1>2, <2>3 DEF Parsable
  <2>5. n \in 1 .. Len(metas)
    BY <2>1
  <2>. QED
    BY <2>4, <2>5
<1>. QED
  BY <1>1, <1>2

\* A line gives what it has to the getters, or takes away what the line before gave.
LEMMA ParseShows ==
    ASSUME LineShown, NEW line \in Lines, NEW code, ParseLine(line, code),
           last_code' \in Codes
    PROVE  LineShown'
<1>1. /\ UNCHANGED <<formats, metadata>>
      /\ active' \in BOOLEAN
  BY DEF ParseLine, LineShown, RestOk
<1>2. FormatsOk'
  BY <1>1 DEF LineShown, FormatsOk
<1>3. CASE line \in {Comment, NewLine}
  <2>1. UNCHANGED <<fields, field_name, userdata, shown>>
    BY <1>3 DEF ParseLine
  <2>. QED
    BY <1>1, <1>2, <2>1 DEF LineShown, FieldsOk, RestOk
<1>4. CASE line \notin {Comment, NewLine}
  <2>. DEFINE pos == IF line = NoPair THEN 0 ELSE FormatNamed(Truncated(line.key))
              metas == formats[pos].metas
              count == Parsable(metas, line.values)
              data == FieldData(metas, line.values, count)
  <2>1. \/ fields' = <<>> /\ shown' = Nothing /\ UNCHANGED <<field_name, userdata>>
        \/ /\ pos # 0 /\ count = Len(metas)
           /\ fields' = data
           /\ field_name' = formats[pos].name
           /\ shown' = [key |-> formats[pos].name, values |-> SubSeq(line.values, 1, count)]
           /\ Callback(code)
    BY <1>4 DEF ParseLine, ParseData, AfterFailure
  <2>2. CASE fields' = <<>> /\ shown' = Nothing /\ UNCHANGED <<field_name, userdata>>
    BY <1>1, <1>2, <2>2 DEF LineShown, FieldsOk, RestOk, Nothing
  <2>3. CASE /\ pos # 0 /\ count = Len(metas)
             /\ fields' = data
             /\ field_name' = formats[pos].name
             /\ shown' = [key |-> formats[pos].name, values |-> SubSeq(line.values, 1, count)]
             /\ Callback(code)
    <3>1. /\ line \in Lines \ {Comment, NewLine, NoPair}
          /\ line.values \in Seq(STRING)
      BY <1>4, <2>3, ParserAssumption
    <3>2. pos \in DOMAIN formats /\ formats[pos] \in Formats
      BY <2>3, FormatFound DEF LineShown, FormatsOk
    <3>3. metas \in Seq(1 .. MetadataBound) /\ formats[pos].name \in Names
      BY <3>2 DEF Formats
    <3>4. \A i \in DOMAIN metas : metas[i] \in DOMAIN metadata
      BY <3>2 DEF LineShown, FormatsOk
    <3>. HIDE DEF pos, metas
    <3>5. Len(metas) <= Len(line.values) /\ Len(metas) \in Nat
      BY <2>3, <3>1, <3>3, ParsableAll
    <3>6. /\ fields' = [i \in 1 .. Len(metas) |->
                          [meta |-> metas[i], type |-> metadata[metas[i]],
                           token |-> line.values[i]]]
          /\ shown'.key = formats[pos].name
          /\ shown'.values = SubSeq(line.values, 1, Len(metas))
      BY <2>3 DEF FieldData
    <3>7. /\ DOMAIN shown'.values = 1 .. Len(metas)
          /\ \A i \in 1 .. Len(metas) : shown'.values[i] = line.values[i]
      BY <3>1, <3>5, <3>6
    <3>8. DOMAIN fields' = 1 .. Len(fields') /\ Len(fields') \in Nat
      BY <3>5, <3>6
    <3>9. FieldsOk'
      BY <1>1, <2>3, <3>3, <3>4, <3>6, <3>7, <3>8 DEF FieldsOk
    <3>10. userdata' \in Seq({"data"}) /\ Len(userdata') <= UserdataBound
      BY <2>3, ParserAssumption DEF Callback, LineShown, RestOk
    <3>. QED
      BY <1>1, <1>2, <3>9, <3>10 DEF LineShown, RestOk
  <2>. QED
    BY <2>1, <2>2, <2>3
<1>. QED
  BY <1>3, <1>4

\* The calls that concern neither formats nor fields.
LEMMA LineShownKept ==
    ASSUME LineShown, last_code' \in Codes,
           UNCHANGED <<formats, metadata, fields, field_name, active, userdata, shown>>
    PROVE  LineShown'
BY DEF LineShown, FormatsOk, FieldsOk, RestOk

LEMMA RenewShows ==
    ASSUME LineShown, Renew
    PROVE  LineShown'
<1>1. /\ formats' = <<>> /\ fields' = <<>> /\ userdata' = <<>>
      /\ field_name' \in Names /\ active' = FALSE /\ last_code' \in Codes
      /\ shown' = Nothing
      /\ \E S : metadata' = [m \in DOMAIN metadata \ S |-> metadata[m]]
  BY DEF Renew
<1>2. FormatsOk'
  BY <1>1 DEF LineShown, FormatsOk
<1>3. FieldsOk'
  BY <1>1 DEF FieldsOk, Nothing
<1>4. RestOk'
  <2>1. <<>> \in Seq({"data"}) /\ Len(<<>>) = 0
    OBVIOUS
  <2>2. UserdataBound \in Nat
    BY ParserAssumption
  <2>3. active' \in BOOLEAN
    BY <1>1
  <2>. QED
    BY <1>1, <2>1, <2>2, <2>3 DEF RestOk
<1>. QED
  BY <1>2, <1>3, <1>4 DEF LineShown

LEMMA LineShownNext == LineShown /\ [ParserNext]_parser_vars => LineShown'
<1>. SUFFICES ASSUME LineShown, [ParserNext]_parser_vars
              PROVE  LineShown'
  OBVIOUS
<1>1. CASE \E name \in Names, string \in FormatStrings : Register(name, string)
  BY <1>1, RegisterShows
<1>2. ASSUME NEW line \in Lines, Parse(line) \/ ReadLine(line)
      PROVE  LineShown'
  <2>1. PICK code \in Codes : ParseLine(line, code) /\ last_code' \in {code, last_code}
    BY <1>2 DEF Parse, ReadLine
  <2>2. last_code' \in Codes
    BY <2>1 DEF LineShown, RestOk
  <2>. QED
    BY <2>1, <2>2, ParseShows
<1>3. CASE OpenFile \/ OpenFails \/ CloseFile
  <2>1. /\ UNCHANGED <<formats, metadata, fields, field_name, active, userdata, shown>>
        /\ last_code' \in {last_code, "FILE_OPEN_FAIL"}
    BY <1>3 DEF OpenFile, OpenFails, CloseFile
  <2>. QED
    BY <2>1, LineShownKept DEF LineShown, RestOk, Codes
<1>4. CASE Renew
  BY <1>4, RenewShows
<1>5. CASE UNCHANGED parser_vars
  BY <1>5, LineShownKept DEF parser_vars, LineShown, RestOk
<1>. QED
  BY <1>1, <1>2, <1>3, <1>4, <1>5 DEF ParserNext

\* The getters show the values of the last line that was parsed, under its key, and nothing
\* after a line with an error, whatever formats, lines and files there are; the metadata they
\* read are allocated, also when the format was registered again (parser.c:170, 345, 478-499).
THEOREM GettersCorrect == ParserSpec => []GettersShowLine
BY LineShownInit, LineShownNext, GettersShow, PTL DEF ParserSpec

=============================================================================
