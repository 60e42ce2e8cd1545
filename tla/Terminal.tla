------------------------------ MODULE Terminal ------------------------------
(***************************************************************************)
(* core/term.c with draw.c and screen.c: clients draw on virtual symbols,  *)
(* term_refresh writes those that changed as commands into a buffer and    *)
(* sends it to the terminal, and the handler of SIGWINCH, which may run    *)
(* between any two steps, gives the virtual terminal its new size.         *)
(* A command is one member of the sequence; a full buffer takes no more.   *)
(***************************************************************************)
EXTENDS Integers, Sequences

CONSTANTS
    Sizes,          \* the sizes a window may have, <<width, height>>
    Zero, Default,  \* the colours {0, 0, 0} and {-1, -1, -1}
    Null,           \* no colour, no symbol: NULL and '\0'
    Space,          \* ' '
    Attributes,     \* text attribute flags
    Drawings,       \* bound: what clients draw, [fg, bg, ta_flags, symbol]
    BUFFER_SIZE     \* C_PRINT_BUFFER_SIZE, in commands

ASSUME TerminalAssumption ==
    /\ Sizes \subseteq (Nat \ {0}) \X (Nat \ {0})
    /\ BUFFER_SIZE \in Nat
    /\ \A d \in Drawings : d.symbol # Null /\ d.ta_flags \subseteq Attributes

VARIABLES
    size,           \* width and height of vterm
    symbols,        \* vterm->symbols, by <<x, y>>; empty once it is freed
    extents,        \* g_screen
    buffer,         \* write_buffer
    screen,         \* what the terminal shows, by <<x, y>>,
    cursor,         \* and where it writes next
    at,             \* where the program is
    cell,           \* the cell it draws on, or x and y of term_refresh
    last,           \* lx and ly of term_refresh
    pointer,        \* the index that _term_get_symbol gave, or None once its block is gone
    fault,          \* how the program failed
    resized,        \* history: the handler ran since the call began,
    stale           \* and the terminal shows something that was not drawn since term_clear

client == <<at, cell, last, pointer>>
vars == <<size, symbols, extents, buffer, screen, cursor, client, fault, resized, stale>>

None == -1
Cells(s) == (0 .. s[1] - 1) \X (0 .. s[2] - 1)
Start == <<0, 0>>
Blank == [symbol |-> Null, fg |-> Default, bg |-> Default, ta_flags |-> {}]
Zeroed == [symbol |-> Null, fg |-> Zero, bg |-> Zero, ta_flags |-> {}, redraw |-> FALSE]
AllZeroed(s) == [c \in Cells(s) |-> Zeroed]

\* How a symbol looks; one that was never drawn is not written.
Look(sym) ==
    IF sym.symbol = Null THEN Blank
    ELSE [symbol |-> sym.symbol, fg |-> sym.fg, bg |-> sym.bg, ta_flags |-> sym.ta_flags]

-----------------------------------------------------------------------------
(* The buffer and the terminal.                                              *)

ClearCommand == [kind |-> "clear", to |-> Start, look |-> Blank]
MoveCommand(c) == [ClearCommand EXCEPT !.kind = "move", !.to = c]
PutCommand(look) == [ClearCommand EXCEPT !.kind = "put", !.look = look]

Fits(commands) == Len(buffer) + Len(commands) <= BUFFER_SIZE

\* _writef, which takes what there is room for.
Written(commands) ==
    LET all == buffer \o commands
    IN  SubSeq(all, 1, IF Len(all) <= BUFFER_SIZE THEN Len(all) ELSE BUFFER_SIZE)

\* The cursor stays in a window of size s.
Clamped(c, s) ==
    <<IF c[1] < s[1] THEN c[1] ELSE s[1] - 1, IF c[2] < s[2] THEN c[2] ELSE s[2] - 1>>

\* A character moves it on, up to the last column.
After(c, s) == IF c[1] + 1 < s[1] THEN <<c[1] + 1, c[2]>> ELSE c

\* A terminal of size s obeys a command.
Obeyed(s, shown, command) ==
    CASE command.kind = "clear" -> [shown EXCEPT !.screen = [c \in Cells(s) |-> Blank]]
      [] command.kind = "move" -> [shown EXCEPT !.cursor = Clamped(command.to, s)]
      [] command.kind = "put" ->
           [screen |-> [shown.screen EXCEPT ![shown.cursor] = command.look],
            cursor |-> After(shown.cursor, s)]

\* It obeys one after another.
Shown(s, shown, commands) ==
    LET Done[n \in 0 .. Len(commands)] ==
          IF n = 0 THEN shown ELSE Obeyed(s, Done[n - 1], commands[n])
    IN  Done[Len(commands)]

\* The terminal once it has been sent the buffer, by _flush.
Flushed == Shown(size, [screen |-> screen, cursor |-> cursor], buffer)

-----------------------------------------------------------------------------

\* draw_init and term_init: what term_clear wrote is dropped, and g_screen stays as it is.
Init ==
    /\ size \in Sizes
    /\ symbols = AllZeroed(size)
    /\ extents = Start
    /\ buffer = <<>>
    /\ screen = [c \in Cells(size) |-> Blank]
    /\ cursor = Start
    /\ at = "idle" /\ cell = Start /\ last = <<-1, -1>> /\ pointer = None
    /\ fault = "none"
    /\ resized = FALSE
    /\ stale = FALSE

Running == fault = "none" /\ symbols # <<>>

Fails(kind) ==
    /\ fault' = kind
    /\ UNCHANGED <<size, symbols, extents, buffer, screen, cursor, client, resized, stale>>

\* The client is where it calls nothing.
Idle ==
    /\ at' = "idle" /\ cell' = Start /\ last' = <<-1, -1>> /\ pointer' = None

\* The client picks a cell to draw on by the size that screen_get_extents or term_get_wh gave it.
Choose ==
    /\ Running /\ at = "idle"
    /\ cell' \in Cells(extents) \cup Cells(size)
    /\ at' = "chosen"
    /\ resized' = FALSE
    /\ UNCHANGED <<size, symbols, extents, buffer, screen, cursor, last, pointer, fault, stale>>

\* Mutant: the rows are as long as the window is high.
IndexOfByHeight(c) == c[2] * size[2] + c[1]

IndexOf(c) == c[2] * size[1] + c[1]

\* _term_get_symbol, which tests nothing.
GetSymbol ==
    /\ Running /\ at = "chosen"
    /\ at' = "got"
    /\ pointer' = IndexOf(cell)
    /\ UNCHANGED <<size, symbols, extents, buffer, screen, cursor, cell, last, fault, resized,
                   stale>>

\* Using the pointer: the block may be gone, or be too small.
BadPointer == pointer = None \/ pointer >= size[1] * size[2]
Pointed == <<pointer % size[1], pointer \div size[1]>>

\* _should_redraw.
ShouldRedraw(sym, d) ==
    \/ sym.symbol # d.symbol
    \/ d.fg # Null /\ sym.fg # d.fg
    \/ d.bg # Null /\ sym.bg # d.bg
    \/ sym.ta_flags # d.ta_flags

\* term_draw_symbol, of which term_draw_text and term_draw_area are loops: a colour that is NULL
\* leaves the one there was.
Drawn(sym, d) ==
    IF ~ShouldRedraw(sym, d) THEN sym
    ELSE [symbol |-> d.symbol, ta_flags |-> d.ta_flags, redraw |-> TRUE,
          fg |-> IF d.fg = Null THEN sym.fg ELSE d.fg,
          bg |-> IF d.bg = Null THEN sym.bg ELSE d.bg]

\* term_set_attr and term_unset_attr, of a cell that something was drawn on: '\0' is not written.
AttributesSet(sym, flags) ==
    IF flags \subseteq sym.ta_flags THEN sym
    ELSE [sym EXCEPT !.ta_flags = @ \cup flags, !.redraw = TRUE]

AttributesUnset(sym, flags) ==
    IF flags \subseteq sym.ta_flags THEN [sym EXCEPT !.ta_flags = @ \ flags, !.redraw = TRUE]
    ELSE sym

\* One cell of term_clear_area.
Erased == [symbol |-> Space, fg |-> Default, bg |-> Default, ta_flags |-> {}, redraw |-> TRUE]

\* The client's call changes the symbol.
Change ==
    /\ Running /\ at = "got"
    /\ IF BadPointer THEN Fails("bad pointer")
       ELSE LET sym == symbols[Pointed] IN
            /\ \E new \in {Drawn(sym, d) : d \in Drawings} \cup {Erased} \cup
                  (IF sym.symbol = Null THEN {} ELSE
                     {AttributesSet(sym, flags) : flags \in SUBSET Attributes} \cup
                     {AttributesUnset(sym, flags) : flags \in SUBSET Attributes}) :
                 symbols' = [symbols EXCEPT ![Pointed] = new]
            /\ Idle
            /\ UNCHANGED <<size, extents, buffer, screen, cursor, fault, resized, stale>>

\* term_clear.
Clear ==
    /\ Running /\ at = "idle"
    /\ symbols' = AllZeroed(size)
    /\ buffer' = Written(<<ClearCommand>>)
    /\ stale' = ~Fits(<<ClearCommand>>)
    /\ UNCHANGED <<size, extents, screen, cursor, client, fault, resized>>

\* term_refresh.
Refresh ==
    /\ Running /\ at = "idle"
    /\ at' = "refresh"
    /\ resized' = FALSE
    /\ UNCHANGED <<size, symbols, extents, buffer, screen, cursor, cell, last, pointer, fault,
                   stale>>

\* Its loops, by the size that the virtual terminal has now.
Visit ==
    /\ Running /\ at = "refresh"
    /\ \/ cell[2] < size[2] /\ cell[1] < size[1]
          /\ at' = "visit" /\ pointer' = IndexOf(cell)
          /\ UNCHANGED cell
       \/ cell[2] < size[2] /\ cell[1] >= size[1]
          /\ cell' = <<0, cell[2] + 1>>
          /\ UNCHANGED <<at, pointer>>
       \/ cell[2] >= size[2]
          /\ at' = "refreshed"
          /\ UNCHANGED <<cell, pointer>>
    /\ UNCHANGED <<size, symbols, extents, buffer, screen, cursor, last, fault, resized, stale>>

\* Mutant: the cursor is not moved down.
NeedsMoveInRow(c) == c[1] # last[1] + 1

\* Whether the cursor is elsewhere.
NeedsMove(c) == c[1] # last[1] + 1 \/ c[2] # last[2]

\* A symbol that is to be drawn again is written, and is then not any more.
Emit ==
    /\ Running /\ at = "visit"
    /\ IF BadPointer THEN Fails("bad pointer")
       ELSE LET sym == symbols[Pointed]
                commands == (IF NeedsMove(cell) THEN <<MoveCommand(cell)>> ELSE <<>>)
                            \o <<PutCommand(Look(sym))>>
            IN  /\ IF ~sym.redraw THEN UNCHANGED <<symbols, buffer, last, stale>>
                   ELSE /\ symbols' = [symbols EXCEPT ![Pointed].redraw = FALSE]
                        /\ buffer' = Written(commands)
                        /\ last' = cell
                        /\ stale' = (stale \/ ~Fits(commands))
                /\ at' = "refresh"
                /\ cell' = <<cell[1] + 1, cell[2]>>
                /\ pointer' = None
                /\ UNCHANGED <<size, extents, screen, cursor, fault, resized>>

\* _flush.
Flush ==
    /\ Running /\ at = "refreshed"
    /\ screen' = Flushed.screen
    /\ cursor' = Flushed.cursor
    /\ buffer' = <<>>
    /\ Idle
    /\ UNCHANGED <<size, symbols, extents, fault, resized, stale>>

\* draw_uninit and term_uninit, after which the handler is still there.
Uninit ==
    /\ Running /\ at = "idle"
    /\ symbols' = <<>>
    /\ buffer' = Written(<<ClearCommand>>)
    /\ UNCHANGED <<size, extents, screen, cursor, client, fault, resized, stale>>

\* The window changes, and _sigwinch_handler runs term_resize and screen_set_extents: realloc may
\* move the symbols.  The terminal itself keeps what fits of its contents.
Winch(s) ==
    /\ fault = "none"
    /\ IF symbols = <<>> THEN Fails("no terminal")
       ELSE /\ size' = s
            /\ symbols' = AllZeroed(s)
            /\ extents' = s
            /\ screen' = [c \in Cells(s) |-> IF c \in DOMAIN screen THEN screen[c] ELSE Blank]
            /\ cursor' = Clamped(cursor, s)
            /\ pointer' \in {pointer, None}
            /\ resized' = TRUE
            /\ stale' = TRUE
            /\ UNCHANGED <<buffer, at, cell, last, fault>>

Next ==
    \/ Choose \/ GetSymbol \/ Change
    \/ Clear
    \/ Refresh \/ Visit \/ Emit \/ Flush
    \/ Uninit
    \/ \E s \in Sizes : Winch(s)

Spec == Init /\ [][Next]_vars

-----------------------------------------------------------------------------
(* Properties.                                                               *)

Symbols == {Null, Space} \cup {d.symbol : d \in Drawings}
Colours ==
    {Zero, Default} \cup ((UNION {{d.fg, d.bg} : d \in Drawings}) \ {Null})
Looks == [symbol : Symbols, fg : Colours, bg : Colours, ta_flags : SUBSET Attributes]

TypeOK ==
    /\ size \in Sizes /\ extents \in Sizes \cup {Start}
    /\ symbols # <<>> =>
         symbols \in [Cells(size) -> [symbol : Symbols, fg : Colours, bg : Colours,
                                      ta_flags : SUBSET Attributes, redraw : BOOLEAN]]
    /\ screen \in [Cells(size) -> Looks] /\ cursor \in Cells(size)
    /\ buffer \in Seq([kind : {"clear", "move", "put"}, to : Nat \X Nat, look : Looks])
    /\ Len(buffer) <= BUFFER_SIZE
    /\ at \in {"idle", "chosen", "got", "refresh", "visit", "refreshed"}
    /\ cell \in Nat \X Nat /\ last \in Int \X Int /\ pointer \in Nat \cup {None}
    /\ fault \in {"none", "bad pointer", "no terminal"}
    /\ {resized, stale} \subseteq BOOLEAN

\* After a term_clear that fitted into the buffer, and until the window changes or the buffer
\* overflows, the terminal will show every cell as it was drawn last, once it has been sent what
\* is in the buffer, except those that wait for the next refresh (term.c:165-188 and 320-395): no
\* call forgets to mark a cell, and no cell is written in another's place.  A refresh leaves none
\* marked, even if the window changes under it.
ShowsWhatWasDrawn ==
    /\ TypeOK
    /\ ~stale /\ symbols # <<>> =>
         \A c \in Cells(size) : symbols[c].redraw \/ Flushed.screen[c] = Look(symbols[c])
    /\ at = "refreshed" /\ symbols # <<>> => \A c \in Cells(size) : ~symbols[c].redraw

\* The pointers into the symbols go bad only when the handler ran in the middle of the call, be it
\* after the client chose its cell or between two steps of term_refresh; when it runs between
\* two calls only term_uninit, which leaves it installed, makes it fail (draw.c:27-51).
OnlyTheHandlerHurts ==
    /\ fault = "bad pointer" => resized
    /\ fault = "no terminal" => symbols = <<>>

=============================================================================
