------------------------------ MODULE Console ------------------------------
(***************************************************************************)
(* The console of src/kernel/console.c: where the screen is in the display *)
(* memory, where the cursor is on the screen, and what is stored.          *)
(* Addresses are counted from MEM_BASE.  console_write runs with           *)
(* interrupts off and is a sequence of the actions for its characters; the *)
(* registers of the controller, which set_screen and set_cursor write from *)
(* screen and pos, are never read again and are left out.                  *)
(***************************************************************************)
EXTENDS Integers

MEM_SIZE == 16384
WIDTH == 80
HEIGHT == 25
ROW_SIZE == 2 * WIDTH
SCR_SIZE == ROW_SIZE * HEIGHT

VARIABLES
    screen,     \* the address of the first row shown
    pos,        \* the address of the cursor
    x, y,       \* its column and row
    stored      \* <<from, to>>: the bytes that the last step stored into

consoleVars == <<screen, pos, x, y, stored>>

Nothing == <<0, 0>>
Cell(p) == <<p, p + 2>>

\* console_clear, which console_init calls as well.
Cleared == <<0, MEM_SIZE>>

ConsoleInit ==
    /\ screen = 0 /\ pos = 0 /\ x = 0 /\ y = 0
    /\ stored = Cleared

console_clear ==
    /\ screen' = 0 /\ pos' = 0 /\ x' = 0 /\ y' = 0
    /\ stored' = Cleared

\* scroll_up starts again at the front when the next row would be the last.
AtTheEnd == screen + SCR_SIZE + ROW_SIZE >= MEM_SIZE
Base == IF AtTheEnd THEN 0 ELSE screen

\* It erases WIDTH words of four bytes: two rows.
ErasedTo == Base + SCR_SIZE + 4 * WIDTH

scroll_up ==
    /\ screen' = Base + ROW_SIZE
    /\ stored' = <<IF AtTheEnd THEN 0 ELSE screen + SCR_SIZE, ErasedTo>>

\* command_lf with the cursor at p: the cursor is at LineFeed(p) then.
OnLastRow == y + 1 >= HEIGHT

LineFeed(p) == IF OnLastRow THEN p - (screen - Base) + ROW_SIZE ELSE p + ROW_SIZE

command_lf(otherwise) ==
    IF OnLastRow THEN scroll_up /\ y' = y
                 ELSE y' = y + 1 /\ stored' = otherwise /\ UNCHANGED screen

\* ASCII_FF.
form_feed == command_lf(Nothing) /\ pos' = LineFeed(pos) /\ UNCHANGED x

\* ASCII_LF, with command_cr after it.
line_feed == command_lf(Nothing) /\ pos' = LineFeed(pos) - 2 * x /\ x' = 0

command_cr ==
    /\ pos' = pos - 2 * x /\ x' = 0
    /\ stored' = Nothing
    /\ UNCHANGED <<screen, y>>

command_bs ==
    /\ x > 0
    /\ x' = x - 1 /\ pos' = pos - 2
    /\ stored' = Cell(pos - 2)
    /\ UNCHANGED <<screen, y>>

command_del == stored' = Cell(pos) /\ UNCHANGED <<screen, pos, x, y>>

\* A character that is shown, in the row where the cursor is ...
put ==
    /\ x < WIDTH
    /\ stored' = Cell(pos)
    /\ pos' = pos + 2 /\ x' = x + 1
    /\ UNCHANGED <<screen, y>>

\* ... and in the next one, when it is behind the last column; that cell is the
\* first one of the row that a scroll has erased.
put_wrapped ==
    LET p == LineFeed(pos - ROW_SIZE) IN
    /\ x >= WIDTH
    /\ command_lf(Cell(p))
    /\ pos' = p + 2 /\ x' = x - WIDTH + 1

ConsoleNext ==
    \/ console_clear \/ form_feed \/ line_feed \/ command_cr \/ command_bs
    \/ command_del \/ put \/ put_wrapped

ConsoleSpec == ConsoleInit /\ [][ConsoleNext]_consoleVars

-----------------------------------------------------------------------------
(***************************************************************************)
(* The two places of the cursor agree, through wraps, scrolls and the      *)
(* return of the screen to the front, and the screen stays in the display  *)
(* memory.                                                                 *)
(***************************************************************************)
CursorOnScreen ==
    /\ x \in 0..WIDTH /\ y \in 0..(HEIGHT - 1)
    /\ screen >= 0 /\ screen + SCR_SIZE <= MEM_SIZE
    /\ pos = screen + y * ROW_SIZE + 2 * x

(***************************************************************************)
(* What is stored is in the display memory but for the end of the second   *)
(* row that scroll_up erases, which may be 96 bytes behind it.             *)
(***************************************************************************)
Overrun == 96

StoresInMemory == stored[1] >= 0 /\ stored[2] <= MEM_SIZE + Overrun
=============================================================================
