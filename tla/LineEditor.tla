------------------------------ MODULE LineEditor ------------------------------
(***************************************************************************)
(* The line editor of the shell: keyboard_handler of kernel/main.cpp and   *)
(* the functions it calls.  It runs once per scancode, with interrupts     *)
(* off, so a scancode is one step; a key sends one or two of them, and     *)
(* what is remembered between them is shift_pressed and extended_key.      *)
(*                                                                         *)
(* Buffers are arrays of characters in which the first NUL ends the text   *)
(* and stale characters may follow.  The two scancode tables are           *)
(* abstracted: the character a key types is the pair of its scancode and   *)
(* the table it is looked up in.  The echo goes to the console, character  *)
(* by character.  A command prints some lines and ends with a fresh        *)
(* prompt.                                                                 *)
(***************************************************************************)
EXTENDS Integers, Sequences

CONSTANTS BUFFER_SIZE, HISTORY_SIZE,
          Letters,    \* the scancodes with a printing entry in the tables
          Silent,     \* other keys: their table entry is 0, or there is none
          VGA_WIDTH, VGA_HEIGHT,
          Prompts,    \* the lengths of MSG_PROMPT in the languages; 10 in both
          Outputs     \* what commands print: the lengths of some lines

ASSUME LineEditorAssumption ==
    /\ BUFFER_SIZE \in Nat \ {0}
    /\ HISTORY_SIZE \in Nat \ {0}
    /\ Letters \subseteq (1 .. 57) \ {14, 28, 29, 42, 54, 56}
    /\ Silent \subseteq {29, 56} \cup 58 .. 95
    /\ VGA_WIDTH \in Nat /\ VGA_HEIGHT \in Nat \ {0}
    /\ Prompts \subseteq 1 .. (VGA_WIDTH - 1)
    /\ Outputs \subseteq Seq(Nat)

\* Scancodes with a meaning of their own in keyboard_handler.
Prefix == 224                         \* 0xE0
UpArrow == 72                         \* 0x48, behind the prefix
DownArrow == 80                       \* 0x50, behind the prefix
ShiftDown == {42, 54}                 \* 0x2A, 0x36
ShiftUp_Left == {170}                 \* a mistake: only the left shift key
ShiftUp == {170, 182}                 \* 0xAA, 0xB6
EnterKey == 28                        \* '\n' in both tables
BackspaceKey == 14                    \* '\b' in both tables

\* The entry 0 of the tables is the character that ends a string.
NUL == <<0, FALSE>>

VARIABLES input_buffer, buffer_index,
          shift_pressed, extended_key,
          history, history_count, history_index,
          screen,    \* the state of the console
          prompt,    \* the length of the prompt on the screen
          wide,      \* since the prompt the echo has reached the row's end
          executed,  \* the line the last scancode gave to execute_command, if any
          wire,      \* the scancodes of the current key that are still to come
          down       \* the shift keys that are physically held down

editor == <<input_buffer, buffer_index, history, history_count, history_index,
            screen, prompt, wide, executed>>

vars == <<editor, shift_pressed, extended_key, wire, down>>

Cells == 0 .. (BUFFER_SIZE - 1)

Rows == 0 .. (HISTORY_SIZE - 1)

Empty == [k \in Cells |-> NUL]

\* C strings in buffers.
StrLen(buffer) ==
    CHOOSE n \in Cells :
        buffer[n] = NUL /\ \A k \in Cells : k < n => buffer[k] # NUL

Text(buffer) == [k \in 1 .. StrLen(buffer) |-> buffer[k - 1]]

\* kstrcpy: the characters up to and including the NUL.
StrCpy(to, from) ==
    [k \in Cells |-> IF k <= StrLen(from) THEN from[k] ELSE to[k]]

-----------------------------------------------------------------------------
\* What the tables have for the Enter, Backspace and space keys, and a
\* character that only messages have.
Con == INSTANCE Console WITH Newline <- <<EnterKey, FALSE>>,
                             Rubout <- <<BackspaceKey, FALSE>>,
                             Space <- <<57, FALSE>>

Message(n) == [k \in 1 .. n |-> <<0, TRUE>>]

\* print_char for each of the characters.
Echo(text) ==
    /\ screen' = Con!vga_write(screen, text)
    /\ wide' = (wide \/ prompt + buffer_index' >= VGA_WIDTH)
    /\ UNCHANGED prompt

\* n times print_char('\b').
Rubouts(n) == [k \in 1 .. n |-> <<BackspaceKey, FALSE>>]

\* Lines of a message, and the prompt behind them.
PrintLine(con, n) == Con!vga_write(con, Append(Message(n), <<EnterKey, FALSE>>))

Prompted(con, output, n) ==
    LET Printed[k \in 0 .. Len(output)] ==
            IF k = 0 THEN con ELSE PrintLine(Printed[k - 1], output[k])
    IN  Con!vga_write(Printed[Len(output)], Message(n))

\* The answer to a line: some output and the next prompt.
PromptAfter(con, output) ==
    /\ prompt' \in Prompts
    /\ screen' = Prompted(con, output, prompt')
    /\ wide' = FALSE

\* A mistake: the line stays on the screen.
clear_input_buffer_Silent ==
    /\ buffer_index' = 0
    /\ input_buffer' = [input_buffer EXCEPT ![0] = NUL]
    /\ UNCHANGED <<screen, prompt, wide>>

clear_input_buffer ==
    /\ buffer_index' = 0
    /\ input_buffer' = [input_buffer EXCEPT ![0] = NUL]
    /\ Echo(Rubouts(buffer_index))

\* The end of recall_history: row i replaces the line in the buffer and on the
\* screen.
ShowRow(i) ==
    /\ buffer_index' = StrLen(history[i])
    /\ input_buffer' = StrCpy(input_buffer, history[i])
    /\ Echo(Rubouts(buffer_index) \o Text(history[i]))
    /\ history_index' = i

Unmoved == UNCHANGED <<input_buffer, buffer_index, history_index,
                       screen, prompt, wide>>

Older == IF history_index = -1 THEN history_count - 1
         ELSE IF history_index > 0 THEN history_index - 1
         ELSE history_index

recall_history(direction) ==
    /\ UNCHANGED <<history, history_count>>
    /\ \/ history_count = 0 /\ Unmoved
       \/ history_count > 0 /\ direction = -1 /\ ShowRow(Older)
       \/ history_count > 0 /\ direction = 1 /\ history_index = -1 /\ Unmoved
       \/ /\ direction = 1
          /\ history_index # -1
          /\ IF history_index + 1 >= history_count
             THEN history_index' = -1 /\ clear_input_buffer
             ELSE ShowRow(history_index + 1)

\* A mistake: a full table overwrites its newest row.
save_history_Overwrite(line) ==
    /\ history_index' = -1
    /\ history_count' = IF history_count < HISTORY_SIZE THEN history_count + 1
                        ELSE history_count
    /\ history' = [history EXCEPT ![history_count' - 1] =
                        StrCpy(@, line)]

\* save_history of a non-empty line: a full table forgets its oldest row.
save_history(line) ==
    /\ history_index' = -1
    /\ IF history_count < HISTORY_SIZE
       THEN /\ history' = [history EXCEPT ![history_count] =
                                StrCpy(@, line)]
            /\ history_count' = history_count + 1
       ELSE /\ history' = [i \in Rows |->
                              IF i = HISTORY_SIZE - 1
                              THEN StrCpy(history[i], line)
                              ELSE StrCpy(history[i], history[i + 1])]
            /\ UNCHANGED history_count

EnterEcho == Con!vga_put_char(screen, <<EnterKey, FALSE>>)

\* The line as handle_enter closes it, before it is saved and run.
EndedLine == [input_buffer EXCEPT ![buffer_index] = NUL]

\* handle_enter: an empty line is neither saved nor run.
handle_enter ==
    /\ buffer_index' = 0
    /\ input_buffer' = [EndedLine EXCEPT ![0] = NUL]
    /\ \/ /\ buffer_index = 0
          /\ executed' = << >>
          /\ PromptAfter(EnterEcho, << >>)
          /\ UNCHANGED <<history, history_count, history_index>>
       \/ /\ buffer_index > 0
          /\ executed' = Text(EndedLine)
          /\ save_history(EndedLine)
          /\ \E output \in Outputs : \/ PromptAfter(EnterEcho, output)
                                    \/ PromptAfter(Con!vga_clear, output)

\* A mistake: the line is edited and still counts as a row of the history.
Backspace_StillBrowsing ==
    /\ buffer_index > 0
    /\ buffer_index' = buffer_index - 1
    /\ input_buffer' = [input_buffer EXCEPT ![buffer_index - 1] = NUL]
    /\ Echo(Rubouts(1))
    /\ UNCHANGED <<history, history_count, history_index>>

Backspace ==
    /\ buffer_index > 0
    /\ buffer_index' = buffer_index - 1
    /\ input_buffer' = [input_buffer EXCEPT ![buffer_index - 1] = NUL]
    /\ Echo(Rubouts(1))
    /\ history_index' = -1
    /\ UNCHANGED <<history, history_count>>

\* A mistake: no cell is left for the NUL.
Insert_Tight(c) ==
    /\ buffer_index < BUFFER_SIZE
    /\ buffer_index' = buffer_index + 1
    /\ input_buffer' = [input_buffer EXCEPT ![buffer_index] = c]
    /\ Echo(<<c>>)
    /\ history_index' = -1
    /\ UNCHANGED <<history, history_count>>

Insert(c) ==
    /\ buffer_index < BUFFER_SIZE - 1
    /\ buffer_index' = buffer_index + 1
    /\ input_buffer' = [input_buffer EXCEPT ![buffer_index] = c,
                                            ![buffer_index + 1] = NUL]
    /\ Echo(<<c>>)
    /\ history_index' = -1
    /\ UNCHANGED <<history, history_count>>

\* The character a printing key stands for, from one table or the other.
Character(scancode) == <<scancode, shift_pressed>>

\* A line editing function that runs no command.
Quietly == executed' = << >>

NoEdit == Quietly /\ UNCHANGED <<history, history_count>> /\ Unmoved

\* keyboard_handler on a scancode.
HandlePrefix(scancode) ==
    /\ scancode = Prefix
    /\ extended_key' = TRUE
    /\ NoEdit
    /\ UNCHANGED shift_pressed

\* A mistake: what follows the prefix is taken for a plain Enter as well.
HandleExtended_Enter(scancode) ==
    /\ scancode # Prefix
    /\ extended_key
    /\ extended_key' = FALSE
    /\ \/ scancode = EnterKey /\ handle_enter
       \/ scancode # EnterKey /\ NoEdit
    /\ UNCHANGED shift_pressed

HandleExtended(scancode) ==
    /\ scancode # Prefix
    /\ extended_key
    /\ extended_key' = FALSE
    /\ \/ scancode = UpArrow /\ recall_history(-1) /\ Quietly
       \/ scancode = DownArrow /\ recall_history(1) /\ Quietly
       \/ scancode \notin {UpArrow, DownArrow} /\ NoEdit
    /\ UNCHANGED shift_pressed

HandleShift(scancode) ==
    /\ ~extended_key
    /\ scancode \in ShiftDown \cup ShiftUp
    /\ shift_pressed' = (scancode \in ShiftDown)
    /\ NoEdit
    /\ UNCHANGED extended_key

HandleKey(scancode) ==
    /\ ~extended_key
    /\ scancode \notin ShiftDown \cup ShiftUp \cup {Prefix}
    /\ \/ scancode = EnterKey /\ handle_enter
       \/ scancode = BackspaceKey /\ Backspace /\ Quietly
       \/ scancode = BackspaceKey /\ buffer_index = 0 /\ NoEdit
       \/ scancode \in Letters /\ Insert(Character(scancode)) /\ Quietly
       \/ scancode \in Letters /\ buffer_index >= BUFFER_SIZE - 1 /\ NoEdit
       \/ scancode \notin Letters \cup {EnterKey, BackspaceKey} /\ NoEdit
    /\ UNCHANGED <<shift_pressed, extended_key>>

keyboard_handler(scancode) ==
    \/ HandlePrefix(scancode)
    \/ HandleExtended(scancode)
    \/ HandleShift(scancode)
    \/ HandleKey(scancode)

-----------------------------------------------------------------------------
\* The keyboard sends the scancodes of one key before those of the next, and
\* each is handled when it comes.
Sends(scancodes) ==
    /\ wire = << >>
    /\ wire' = Tail(scancodes)
    /\ keyboard_handler(Head(scancodes))

SecondScancode ==
    /\ wire # << >>
    /\ wire' = Tail(wire)
    /\ keyboard_handler(Head(wire))
    /\ UNCHANGED down

PlainKeys == Letters \cup Silent \cup {EnterKey, BackspaceKey}

\* A key is pressed, repeats, or is released (0x80 more).
Key == /\ \E k \in PlainKeys : Sends(<<k>>) \/ Sends(<<k + 128>>)
       /\ UNCHANGED down

\* An arrow, keypad Enter, keypad '/' or the shift codes that accompany them: the
\* codes of other keys behind the prefix.
ExtendedKey ==
    /\ \E k \in {UpArrow, DownArrow, EnterKey} \cup ShiftDown \cup Silent :
          Sends(<<Prefix, k>>) \/ Sends(<<Prefix, k + 128>>)
    /\ UNCHANGED down

ShiftKey == \E k \in ShiftDown :
                \/ Sends(<<k>>) /\ down' = down \cup {k}
                \/ k \in down /\ Sends(<<k + 128>>) /\ down' = down \ {k}

Init ==
    /\ input_buffer = Empty
    /\ buffer_index = 0
    /\ shift_pressed = FALSE
    /\ extended_key = FALSE
    /\ history = [i \in Rows |-> Empty]
    /\ history_count = 0
    /\ history_index = -1
    /\ \E output \in Outputs :
          prompt \in Prompts /\ screen = Prompted(Con!vga_clear, output, prompt)
    /\ wide = FALSE
    /\ executed = << >>
    /\ wire = << >>
    /\ down = {}

Next == Key \/ ExtendedKey \/ ShiftKey \/ SecondScancode

Spec == Init /\ [][Next]_vars

-----------------------------------------------------------------------------
Characters == Letters \X BOOLEAN

TypeOK ==
    /\ input_buffer \in [Cells -> Characters \cup {NUL}]
    /\ buffer_index \in Cells
    /\ history \in [Rows -> [Cells -> Characters \cup {NUL}]]
    /\ history_count \in 0 .. HISTORY_SIZE
    /\ history_index \in -1 .. (history_count - 1)
    /\ shift_pressed \in BOOLEAN
    /\ extended_key \in BOOLEAN

Padded(text) ==
    [k \in 1 .. VGA_WIDTH |-> IF k <= Len(text) THEN text[k] ELSE <<57, FALSE>>]

\* What the user sees behind the prompt is what execute_command would get: the
\* row of the cursor holds the prompt, the string in the buffer and nothing else,
\* through edits, recalls and their rubbing out.  Only until the echo reaches the
\* end of the row: a backspace does not go back over it.
ScreenShowsLine ==
    ~wide => /\ Con!CursorRow(screen) = Padded(Message(prompt) \o Text(input_buffer))
             /\ screen.cursor_x = prompt + buffer_index

\* Every character of every echo, recall and message is stored inside the VGA
\* buffer: the cursor is on the screen when the next one is printed.
CursorOnScreen == Con!OnScreen(screen)

\* While history_index points at a row, the line is that row and is not empty.
\* handle_enter relies on it: for an empty line save_history returns before it
\* resets history_index, which would then point at a row not on the screen.
BrowsedLineIsRow ==
    history_index # -1 =>
        /\ Text(input_buffer) = Text(history[history_index])
        /\ input_buffer[0] # NUL

\* The shifted table is in use only while a shift key is down, whatever comes
\* behind prefixes in between.
ShiftOnlyWhileHeld == shift_pressed => down # {}

\* A scancode behind the 0xE0 prefix types nothing and runs nothing: only the
\* two arrows change the line, though the codes are those of plain keys.
ExtendedKeysNeverType ==
    [][extended_key /\ Head(wire) \notin {UpArrow, DownArrow}
          => Text(input_buffer') = Text(input_buffer) /\ executed' = << >>]_vars

L == INSTANCE LineDiscipline WITH
        line <- Text(input_buffer),
        past <- [i \in 1 .. history_count |-> Text(history[i - 1])],
        at <- history_index + 1,
        ran <- executed,
        Keys <- Characters,
        Width <- BUFFER_SIZE - 1,
        Memory <- HISTORY_SIZE

\* The editor is the line discipline of the prompt: NUL-terminated buffers and
\* rows with stale tails behave as the lines they stand for.
LineDisciplineSpec == L!Spec
=============================================================================
