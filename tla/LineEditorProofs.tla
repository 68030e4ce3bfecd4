--------------------------- MODULE LineEditorProofs ---------------------------
(***************************************************************************)
(* Proofs about the line editor, for every buffer and history size, every  *)
(* screen and every set of keys.                                           *)
(*                                                                         *)
(* What the keyboard and the handler remember of a key (KeysOK) and what   *)
(* they have made of the line (EditInv) do not depend on each other and    *)
(* are two invariants.  Each editing function keeps the second and is at   *)
(* the same time a step of LineDiscipline: one lemma says both.            *)
(*                                                                         *)
(* The screen follows the line (ScreenInv).  Nothing is ever behind the    *)
(* cursor (Ahead), so what is printed stands alone in the rest of the row; *)
(* the row of a line that fits is known character by character (Shows).    *)
(* Both go through print_char, then, by induction on the text, through     *)
(* vga_write, and every editing function is one such text: some rubouts    *)
(* and some characters (Echoed).                                           *)
(***************************************************************************)
EXTENDS LineEditor, NaturalOrder, SequenceTheorems, TLAPS

\* Between the two scancodes of a key extended_key is set and the second one,
\* which is no prefix, is on the wire; otherwise neither.  Shift is remembered
\* only while one of its keys is held.
KeysOK ==
    /\ shift_pressed \in BOOLEAN
    /\ extended_key \in BOOLEAN
    /\ \/ wire = << >> /\ ~extended_key
       \/ extended_key /\ \E k \in Nat \ {Prefix} : wire = <<k>>
    /\ ShiftOnlyWhileHeld

Buffer == [Cells -> Characters \cup {NUL}]

\* The string in a buffer is n characters long.
EndsAt(buffer, n) ==
    /\ n \in Cells
    /\ buffer[n] = NUL
    /\ \A k \in Cells : k < n => buffer[k] # NUL

EditInv ==
    /\ input_buffer \in Buffer
    /\ EndsAt(input_buffer, buffer_index)
    /\ history \in [Rows -> Buffer]
    /\ \A i \in Rows : EndsAt(history[i], StrLen(history[i]))
    /\ history_count \in 0 .. HISTORY_SIZE
    /\ \A i \in Rows : i < history_count => history[i][0] # NUL
    /\ history_index \in -1 .. (history_count - 1)
    /\ BrowsedLineIsRow

-----------------------------------------------------------------------------
\* The keyboard: no plain key has the scancode of the prefix or of shift.
LEMMA PlainCodes ==
    ASSUME NEW k \in PlainKeys
    PROVE  /\ k \in Nat /\ k + 128 \in Nat
           /\ {k, k + 128} \cap (ShiftDown \cup ShiftUp \cup {Prefix}) = {}
BY LineEditorAssumption DEF PlainKeys, ShiftDown, ShiftUp, Prefix, EnterKey, BackspaceKey

\* Nor has a code that follows the prefix.
LEMMA ExtendedCodes ==
    ASSUME NEW k \in {UpArrow, DownArrow, EnterKey} \cup ShiftDown \cup Silent
    PROVE  {k, k + 128} \subseteq Nat \ {Prefix}
BY LineEditorAssumption DEF UpArrow, DownArrow, EnterKey, ShiftDown, Prefix

\* A key with one scancode starts and ends with the handler in its plain state.
LEMMA OneCode ==
    ASSUME KeysOK, NEW k, Sends(<<k>>)
    PROVE  wire = << >> /\ wire' = << >> /\ ~extended_key /\ keyboard_handler(k)
BY DEF KeysOK, Sends

LEMMA KeysStep == KeysOK /\ [Next]_vars => KeysOK'
<1> SUFFICES ASSUME KeysOK, [Next]_vars PROVE KeysOK'
  OBVIOUS
<1>1. ASSUME NEW k, k \notin ShiftDown \cup ShiftUp \cup {Prefix}, Sends(<<k>>), UNCHANGED down
      PROVE  KeysOK'
  <2>1. wire' = << >> /\ ~extended_key /\ keyboard_handler(k)
    BY <1>1, OneCode
  <2>2. UNCHANGED <<shift_pressed, extended_key>>
    BY <1>1, <2>1 DEF keyboard_handler, HandlePrefix, HandleExtended, HandleShift, HandleKey
  <2> QED
    BY <1>1, <2>1, <2>2 DEF KeysOK, ShiftOnlyWhileHeld
<1>2. CASE Key
  BY <1>1, <1>2, PlainCodes DEF Key
<1>3. CASE ExtendedKey
  <2>1. PICK k \in Nat \ {Prefix} : Sends(<<Prefix, k>>) /\ UNCHANGED down
    BY <1>3, ExtendedCodes DEF ExtendedKey
  <2>2. wire' = <<k>> /\ keyboard_handler(Prefix)
    BY <2>1 DEF Sends
  <2>3. extended_key' = TRUE /\ UNCHANGED shift_pressed
    BY <2>1, <2>2 DEF keyboard_handler, HandlePrefix, HandleExtended, HandleShift, HandleKey,
                      KeysOK, ShiftDown, ShiftUp, Prefix, Sends
  <2> QED
    BY <2>1, <2>2, <2>3 DEF KeysOK, ShiftOnlyWhileHeld
<1>4. CASE ShiftKey
  <2>1. PICK k \in ShiftDown : \/ Sends(<<k>>) /\ down' = down \cup {k}
                               \/ Sends(<<k + 128>>) /\ k \in down /\ down' = down \ {k}
    BY <1>4 DEF ShiftKey
  <2>2. k # Prefix /\ k + 128 # Prefix /\ k + 128 \in ShiftUp /\ k + 128 \notin ShiftDown
    BY DEF ShiftDown, ShiftUp, Prefix
  <2>3. CASE Sends(<<k>>) /\ down' = down \cup {k}
    <3>1. wire' = << >> /\ ~extended_key /\ keyboard_handler(k)
      BY <2>3, OneCode
    <3>2. shift_pressed' = TRUE /\ UNCHANGED extended_key
      BY <2>2, <3>1 DEF keyboard_handler, HandlePrefix, HandleExtended, HandleShift, HandleKey
    <3> QED
      BY <2>3, <3>1, <3>2 DEF KeysOK, ShiftOnlyWhileHeld
  <2>4. CASE Sends(<<k + 128>>)
    <3>1. wire' = << >> /\ ~extended_key /\ keyboard_handler(k + 128)
      BY <2>4, OneCode
    <3>2. shift_pressed' = (k + 128 \in ShiftDown) /\ UNCHANGED extended_key
      BY <2>2, <3>1 DEF keyboard_handler, HandlePrefix, HandleExtended, HandleShift, HandleKey
    <3>3. (k + 128 \in ShiftDown) = FALSE
      BY <2>2
    <3>4. shift_pressed' = FALSE
      BY <3>2, <3>3
    <3> QED
      BY <3>1, <3>2, <3>4 DEF KeysOK, ShiftOnlyWhileHeld
  <2> QED
    BY <2>1, <2>3, <2>4
<1>5. CASE SecondScancode
  <2>1. PICK k \in Nat \ {Prefix} : extended_key /\ wire = <<k>>
    BY <1>5 DEF SecondScancode, KeysOK
  <2>2. wire' = << >> /\ keyboard_handler(k) /\ UNCHANGED down
    BY <1>5, <2>1 DEF SecondScancode
  <2>3. extended_key' = FALSE /\ UNCHANGED shift_pressed
    BY <2>1, <2>2 DEF keyboard_handler, HandlePrefix, HandleExtended, HandleShift, HandleKey
  <2> QED
    BY <2>1, <2>2, <2>3 DEF KeysOK, ShiftOnlyWhileHeld
<1>6. CASE UNCHANGED vars
  BY <1>6 DEF vars, KeysOK, ShiftOnlyWhileHeld
<1> QED
  BY <1>2, <1>3, <1>4, <1>5, <1>6 DEF Next

LEMMA KeysInvariant == Spec => []KeysOK
<1>1. Init => KeysOK
  BY DEF Init, KeysOK, ShiftOnlyWhileHeld
<1> QED
  BY <1>1, KeysStep, PTL DEF Spec

\* Letters come from the shifted table only while a shift key is down.
THEOREM ShiftFollowsKeys == Spec => []ShiftOnlyWhileHeld
<1>1. KeysOK => ShiftOnlyWhileHeld
  BY DEF KeysOK
<1> QED
  BY <1>1, KeysInvariant, PTL

\* What comes behind a prefix edits and runs nothing, unless it is an arrow.
THEOREM PrefixedCodesNeverType == Spec => ExtendedKeysNeverType
<1> DEFINE A == extended_key /\ Head(wire) \notin {UpArrow, DownArrow}
                   => Text(input_buffer') = Text(input_buffer) /\ executed' = << >>
<1>1. KeysOK /\ Next => A
  <2> SUFFICES ASSUME KeysOK, Next, extended_key, Head(wire) \notin {UpArrow, DownArrow}
               PROVE  UNCHANGED input_buffer /\ executed' = << >>
    OBVIOUS
  <2>1. PICK k \in Nat \ {Prefix} : wire = <<k>>
    BY DEF KeysOK
  <2>2. SecondScancode
    BY <2>1 DEF Next, Key, ExtendedKey, ShiftKey, Sends
  <2>3. keyboard_handler(k) /\ k \notin {UpArrow, DownArrow}
    BY <2>1, <2>2 DEF SecondScancode
  <2> QED
    BY <2>1, <2>3 DEF keyboard_handler, HandlePrefix, HandleExtended, HandleShift, HandleKey,
                      NoEdit, Quietly, Unmoved
<1>2. KeysOK /\ [Next]_vars => [A]_vars
  BY <1>1
<1> QED
  BY <1>2, KeysInvariant, PTL DEF Spec, ExtendedKeysNeverType

-----------------------------------------------------------------------------
\* Buffers and the strings in them.
LEMMA Numbers ==
    /\ 0 \in Cells
    /\ \A k \in Cells : k \in Nat /\ k < BUFFER_SIZE
    /\ \A i \in Rows : i \in Nat /\ i < HISTORY_SIZE
    /\ BUFFER_SIZE \in Nat \ {0} /\ HISTORY_SIZE \in Nat \ {0}
    /\ NUL \notin Characters
BY LineEditorAssumption DEF Cells, Rows, NUL, Characters

LEMMA StrLenIs == ASSUME NEW b, NEW n, EndsAt(b, n) PROVE StrLen(b) = n
<1>1. \A k \in Cells : b[k] = NUL /\ (\A j \in Cells : j < k => b[j] # NUL) => k = n
  BY Numbers DEF EndsAt
<1> QED
  BY <1>1 DEF StrLen, EndsAt

LEMMA TextFacts ==
    ASSUME NEW b \in Buffer, NEW n, EndsAt(b, n)
    PROVE  /\ Text(b) \in Seq(Characters) /\ Len(Text(b)) = n
           /\ \A k \in 1 .. n : Text(b)[k] = b[k - 1]
           /\ b[0] = NUL <=> n = 0
<1>1. n \in Nat /\ n < BUFFER_SIZE /\ BUFFER_SIZE \in Nat
  BY Numbers DEF EndsAt
<1>2. Text(b) = [k \in 1 .. n |-> b[k - 1]]
  BY StrLenIs DEF Text
<1>3. ASSUME NEW k \in 1 .. n PROVE b[k - 1] \in Characters
  <2>1. k - 1 \in Cells /\ k - 1 < n
    BY <1>1 DEF Cells
  <2> QED
    BY <2>1 DEF Buffer, EndsAt
<1>4. b[0] = NUL <=> n = 0
  BY <1>1, Numbers DEF EndsAt
<1> QED
  BY <1>1, <1>2, <1>3, <1>4

\* Two buffers whose strings have the same characters have the same text.
LEMMA SameText ==
    ASSUME NEW b \in Buffer, NEW c \in Buffer, NEW n, EndsAt(b, n), EndsAt(c, n),
           \A k \in Cells : k < n => b[k] = c[k]
    PROVE  Text(b) = Text(c)
<1>1. n \in Nat /\ n < BUFFER_SIZE /\ BUFFER_SIZE \in Nat
  BY Numbers DEF EndsAt
<1>2. ASSUME NEW k \in 1 .. n PROVE Text(b)[k] = Text(c)[k]
  <2>1. k - 1 \in Cells /\ k - 1 < n
    BY <1>1 DEF Cells
  <2> QED
    BY <2>1, TextFacts
<1> QED
  BY <1>2, TextFacts, SeqEqual

\* A NUL in the first cell.
LEMMA EmptyText ==
    ASSUME NEW b \in Buffer
    PROVE  LET c == [b EXCEPT ![0] = NUL]
           IN  c \in Buffer /\ EndsAt(c, 0) /\ Text(c) = << >>
<1> DEFINE c == [b EXCEPT ![0] = NUL]
<1>1. c \in Buffer /\ c[0] = NUL
  BY Numbers DEF Buffer
<1>2. EndsAt(c, 0)
  BY <1>1, Numbers DEF EndsAt
<1> HIDE DEF c
<1>3. Text(c) \in Seq(Characters) /\ Len(Text(c)) = 0
  BY <1>1, <1>2, TextFacts
<1>4. Text(c) = << >>
  BY <1>3, EmptySeq
<1> QED
  BY <1>1, <1>2, <1>4 DEF c

\* A copy has the text of what it is copied from, whatever was there before.
LEMMA CopiedText ==
    ASSUME NEW to \in Buffer, NEW from \in Buffer, EndsAt(from, StrLen(from))
    PROVE  LET c == StrCpy(to, from)
           IN  c \in Buffer /\ EndsAt(c, StrLen(from)) /\ Text(c) = Text(from)
<1> DEFINE c == StrCpy(to, from)
           n == StrLen(from)
<1>1. n \in Nat /\ n \in Cells
  BY Numbers DEF EndsAt
<1>2. c \in Buffer
  BY DEF StrCpy, Buffer
<1>3. \A k \in Cells : k <= n => c[k] = from[k]
  BY DEF StrCpy
<1> HIDE DEF c, n
<1>4. EndsAt(from, n)
  BY DEF n
<1>5. EndsAt(c, n)
  BY <1>1, <1>3, <1>4, Numbers DEF EndsAt
<1>6. \A k \in Cells : k < n => c[k] = from[k]
  BY <1>1, <1>3, Numbers
<1>7. Text(c) = Text(from)
  BY <1>2, <1>4, <1>5, <1>6, SameText
<1> QED
  BY <1>2, <1>5, <1>7 DEF c, n

\* A character behind the string, and the NUL behind it.
LEMMA InsertedText ==
    ASSUME NEW b \in Buffer, NEW n, EndsAt(b, n), n < BUFFER_SIZE - 1, NEW x \in Characters
    PROVE  LET c == [b EXCEPT ![n] = x, ![n + 1] = NUL]
           IN  c \in Buffer /\ EndsAt(c, n + 1) /\ Text(c) = Append(Text(b), x)
<1> DEFINE c == [b EXCEPT ![n] = x, ![n + 1] = NUL]
<1>1. n \in Nat /\ n \in Cells /\ n + 1 \in Cells /\ BUFFER_SIZE \in Nat
  BY Numbers DEF EndsAt, Cells
<1>2. c \in Buffer
  BY <1>1 DEF Buffer
<1>3. c[n] = x /\ c[n + 1] = NUL /\ \A k \in Cells : k < n => c[k] = b[k]
  BY <1>1, Numbers DEF Buffer
<1> HIDE DEF c
<1>4. EndsAt(c, n + 1)
  BY <1>1, <1>3, Numbers DEF EndsAt
<1>5. /\ Text(b) \in Seq(Characters) /\ Len(Text(b)) = n
      /\ \A k \in 1 .. n : Text(b)[k] = b[k - 1]
      /\ Text(c) \in Seq(Characters) /\ Len(Text(c)) = n + 1
      /\ \A k \in 1 .. n + 1 : Text(c)[k] = c[k - 1]
  BY <1>1, <1>2, <1>4, TextFacts
<1>6. /\ Append(Text(b), x) \in Seq(Characters) /\ Len(Append(Text(b), x)) = n + 1
      /\ \A k \in 1 .. n + 1 : Append(Text(b), x)[k] = IF k = n + 1 THEN x ELSE Text(b)[k]
  BY <1>1, <1>5
<1>7. ASSUME NEW k \in 1 .. n + 1 PROVE Text(c)[k] = Append(Text(b), x)[k]
  <2>1. k - 1 \in Cells /\ (k # n + 1 => k - 1 < n /\ k \in 1 .. n)
    BY <1>1 DEF Cells
  <2>2. CASE k = n + 1
    BY <1>1, <1>3, <1>5, <1>6, <2>2
  <2>3. CASE k # n + 1
    BY <1>3, <1>5, <1>6, <2>1, <2>3
  <2> QED
    BY <2>2, <2>3
<1>8. Text(c) = Append(Text(b), x)
  BY <1>1, <1>5, <1>6, <1>7, SeqEqual
<1> QED
  BY <1>2, <1>4, <1>8 DEF c

\* A NUL in the place of the last character.
LEMMA ErasedText ==
    ASSUME NEW b \in Buffer, NEW n, EndsAt(b, n), n > 0
    PROVE  LET c == [b EXCEPT ![n - 1] = NUL]
           IN  c \in Buffer /\ EndsAt(c, n - 1) /\ Text(c) = SubSeq(Text(b), 1, n - 1)
<1> DEFINE c == [b EXCEPT ![n - 1] = NUL]
<1>1. n \in Nat /\ n \in Cells /\ n - 1 \in Cells /\ BUFFER_SIZE \in Nat
  BY Numbers DEF EndsAt, Cells
<1>2. c \in Buffer
  BY <1>1 DEF Buffer
<1>3. c[n - 1] = NUL /\ \A k \in Cells : k < n - 1 => c[k] = b[k] /\ c[k] # NUL
  BY <1>1, Numbers DEF Buffer, EndsAt
<1> HIDE DEF c
<1>4. EndsAt(c, n - 1)
  BY <1>1, <1>3 DEF EndsAt
<1>5. /\ Text(b) \in Seq(Characters) /\ Len(Text(b)) = n
      /\ \A k \in 1 .. n : Text(b)[k] = b[k - 1]
      /\ Text(c) \in Seq(Characters) /\ Len(Text(c)) = n - 1
      /\ \A k \in 1 .. n - 1 : Text(c)[k] = c[k - 1]
  BY <1>1, <1>2, <1>4, TextFacts
<1> DEFINE s == SubSeq(Text(b), 1, n - 1)
<1>6. s \in Seq(Characters) /\ Len(s) = n - 1 /\ \A k \in 1 .. n - 1 : s[k] = Text(b)[k]
  BY <1>1, <1>5
<1> HIDE DEF s
<1>7. ASSUME NEW k \in 1 .. n - 1 PROVE Text(c)[k] = s[k]
  <2>1. k - 1 \in Cells /\ k - 1 < n - 1 /\ k \in 1 .. n
    BY <1>1 DEF Cells
  <2> QED
    BY <1>3, <1>5, <1>6, <2>1
<1>8. Text(c) = s
  BY <1>5, <1>6, <1>7, SeqEqual
<1> QED
  BY <1>2, <1>4, <1>8 DEF c, s

-----------------------------------------------------------------------------
\* The remembered lines, as LineDiscipline sees them.
Past == [i \in 1 .. history_count |-> Text(history[i - 1])]

LEMMA PastFacts ==
    ASSUME EditInv
    PROVE  /\ Past \in Seq(Seq(Characters)) /\ Len(Past) = history_count
           /\ \A i \in 1 .. history_count : i - 1 \in Rows /\ Past[i] = Text(history[i - 1])
<1>1. history_count \in Nat /\ history_count <= HISTORY_SIZE /\ HISTORY_SIZE \in Nat
  BY Numbers DEF EditInv
<1>2. ASSUME NEW i \in 1 .. history_count
      PROVE  i - 1 \in Rows /\ Text(history[i - 1]) \in Seq(Characters)
  <2>1. i - 1 \in Rows
    BY <1>1 DEF Rows
  <2>2. history[i - 1] \in Buffer /\ EndsAt(history[i - 1], StrLen(history[i - 1]))
    BY <2>1 DEF EditInv
  <2> QED
    BY <2>1, <2>2, TextFacts
<1> QED
  BY <1>1, <1>2 DEF Past

\* What every editing function does: it keeps the invariant and is a step of
\* the line discipline.
EditStep == EditInv' /\ L!Next

\* A line of the user's own: the history stays as it is.
LEMMA OwnLine ==
    ASSUME EditInv, UNCHANGED <<history, history_count>>, history_index' = -1,
           input_buffer' \in Buffer, EndsAt(input_buffer', buffer_index'), Quietly
    PROVE  EditInv' /\ L!Edit(Text(input_buffer'))
<1>1. EditInv'
  BY DEF EditInv, BrowsedLineIsRow
<1> QED
  BY <1>1 DEF L!Edit, Quietly

LEMMA Idle ==
    ASSUME EditInv, Quietly,
           UNCHANGED <<input_buffer, buffer_index, history, history_count, history_index>>
    PROVE  EditStep
<1>1. EditInv'
  BY DEF EditInv, BrowsedLineIsRow
<1>2. L!OtherKey
  BY DEF L!OtherKey, Quietly
<1> QED
  BY <1>1, <1>2 DEF EditStep, L!Next

LEMMA InsertStep ==
    ASSUME EditInv, NEW x \in Characters, Insert(x), Quietly PROVE EditStep
<1> DEFINE c == [input_buffer EXCEPT ![buffer_index] = x, ![buffer_index + 1] = NUL]
<1>1. input_buffer \in Buffer /\ EndsAt(input_buffer, buffer_index)
      /\ buffer_index < BUFFER_SIZE - 1
  BY DEF EditInv, Insert
<1>2. c \in Buffer /\ EndsAt(c, buffer_index + 1) /\ Text(c) = Append(Text(input_buffer), x)
  BY <1>1, InsertedText
<1>3. /\ input_buffer' = c /\ buffer_index' = buffer_index + 1 /\ history_index' = -1
      /\ UNCHANGED <<history, history_count>>
  BY DEF Insert
<1> HIDE DEF c
<1>4. EditInv' /\ L!Edit(Append(Text(input_buffer), x))
  BY <1>2, <1>3, OwnLine
<1>5. Len(Text(input_buffer)) < BUFFER_SIZE - 1
  BY <1>1, TextFacts
<1>6. L!Type(x)
  BY <1>4, <1>5 DEF L!Type
<1> QED
  BY <1>4, <1>6 DEF EditStep, L!Next

LEMMA BackspaceStep == ASSUME EditInv, Backspace, Quietly PROVE EditStep
<1> DEFINE c == [input_buffer EXCEPT ![buffer_index - 1] = NUL]
<1>1. input_buffer \in Buffer /\ EndsAt(input_buffer, buffer_index) /\ buffer_index > 0
  BY DEF EditInv, Backspace
<1>2. /\ c \in Buffer /\ EndsAt(c, buffer_index - 1)
      /\ Text(c) = SubSeq(Text(input_buffer), 1, buffer_index - 1)
  BY <1>1, ErasedText
<1>3. /\ input_buffer' = c /\ buffer_index' = buffer_index - 1 /\ history_index' = -1
      /\ UNCHANGED <<history, history_count>>
  BY DEF Backspace
<1> HIDE DEF c
<1>4. EditInv' /\ L!Edit(SubSeq(Text(input_buffer), 1, buffer_index - 1))
  BY <1>2, <1>3, OwnLine
<1>5. Len(Text(input_buffer)) = buffer_index /\ Text(input_buffer) \in Seq(Characters)
  BY <1>1, TextFacts
<1>6. Text(input_buffer) # << >>
  BY <1>1, <1>5, EmptySeq
<1>7. L!Erase
  BY <1>4, <1>5, <1>6 DEF L!Erase
<1> QED
  BY <1>4, <1>7 DEF EditStep, L!Next

\* A remembered line takes the place of the current one.
LEMMA ShowStep ==
    ASSUME EditInv, NEW i \in Int, 0 <= i, i < history_count, ShowRow(i), Quietly,
           UNCHANGED <<history, history_count>>
    PROVE  EditInv' /\ L!Show(i + 1)
<1>1. i \in Rows /\ i \in Nat /\ history_count \in Nat
  BY Numbers DEF EditInv, Rows
<1>2. /\ input_buffer \in Buffer /\ history[i] \in Buffer
      /\ EndsAt(history[i], StrLen(history[i])) /\ history[i][0] # NUL
  BY <1>1 DEF EditInv
<1>3. /\ input_buffer' \in Buffer /\ EndsAt(input_buffer', buffer_index')
      /\ Text(input_buffer') = Text(history[i])
  BY <1>2, CopiedText DEF ShowRow
<1>4. input_buffer'[0] # NUL
  <2>1. StrLen(history[i]) # 0
    BY <1>2, TextFacts
  <2> QED
    BY <1>3, <2>1, TextFacts DEF ShowRow
<1>5. history_index' = i
  BY DEF ShowRow
<1>6. EditInv'
  BY <1>1, <1>3, <1>4, <1>5 DEF EditInv, BrowsedLineIsRow
<1>7. L!Show(i + 1)
  <2>1. Past[i + 1] = Text(history[i])
    BY <1>1 DEF Past
  <2> QED
    BY <1>3, <1>5, <2>1 DEF L!Show, Quietly, Past
<1> QED
  BY <1>6, <1>7

LEMMA RecallStep ==
    ASSUME EditInv, NEW direction \in {-1, 1}, recall_history(direction), Quietly
    PROVE  EditStep
<1>1. /\ history_count \in Nat /\ history_index \in Int /\ -1 <= history_index
      /\ history_index < history_count
  BY DEF EditInv
<1>2. UNCHANGED <<history, history_count>>
  BY DEF recall_history
<1>3. Len(Past) = history_count /\ (history_count # 0 => Past # << >>)
  BY PastFacts, EmptySeq
<1>4. CASE Unmoved
  BY <1>2, <1>4, Idle DEF Unmoved
<1>5. CASE history_count > 0 /\ ShowRow(Older)
  <2>1. Older \in Int /\ 0 <= Older /\ Older < history_count
    BY <1>1, <1>5 DEF Older
  <2>2. EditInv' /\ L!Show(Older + 1)
    BY <1>2, <1>5, <2>1, ShowStep
  <2>3. Older + 1 = IF history_index + 1 = 0 THEN Len(Past)
                    ELSE IF history_index + 1 > 1 THEN history_index + 1 - 1
                    ELSE history_index + 1
    BY <1>1, <1>3 DEF Older
  <2>4. L!Up
    BY <1>1, <1>3, <1>5, <2>2, <2>3 DEF L!Up, Past
  <2> QED
    BY <2>2, <2>4 DEF EditStep, L!Next
<1>6. CASE history_index # -1 /\ history_index + 1 < history_count /\ ShowRow(history_index + 1)
  <2>1. EditInv' /\ L!Show(history_index + 1 + 1)
    BY <1>1, <1>2, <1>6, ShowStep
  <2>2. L!Down
    BY <1>1, <1>3, <1>6, <2>1 DEF L!Down, Past
  <2> QED
    BY <2>1, <2>2 DEF EditStep, L!Next
<1>7. CASE /\ history_index # -1 /\ history_index + 1 >= history_count
           /\ history_index' = -1 /\ clear_input_buffer
  <2> DEFINE c == [input_buffer EXCEPT ![0] = NUL]
  <2>1. c \in Buffer /\ EndsAt(c, 0) /\ Text(c) = << >>
    BY EmptyText DEF EditInv
  <2>2. input_buffer' = c /\ buffer_index' = 0
    BY <1>7 DEF clear_input_buffer
  <2> HIDE DEF c
  <2>3. EditInv' /\ L!Edit(<< >>)
    BY <1>2, <1>7, <2>1, <2>2, OwnLine
  <2>4. L!Down
    BY <1>1, <1>3, <1>7, <2>3 DEF L!Down, Past
  <2> QED
    BY <2>3, <2>4 DEF EditStep, L!Next
<1>8. history_index + 1 >= history_count \/ history_index + 1 < history_count
  BY <1>1
<1> QED
  BY <1>4, <1>5, <1>6, <1>7, <1>8 DEF recall_history

-----------------------------------------------------------------------------
\* The rows of the history and how many of them are remembered lines.
RowsOK(rows, count) ==
    /\ rows \in [Rows -> Buffer]
    /\ \A i \in Rows : EndsAt(rows[i], StrLen(rows[i]))
    /\ count \in 0 .. HISTORY_SIZE
    /\ \A i \in Rows : i < count => rows[i][0] # NUL

\* A row that a remembered line is copied to.
LEMMA CopiedRow ==
    ASSUME NEW to \in Buffer, NEW from \in Buffer, EndsAt(from, StrLen(from)), from[0] # NUL
    PROVE  LET c == StrCpy(to, from)
           IN  /\ c \in Buffer /\ EndsAt(c, StrLen(c)) /\ c[0] # NUL
               /\ Text(c) = Text(from)
<1> DEFINE c == StrCpy(to, from)
<1>1. c \in Buffer /\ EndsAt(c, StrLen(from)) /\ Text(c) = Text(from)
  BY CopiedText
<1> HIDE DEF c
<1>2. StrLen(c) = StrLen(from)
  BY <1>1, StrLenIs
<1>3. StrLen(from) # 0
  BY TextFacts
<1>4. c[0] # NUL
  BY <1>1, <1>3, TextFacts
<1> QED
  BY <1>1, <1>2, <1>4 DEF c

\* Remembering a line when there is room.
LEMMA SavedBehind ==
    ASSUME EditInv, input_buffer[0] # NUL, history_count < HISTORY_SIZE,
           save_history(input_buffer)
    PROVE  RowsOK(history', history_count') /\ Past' = Append(Past, Text(input_buffer))
<1> DEFINE c == StrCpy(history[history_count], input_buffer)
           n == history_count
<1>1. n \in Nat /\ n \in Rows /\ n < HISTORY_SIZE /\ HISTORY_SIZE \in Nat
  BY Numbers DEF EditInv, Rows
<1>2. /\ input_buffer \in Buffer /\ history \in [Rows -> Buffer]
      /\ EndsAt(input_buffer, StrLen(input_buffer))
  BY StrLenIs DEF EditInv
<1>3. /\ c \in Buffer /\ EndsAt(c, StrLen(c)) /\ c[0] # NUL
      /\ Text(c) = Text(input_buffer)
  BY <1>1, <1>2, CopiedRow
<1>4. history_count' = n + 1 /\ history' = [history EXCEPT ![n] = c]
  BY DEF save_history
<1> HIDE DEF c
<1>5. /\ history' \in [Rows -> Buffer] /\ history'[n] = c
      /\ \A i \in Rows : i # n => history'[i] = history[i]
  BY <1>1, <1>2, <1>3, <1>4
<1>6. \A i \in Rows : i \in Nat /\ (i < n + 1 <=> i < n \/ i = n)
  BY <1>1, Numbers
<1>7. RowsOK(history', n + 1)
  BY <1>1, <1>3, <1>5, <1>6 DEF RowsOK, EditInv
<1> DEFINE line == Text(input_buffer)
<1>8. /\ Past \in Seq(Seq(Characters)) /\ Len(Past) = n
      /\ \A i \in 1 .. n : i - 1 \in Rows /\ Past[i] = Text(history[i - 1])
      /\ line \in Seq(Characters)
  BY <1>2, PastFacts, TextFacts
<1> HIDE DEF line
<1>9. /\ Append(Past, line) \in Seq(Seq(Characters)) /\ Len(Append(Past, line)) = n + 1
      /\ \A i \in 1 .. n + 1 : Append(Past, line)[i] = IF i = n + 1 THEN line ELSE Past[i]
  BY <1>1, <1>8
<1>10. Past' = [i \in 1 .. n + 1 |-> Text(history'[i - 1])]
  BY <1>4 DEF Past
<1>11. ASSUME NEW i \in 1 .. n + 1 PROVE Text(history'[i - 1]) = Append(Past, line)[i]
  <2>1. CASE i = n + 1
    BY <1>1, <1>3, <1>5, <1>9, <2>1 DEF line
  <2>2. CASE i # n + 1
    <3>1. i \in 1 .. n /\ i - 1 # n
      BY <1>1, <2>2
    <3> QED
      BY <1>5, <1>8, <1>9, <2>2, <3>1
  <2> QED
    BY <2>1, <2>2
<1>12. Past' = Append(Past, line)
  <2> DEFINE old == Append(Past, line)
  <2>1. old \in Seq(Seq(Characters)) /\ Len(old) = n + 1
    BY <1>9
  <2> HIDE DEF old
  <2>2. old = [i \in 1 .. n + 1 |-> old[i]]
    BY <2>1
  <2>3. \A i \in 1 .. n + 1 : Text(history'[i - 1]) = old[i]
    BY <1>11 DEF old
  <2>4. Past' = old
    BY <1>10, <2>2, <2>3
  <2> QED
    BY <2>4 DEF old
<1> QED
  BY <1>4, <1>7, <1>12 DEF line

\* Remembering a line when every row is in use.
LEMMA SavedLast ==
    ASSUME EditInv, input_buffer[0] # NUL, ~(history_count < HISTORY_SIZE),
           save_history(input_buffer)
    PROVE  RowsOK(history', history_count') /\ Past' = Append(Tail(Past), Text(input_buffer))
<1> DEFINE n == HISTORY_SIZE
           From(i) == IF i = n - 1 THEN input_buffer ELSE history[i + 1]
<1>1. n \in Nat /\ n > 0 /\ history_count = n /\ history_count' = n
  BY Numbers DEF EditInv, save_history
<1>2. /\ input_buffer \in Buffer /\ history \in [Rows -> Buffer]
      /\ EndsAt(input_buffer, StrLen(input_buffer))
  BY StrLenIs DEF EditInv
<1>3. ASSUME NEW i \in Rows
      PROVE  /\ From(i) \in Buffer /\ EndsAt(From(i), StrLen(From(i))) /\ From(i)[0] # NUL
             /\ i # n - 1 => i + 1 \in Rows
  <2>1. CASE i = n - 1
    BY <1>2, <2>1
  <2>2. CASE i # n - 1
    <3>1. i + 1 \in Rows /\ i + 1 < n
      BY <1>1, <2>2, Numbers DEF Rows
    <3> QED
      BY <1>1, <1>2, <2>2, <3>1 DEF EditInv
  <2> QED
    BY <2>1, <2>2
<1>4. history' = [i \in Rows |-> StrCpy(history[i], From(i))]
  BY DEF save_history
<1> HIDE DEF From
<1>5. ASSUME NEW i \in Rows
      PROVE  /\ history'[i] \in Buffer /\ EndsAt(history'[i], StrLen(history'[i]))
             /\ history'[i][0] # NUL /\ Text(history'[i]) = Text(From(i))
  <2>1. history'[i] = StrCpy(history[i], From(i)) /\ history[i] \in Buffer
    BY <1>2, <1>4
  <2> QED
    BY <1>3, <2>1, CopiedRow
<1>6. RowsOK(history', n)
  <2>1. history' \in [Rows -> Buffer]
    BY <1>4, <1>5
  <2> QED
    BY <1>1, <1>5, <2>1 DEF RowsOK
<1> DEFINE line == Text(input_buffer)
           old == Append(Tail(Past), line)
<1>7. /\ Past \in Seq(Seq(Characters)) /\ Len(Past) = n /\ Past # << >>
      /\ \A i \in 1 .. n : i - 1 \in Rows /\ Past[i] = Text(history[i - 1])
      /\ line \in Seq(Characters)
  BY <1>1, <1>2, PastFacts, TextFacts, EmptySeq
<1> HIDE DEF line
<1>8. /\ Tail(Past) \in Seq(Seq(Characters)) /\ Len(Tail(Past)) = n - 1
      /\ \A i \in 1 .. n - 1 : Tail(Past)[i] = Past[i + 1]
  BY <1>1, <1>7, HeadTailProperties
<1>9. /\ old \in Seq(Seq(Characters)) /\ Len(old) = n
      /\ \A i \in 1 .. n : old[i] = IF i = n THEN line ELSE Past[i + 1]
  BY <1>1, <1>7, <1>8
<1> HIDE DEF old
<1>10. Past' = [i \in 1 .. n |-> Text(history'[i - 1])]
  BY <1>1 DEF Past
<1>11. ASSUME NEW i \in 1 .. n PROVE Text(history'[i - 1]) = old[i]
  <2>1. i - 1 \in Rows /\ Text(history'[i - 1]) = Text(From(i - 1))
    BY <1>5, <1>7
  <2>2. CASE i = n
    BY <1>9, <2>1, <2>2 DEF From, line
  <2>3. CASE i # n
    <3>1. i + 1 \in 1 .. n /\ i - 1 # n - 1 /\ (i + 1) - 1 = (i - 1) + 1
      BY <1>1, <2>3
    <3> QED
      BY <1>7, <1>9, <2>1, <2>3, <3>1 DEF From
  <2> QED
    BY <2>2, <2>3
<1>12. old = [i \in 1 .. n |-> old[i]]
  BY <1>9
<1>13. Past' = old
  BY <1>10, <1>11, <1>12
<1> QED
  BY <1>1, <1>6, <1>13 DEF old, line

\* A line ends at buffer_index already: closing it stores what is there.
LEMMA LineIsEnded == ASSUME EditInv PROVE EndedLine = input_buffer
<1>1. input_buffer \in Buffer /\ input_buffer[buffer_index] = NUL
  BY DEF EditInv, EndsAt
<1> QED
  BY <1>1 DEF EndedLine, Buffer

LEMMA EnterStep == ASSUME EditInv, handle_enter PROVE EditStep
<1> DEFINE c == [input_buffer EXCEPT ![0] = NUL]
<1>1. c \in Buffer /\ EndsAt(c, 0) /\ Text(c) = << >>
  BY EmptyText DEF EditInv
<1>2. input_buffer' = c /\ buffer_index' = 0
  BY LineIsEnded DEF handle_enter
<1> HIDE DEF c
<1>3. /\ input_buffer \in Buffer /\ EndsAt(input_buffer, buffer_index)
      /\ Text(input_buffer) \in Seq(Characters) /\ Len(Text(input_buffer)) = buffer_index
      /\ (input_buffer[0] = NUL <=> buffer_index = 0) /\ buffer_index \in Nat
  BY TextFacts, Numbers DEF EditInv, EndsAt
<1>4. Text(input_buffer) = << >> <=> buffer_index = 0
  BY <1>3, EmptySeq
<1>5. CASE /\ buffer_index = 0 /\ executed' = << >>
           /\ UNCHANGED <<history, history_count, history_index>>
  <2>1. history_index = -1
    BY <1>3, <1>5 DEF EditInv, BrowsedLineIsRow
  <2>2. EditInv'
    BY <1>1, <1>2, <1>5, <2>1 DEF EditInv, BrowsedLineIsRow
  <2>3. L!Enter
    BY <1>1, <1>2, <1>4, <1>5, <2>1 DEF L!Enter
  <2> QED
    BY <2>2, <2>3 DEF EditStep, L!Next
<1>6. CASE buffer_index > 0 /\ executed' = Text(input_buffer) /\ save_history(input_buffer)
  <2>1. input_buffer[0] # NUL /\ Text(input_buffer) # << >> /\ history_index' = -1
    BY <1>3, <1>4, <1>6 DEF save_history
  <2>2. /\ RowsOK(history', history_count')
        /\ Past' = IF history_count < HISTORY_SIZE THEN Append(Past, Text(input_buffer))
                   ELSE Append(Tail(Past), Text(input_buffer))
    <3>1. CASE history_count < HISTORY_SIZE
      BY <1>6, <2>1, <3>1, SavedBehind
    <3>2. CASE ~(history_count < HISTORY_SIZE)
      BY <1>6, <2>1, <3>2, SavedLast
    <3> QED
      BY <3>1, <3>2
  <2>3. EditInv'
    <3>1. BrowsedLineIsRow'
      BY <2>1 DEF BrowsedLineIsRow
    <3>2. input_buffer' \in Buffer /\ EndsAt(input_buffer', buffer_index')
      BY <1>1, <1>2
    <3>3. history_count' \in Nat
      BY <2>2, Numbers DEF RowsOK
    <3>4. history_index' \in -1 .. (history_count' - 1)
      <4>1. \A m \in Nat : -1 \in -1 .. (m - 1)
        OBVIOUS
      <4> QED
        BY <2>1, <3>3, <4>1
    <3>5. RowsOK(history', history_count')
      BY <2>2
    <3> QED
      BY <3>1, <3>2, <3>4, <3>5 DEF EditInv, RowsOK
  <2>4. Len(Past) = history_count
    BY PastFacts
  <2>5. L!Enter
    <3>1. -1 + 1 = 0
      OBVIOUS
    <3>2. /\ Text(input_buffer') = << >> /\ history_index' + 1 = 0
          /\ executed' = Text(input_buffer)
      BY <1>1, <1>2, <1>6, <2>1, <3>1
    <3>3. Past' = IF Text(input_buffer) = << >> THEN Past
                  ELSE IF Len(Past) < HISTORY_SIZE THEN Append(Past, Text(input_buffer))
                  ELSE Append(Tail(Past), Text(input_buffer))
      BY <2>1, <2>2, <2>4
    <3> QED
      BY <3>2, <3>3 DEF L!Enter, Past
  <2> QED
    BY <2>3, <2>5 DEF EditStep, L!Next
<1> QED
  BY <1>5, <1>6, LineIsEnded DEF handle_enter

-----------------------------------------------------------------------------
\* The handler, scancode by scancode.
LEMMA HandlerStep ==
    ASSUME EditInv, shift_pressed \in BOOLEAN, NEW scancode, keyboard_handler(scancode)
    PROVE  EditStep
<1>1. CASE NoEdit
  BY <1>1, Idle DEF NoEdit, Unmoved
<1>2. CASE handle_enter
  BY <1>2, EnterStep
<1>3. ASSUME NEW direction \in {-1, 1}, recall_history(direction), Quietly PROVE EditStep
  BY <1>3, RecallStep
<1>4. CASE Backspace /\ Quietly
  BY <1>4, BackspaceStep
<1>5. CASE scancode \in Letters /\ Insert(Character(scancode)) /\ Quietly
  <2>1. Character(scancode) \in Characters
    BY <1>5 DEF Character, Characters
  <2> QED
    BY <1>5, <2>1, InsertStep
<1> QED
  BY <1>1, <1>2, <1>3, <1>4, <1>5
     DEF keyboard_handler, HandlePrefix, HandleExtended, HandleShift, HandleKey

LEMMA EditNext == KeysOK /\ EditInv /\ [Next]_vars => EditInv' /\ (Next => L!Next)
<1> SUFFICES ASSUME KeysOK, EditInv, [Next]_vars PROVE EditInv' /\ (Next => L!Next)
  OBVIOUS
<1>1. CASE Next
  <2>1. PICK scancode : keyboard_handler(scancode)
    BY <1>1 DEF Next, Key, ExtendedKey, ShiftKey, SecondScancode, Sends
  <2>2. EditStep
    BY <2>1, HandlerStep DEF KeysOK
  <2> QED
    BY <2>2 DEF EditStep
<1>2. CASE ~Next
  BY <1>2 DEF vars, editor, EditInv, BrowsedLineIsRow
<1> QED
  BY <1>1, <1>2

LEMMA InitEdit == Init => EditInv /\ L!Init
<1> SUFFICES ASSUME Init PROVE EditInv /\ L!Init
  OBVIOUS
<1>1. Empty \in Buffer /\ EndsAt(Empty, 0)
  BY Numbers DEF Empty, Buffer, EndsAt
<1>2. StrLen(Empty) = 0
  BY <1>1, StrLenIs
<1>3. Text(Empty) = << >>
  BY <1>1, TextFacts, EmptySeq
<1>4. EditInv
  BY <1>1, <1>2, Numbers DEF Init, EditInv, BrowsedLineIsRow
<1>5. Past = << >>
  <2>1. Len(Past) = 0 /\ Past \in Seq(Seq(Characters))
    BY <1>4, PastFacts DEF Init
  <2> QED
    BY <2>1, EmptySeq
<1>6. L!Init
  BY <1>3, <1>5 DEF Init, L!Init, Past
<1> QED
  BY <1>4, <1>6

LEMMA EditInvariant == Spec => []EditInv
BY KeysInvariant, InitEdit, EditNext, PTL DEF Spec

\* The buffers hold characters, the indexes stay inside them: the NUL behind
\* the line always has a cell and no recall goes past a row.
THEOREM TypeCorrect == Spec => []TypeOK
<1>1. KeysOK /\ EditInv => TypeOK
  BY DEF KeysOK, EditInv, TypeOK, Buffer, EndsAt
<1> QED
  BY <1>1, KeysInvariant, EditInvariant, PTL

\* The row that history_index points at is the line on the screen, which is why
\* handle_enter may leave history_index alone when the line is empty.
THEOREM RowIsLine == Spec => []BrowsedLineIsRow
<1>1. EditInv => BrowsedLineIsRow
  BY DEF EditInv
<1> QED
  BY <1>1, EditInvariant, PTL

\* The editor implements the line discipline: every scancode takes the strings
\* in the buffer and the rows, stale characters behind their NULs or not, to
\* the lines LineDiscipline gives, for all sizes and keys.
THEOREM EditorIsLineDiscipline == Spec => LineDisciplineSpec
<1>1. KeysOK /\ EditInv /\ [Next]_vars =>
         [L!Next]_<<Text(input_buffer), Past, history_index + 1, executed>>
  <2>1. CASE Next
    BY <2>1, EditNext
  <2>2. CASE UNCHANGED vars
    BY <2>2 DEF vars, editor, Past
  <2> QED
    BY <2>1, <2>2
<1>2. Init => L!Init
  BY InitEdit
<1>3. Spec => [][L!Next]_<<Text(input_buffer), Past, history_index + 1, executed>>
  BY <1>1, KeysInvariant, EditInvariant, PTL DEF Spec
<1> QED
  BY <1>2, <1>3, PTL DEF Spec, LineDisciplineSpec, L!Spec, Past

-----------------------------------------------------------------------------
\* The screen.  What is printed: the characters of the line, of messages and of
\* empty cells, and the two that move the cursor only.
Glyphs == Characters \cup {<<0, TRUE>>, <<57, FALSE>>}
Controls == {<<EnterKey, FALSE>>, <<BackspaceKey, FALSE>>}
Screens == [cells : [Con!VgaCells -> Glyphs],
            cursor_x : 0 .. (VGA_WIDTH - 1), cursor_y : 0 .. (VGA_HEIGHT - 1)]

Writes(w, con, text) ==
    /\ w = [k \in 0 .. Len(text) |-> w[k]]
    /\ w[0] = con
    /\ \A k \in 1 .. Len(text) : w[k] = Con!vga_put_char(w[k - 1], text[k])

LEMMA WriteIs ==
    ASSUME NEW con, NEW text, Len(text) \in Nat, NEW w, Writes(w, con, text)
    PROVE  Con!vga_write(con, text) = w[Len(text)]
<1> DEFINE Body(g) == [k \in 0 .. Len(text) |-> IF k = 0 THEN con ELSE Con!vga_put_char(g[k - 1], text[k])]
           Written == CHOOSE g : g = Body(g)
<1>1. Con!vga_write(con, text) = Written[Len(text)]
  BY DEF Con!vga_write
<1>2. w = Body(w)
  BY DEF Writes
<1>3. Written = Body(Written)
  BY <1>2
<1> HIDE DEF Written
<1>4. Written[0] = con /\ \A k \in 1 .. Len(text) : Written[k] = Con!vga_put_char(Written[k - 1], text[k])
  BY <1>3
<1>5. w[0] = con /\ \A k \in 1 .. Len(text) : w[k] = Con!vga_put_char(w[k - 1], text[k])
  BY DEF Writes
<1> DEFINE n == Len(text)
           T == {k \in 0 .. n : Written[k] = w[k]}
<1>6. 0 \in T
  BY <1>4, <1>5
<1>7. ASSUME NEW k \in 1 .. n, k - 1 \in T PROVE k \in T
  <2>1. k \in 0 .. n /\ Written[k - 1] = w[k - 1]
    BY <1>7
  <2>2. Written[k] = w[k]
    BY <1>4, <1>5, <2>1
  <2> QED
    BY <2>1, <2>2
<1>8. n \in T
  <2> HIDE DEF T
  <2>1. n \in Nat
    OBVIOUS
  <2> HIDE DEF n
  <2>2. 0 .. n \subseteq T
    BY <1>6, <1>7, <2>1, AllPositions
  <2> QED
    BY <2>1, <2>2
<1> QED
  BY <1>1, <1>8

-----------------------------------------------------------------------------
\* The cells of a row.
LEMMA Grid ==
    ASSUME NEW y \in 0 .. (VGA_HEIGHT - 1)
    PROVE  /\ VGA_WIDTH \in Nat /\ VGA_HEIGHT \in Nat /\ VGA_WIDTH * VGA_HEIGHT \in Nat
           /\ y * VGA_WIDTH \in Nat
           /\ (y + 1) * VGA_WIDTH = y * VGA_WIDTH + VGA_WIDTH
           /\ y * VGA_WIDTH + VGA_WIDTH <= VGA_WIDTH * VGA_HEIGHT
           /\ (VGA_HEIGHT - 1) * VGA_WIDTH = VGA_WIDTH * VGA_HEIGHT - VGA_WIDTH
<1>1. VGA_WIDTH \in Nat /\ VGA_HEIGHT \in Nat /\ y \in Nat /\ VGA_HEIGHT - 1 \in Nat
  BY LineEditorAssumption
<1>2. \A a, b \in Nat : a * b \in Nat /\ a * b = b * a
  OBVIOUS
<1>3. \A a, b \in Nat : (a + 1) * b = a * b + b
  OBVIOUS
<1>4. PICK d \in Nat : VGA_HEIGHT = (y + 1) + d
  <2>1. VGA_HEIGHT - (y + 1) \in Nat /\ VGA_HEIGHT = (y + 1) + (VGA_HEIGHT - (y + 1))
    BY <1>1
  <2> QED
    BY <2>1
<1>5. \A a, b, c \in Nat : (a + b) * c = a * c + b * c
  OBVIOUS
<1>6. VGA_HEIGHT * VGA_WIDTH = (y + 1) * VGA_WIDTH + d * VGA_WIDTH
  BY <1>1, <1>4, <1>5
<1>7. VGA_HEIGHT * VGA_WIDTH = (VGA_HEIGHT - 1) * VGA_WIDTH + VGA_WIDTH
  <2>1. (VGA_HEIGHT - 1) + 1 = VGA_HEIGHT
    BY <1>1
  <2> QED
    BY <1>1, <1>3, <2>1
<1>8. d * VGA_WIDTH \in Nat /\ (VGA_HEIGHT - 1) * VGA_WIDTH \in Nat /\ (y + 1) * VGA_WIDTH = y * VGA_WIDTH + VGA_WIDTH
  BY <1>1, <1>2, <1>3
<1>9. VGA_WIDTH * VGA_HEIGHT = VGA_HEIGHT * VGA_WIDTH /\ VGA_WIDTH * VGA_HEIGHT \in Nat /\ y * VGA_WIDTH \in Nat
  BY <1>1, <1>2
<1> QED
  BY <1>1, <1>6, <1>7, <1>8, <1>9

Row(con) == con.cursor_y * VGA_WIDTH

\* The cursor is in the row, and the cells of the row are on the screen.
LEMMA CursorFacts ==
    ASSUME NEW con \in Screens
    PROVE  /\ VGA_WIDTH \in Nat \ {0} /\ VGA_HEIGHT \in Nat \ {0} /\ VGA_WIDTH * VGA_HEIGHT \in Nat
           /\ Row(con) \in Nat /\ con.cursor_x \in Nat /\ con.cursor_x < VGA_WIDTH
           /\ con.cursor_y \in Nat /\ con.cursor_y < VGA_HEIGHT
           /\ Con!Cursor(con) = Row(con) + con.cursor_x
           /\ Row(con) + VGA_WIDTH <= VGA_WIDTH * VGA_HEIGHT
           /\ (con.cursor_y + 1) * VGA_WIDTH = Row(con) + VGA_WIDTH
           /\ (VGA_HEIGHT - 1) * VGA_WIDTH = VGA_WIDTH * VGA_HEIGHT - VGA_WIDTH
           /\ \A i : i \in Con!VgaCells <=> i \in Nat /\ i < VGA_WIDTH * VGA_HEIGHT
           /\ con.cells \in [Con!VgaCells -> Glyphs]
<1>1. /\ con.cursor_x \in 0 .. (VGA_WIDTH - 1) /\ con.cursor_y \in 0 .. (VGA_HEIGHT - 1)
      /\ con.cells \in [Con!VgaCells -> Glyphs]
  BY DEF Screens
<1>2. /\ VGA_WIDTH \in Nat \ {0} /\ VGA_HEIGHT \in Nat \ {0}
  BY <1>1, LineEditorAssumption
<1> DEFINE area == VGA_WIDTH * VGA_HEIGHT
<1>3. area \in Nat /\ Row(con) \in Nat
      /\ (con.cursor_y + 1) * VGA_WIDTH = Row(con) + VGA_WIDTH
      /\ Row(con) + VGA_WIDTH <= area
      /\ (VGA_HEIGHT - 1) * VGA_WIDTH = area - VGA_WIDTH
  BY <1>1, Grid DEF Row
<1>4. Con!VgaCells = 0 .. (area - 1) /\ Con!Cursor(con) = Row(con) + con.cursor_x
  BY DEF Con!VgaCells, Con!Cursor, Row
<1> HIDE DEF area
<1>5. \A i : i \in Con!VgaCells <=> i \in Nat /\ i < area
  BY <1>3, <1>4
<1> QED
  BY SMTT(20), <1>1, <1>2, <1>3, <1>4, <1>5 DEF area

\* The character an empty cell shows.
Blank == <<57, FALSE>>

Up(cells) == [i \in Con!VgaCells |-> IF i + VGA_WIDTH \in Con!VgaCells
                                     THEN cells[i + VGA_WIDTH] ELSE Blank]

\* The start of the row below, which is the last one again at the end of the screen.
RowBelow(cells, y) == IF y + 1 < VGA_HEIGHT THEN Con!State(cells, 0, y + 1)
                      ELSE Con!State(Up(cells), 0, VGA_HEIGHT - 1)

LEMMA CharactersDiffer ==
    /\ Glyphs \cap Controls = {} /\ Blank \in Glyphs
    /\ <<EnterKey, FALSE>> # <<BackspaceKey, FALSE>>
<1>1. ASSUME NEW c \in Glyphs PROVE c \notin Controls
  <2>1. CASE c \in Characters
    <3>1. PICK k \in Letters, b \in BOOLEAN : c = <<k, b>>
      BY <2>1 DEF Characters
    <3>2. k # EnterKey /\ k # BackspaceKey
      BY LineEditorAssumption DEF EnterKey, BackspaceKey
    <3> QED
      BY <3>1, <3>2 DEF Controls
  <2>2. CASE c \in {<<0, TRUE>>, <<57, FALSE>>}
    <3>1. /\ <<0, TRUE>> # <<EnterKey, FALSE>> /\ <<0, TRUE>> # <<BackspaceKey, FALSE>>
          /\ <<57, FALSE>> # <<EnterKey, FALSE>> /\ <<57, FALSE>> # <<BackspaceKey, FALSE>>
      BY DEF EnterKey, BackspaceKey
    <3> QED
      BY <2>2, <3>1 DEF Controls
  <2> QED
    BY <2>1, <2>2 DEF Glyphs
<1>2. Blank \in Glyphs /\ <<EnterKey, FALSE>> # <<BackspaceKey, FALSE>>
  BY DEF Glyphs, Blank, EnterKey, BackspaceKey
<1> QED
  BY <1>1, <1>2

\* What print_char does with the three kinds of characters.
LEMMA PutNewline ==
    ASSUME NEW con \in Screens
    PROVE  Con!vga_put_char(con, <<EnterKey, FALSE>>) = RowBelow(con.cells, con.cursor_y)
<1>1. /\ VGA_WIDTH \in Nat \ {0} /\ VGA_HEIGHT \in Nat \ {0} /\ con.cursor_y \in Nat
      /\ con.cursor_y < VGA_HEIGHT
  BY CursorFacts
<1> DEFINE s == Con!State(con.cells, 0, con.cursor_y + 1)
<1>2. Con!Struck(con, <<EnterKey, FALSE>>) = s
  BY CharactersDiffer DEF Con!Struck
<1>3. s.cells = con.cells /\ s.cursor_x = 0 /\ s.cursor_y = con.cursor_y + 1
  BY DEF Con!State
<1>4. Con!vga_put_char(con, <<EnterKey, FALSE>>) = Con!scroll_if_needed(Con!Wrapped(s))
  BY <1>2 DEF Con!vga_put_char
<1> HIDE DEF s
<1>5. Con!Wrapped(s) = s
  BY <1>1, <1>3 DEF Con!Wrapped
<1>6. Con!scroll_if_needed(s) = IF s.cursor_y < VGA_HEIGHT THEN s
                                ELSE Con!State(Up(s.cells), s.cursor_x, VGA_HEIGHT - 1)
  BY DEF Con!scroll_if_needed, Up, Blank
<1> QED
  BY <1>3, <1>4, <1>5, <1>6 DEF RowBelow, s

LEMMA PutRubout ==
    ASSUME NEW con \in Screens
    PROVE  Con!vga_put_char(con, <<BackspaceKey, FALSE>>) =
              IF con.cursor_x = 0 THEN con
              ELSE Con!State([con.cells EXCEPT ![Con!Cursor(con) - 1] = Blank],
                             con.cursor_x - 1, con.cursor_y)
<1>1. /\ VGA_WIDTH \in Nat \ {0} /\ VGA_HEIGHT \in Nat \ {0} /\ con.cursor_y \in Nat
      /\ con.cursor_y < VGA_HEIGHT /\ con.cursor_x \in Nat /\ con.cursor_x < VGA_WIDTH
  BY CursorFacts
<1> DEFINE s == IF con.cursor_x = 0 THEN con
              ELSE Con!State([con.cells EXCEPT ![Con!Cursor(con) - 1] = Blank],
                             con.cursor_x - 1, con.cursor_y)
<1>2. Con!Struck(con, <<BackspaceKey, FALSE>>) = s
  <2>1. con.cursor_x = 0 \/ con.cursor_x > 0
    BY <1>1
  <2> QED
    BY <2>1, CharactersDiffer DEF Con!Struck, Blank
<1>3. s.cursor_x \in Nat /\ s.cursor_x < VGA_WIDTH /\ s.cursor_y < VGA_HEIGHT
  BY <1>1 DEF Con!State
<1> HIDE DEF s
<1>4. Con!Wrapped(s) = s /\ Con!scroll_if_needed(s) = s
  BY <1>1, <1>3 DEF Con!Wrapped, Con!scroll_if_needed
<1> QED
  BY <1>2, <1>4 DEF Con!vga_put_char, s

LEMMA PutGlyph ==
    ASSUME NEW con \in Screens, NEW c \in Glyphs
    PROVE  LET cells == [con.cells EXCEPT ![Con!Cursor(con)] = c]
           IN  Con!vga_put_char(con, c) =
                  IF con.cursor_x + 1 < VGA_WIDTH
                  THEN Con!State(cells, con.cursor_x + 1, con.cursor_y)
                  ELSE RowBelow(cells, con.cursor_y)
<1> DEFINE cells == [con.cells EXCEPT ![Con!Cursor(con)] = c]
           s == Con!State(cells, con.cursor_x + 1, con.cursor_y)
           t == Con!State(cells, 0, con.cursor_y + 1)
<1>1. /\ VGA_WIDTH \in Nat \ {0} /\ VGA_HEIGHT \in Nat \ {0} /\ con.cursor_y \in Nat
      /\ con.cursor_y < VGA_HEIGHT /\ con.cursor_x \in Nat /\ con.cursor_x < VGA_WIDTH
  BY CursorFacts
<1>2. Con!Struck(con, c) = s
  BY CharactersDiffer DEF Con!Struck, Controls
<1> HIDE DEF cells
<1>3. /\ s.cells = cells /\ s.cursor_x = con.cursor_x + 1 /\ s.cursor_y = con.cursor_y
      /\ t.cells = cells /\ t.cursor_x = 0 /\ t.cursor_y = con.cursor_y + 1
  BY DEF Con!State
<1>4. Con!vga_put_char(con, c) = Con!scroll_if_needed(Con!Wrapped(s))
  BY <1>2 DEF Con!vga_put_char
<1>5. Con!Wrapped(s) = IF s.cursor_x >= VGA_WIDTH THEN t ELSE s
  BY <1>3 DEF Con!Wrapped
<1> HIDE DEF s, t
<1>6. CASE con.cursor_x + 1 < VGA_WIDTH
  <2>1. Con!Wrapped(s) = s /\ Con!scroll_if_needed(s) = s
    BY <1>1, <1>3, <1>5, <1>6 DEF Con!scroll_if_needed
  <2> QED
    BY <1>4, <1>6, <2>1 DEF s, cells
<1>7. CASE ~(con.cursor_x + 1 < VGA_WIDTH)
  <2>1. Con!Wrapped(s) = t
    BY <1>1, <1>3, <1>5, <1>7
  <2>2. Con!scroll_if_needed(t) = IF t.cursor_y < VGA_HEIGHT THEN t
                                  ELSE Con!State(Up(t.cells), t.cursor_x, VGA_HEIGHT - 1)
    BY DEF Con!scroll_if_needed, Up, Blank
  <2>3. Con!scroll_if_needed(t) = RowBelow(cells, con.cursor_y)
    BY <1>3, <2>2 DEF RowBelow, t
  <2> QED
    BY <1>4, <1>7, <2>1, <2>3 DEF cells
<1> QED
  BY <1>6, <1>7

-----------------------------------------------------------------------------
\* Nothing is on the screen from cell n on.
BlankFrom(cells, n) == \A i \in Con!VgaCells : i >= n => cells[i] = Blank

\* A screen with nothing behind the cursor.
Ahead(con) == con \in Screens /\ BlankFrom(con.cells, Con!Cursor(con))

\* A screen that shows text in the row of the cursor and nothing behind it.
Shows(con, text) ==
    /\ con \in Screens
    /\ con.cursor_x = Len(text)
    /\ \A i \in Con!VgaCells :
          i >= Row(con) => con.cells[i] = IF i - Row(con) < Len(text)
                                          THEN text[i - Row(con) + 1] ELSE Blank

LEMMA NextRow ==
    ASSUME NEW cells \in [Con!VgaCells -> Glyphs], NEW con \in Screens,
           BlankFrom(cells, Row(con) + VGA_WIDTH)
    PROVE  Ahead(RowBelow(cells, con.cursor_y)) /\ RowBelow(cells, con.cursor_y).cursor_x = 0
<1> DEFINE area == VGA_WIDTH * VGA_HEIGHT
           y == con.cursor_y
           start == Row(con)
<1>1. /\ VGA_WIDTH \in Nat \ {0} /\ VGA_HEIGHT \in Nat \ {0} /\ area \in Nat
      /\ start \in Nat /\ y \in Nat /\ y < VGA_HEIGHT
      /\ start + VGA_WIDTH <= area
      /\ (y + 1) * VGA_WIDTH = start + VGA_WIDTH
      /\ (VGA_HEIGHT - 1) * VGA_WIDTH = area - VGA_WIDTH
      /\ \A i : i \in Con!VgaCells <=> i \in Nat /\ i < area
  BY CursorFacts
<1>2. Blank \in Glyphs
  BY CharactersDiffer
<1> DEFINE next == RowBelow(cells, y)
<1>3. CASE y + 1 < VGA_HEIGHT
  <2>1. next = [cells |-> cells, cursor_x |-> 0, cursor_y |-> y + 1]
    BY <1>3 DEF RowBelow, Con!State
  <2> HIDE DEF next, area, y, start
  <2>2. y + 1 \in 0 .. (VGA_HEIGHT - 1) /\ 0 \in 0 .. (VGA_WIDTH - 1)
    BY <1>1, <1>3
  <2>3. next \in Screens
    BY <2>1, <2>2 DEF Screens
  <2>4. Con!Cursor(next) = start + VGA_WIDTH
    BY <1>1, <2>1 DEF Con!Cursor
  <2> QED
    BY <2>1, <2>3, <2>4 DEF Ahead, start, next, y
<1>4. CASE ~(y + 1 < VGA_HEIGHT)
  <2>1. next = [cells |-> Up(cells), cursor_x |-> 0, cursor_y |-> VGA_HEIGHT - 1]
    BY <1>4 DEF RowBelow, Con!State
  <2> HIDE DEF next, area, y, start
  <2>2. VGA_HEIGHT - 1 \in 0 .. (VGA_HEIGHT - 1) /\ 0 \in 0 .. (VGA_WIDTH - 1)
    BY <1>1
  <2>3. Up(cells) \in [Con!VgaCells -> Glyphs]
    BY <1>2 DEF Up
  <2>4. next \in Screens
    BY <2>1, <2>2, <2>3 DEF Screens
  <2>5. Con!Cursor(next) = area - VGA_WIDTH
    BY <1>1, <2>1 DEF Con!Cursor
  <2>6. ASSUME NEW i \in Con!VgaCells, i >= area - VGA_WIDTH PROVE Up(cells)[i] = Blank
    <3>1. i + VGA_WIDTH \notin Con!VgaCells
      BY <1>1, <2>6
    <3> QED
      BY <3>1 DEF Up
  <2> QED
    BY <2>1, <2>4, <2>5, <2>6 DEF Ahead, BlankFrom, next, y
<1> QED
  BY <1>3, <1>4

\* Whatever is printed, the cursor stays on the screen and nothing is behind it.
LEMMA PutAhead ==
    ASSUME NEW con, Ahead(con), NEW c \in Glyphs \cup Controls
    PROVE  /\ Ahead(Con!vga_put_char(con, c))
           /\ c = <<EnterKey, FALSE>> => Con!vga_put_char(con, c).cursor_x = 0
<1> DEFINE a == Con!Cursor(con)
           x == con.cursor_x
           y == con.cursor_y
           area == VGA_WIDTH * VGA_HEIGHT
           put == Con!vga_put_char(con, c)
<1>1. con \in Screens /\ BlankFrom(con.cells, a)
  BY DEF Ahead
<1>2. /\ VGA_WIDTH \in Nat \ {0} /\ VGA_HEIGHT \in Nat \ {0} /\ area \in Nat
      /\ Row(con) \in Nat /\ x \in Nat /\ x < VGA_WIDTH /\ a = Row(con) + x
      /\ y \in Nat /\ y < VGA_HEIGHT
      /\ Row(con) + VGA_WIDTH <= area
      /\ \A i : i \in Con!VgaCells <=> i \in Nat /\ i < area
      /\ con.cells \in [Con!VgaCells -> Glyphs]
      /\ x \in 0 .. (VGA_WIDTH - 1) /\ y \in 0 .. (VGA_HEIGHT - 1)
  BY <1>1, CursorFacts DEF Screens
<1>3. CASE c = <<EnterKey, FALSE>>
  <2>1. BlankFrom(con.cells, Row(con) + VGA_WIDTH)
    BY <1>1, <1>2 DEF BlankFrom
  <2> QED
    BY <1>1, <1>2, <1>3, <2>1, PutNewline, NextRow
<1>4. CASE c = <<BackspaceKey, FALSE>>
  <2>1. CASE x = 0
    BY <1>1, <1>4, <2>1, PutRubout, CharactersDiffer
  <2>2. CASE x # 0
    <3> DEFINE cells == [con.cells EXCEPT ![a - 1] = Blank]
    <3>1. put = [cells |-> cells, cursor_x |-> x - 1, cursor_y |-> y]
      BY <1>1, <1>4, <2>2, PutRubout DEF Con!State
    <3>2. cells \in [Con!VgaCells -> Glyphs]
      BY <1>2, CharactersDiffer
    <3>3. BlankFrom(cells, a - 1)
      BY <1>1, <1>2 DEF BlankFrom
    <3> HIDE DEF cells, put, x, y, a
    <3>4. x - 1 \in 0 .. (VGA_WIDTH - 1)
      BY <1>2, <2>2
    <3>5. put \in Screens
      BY <1>2, <3>1, <3>2, <3>4 DEF Screens
    <3>6. Con!Cursor(put) = a - 1
      BY <1>2, <3>1 DEF Con!Cursor, Row, y
    <3> QED
      BY <1>4, <3>1, <3>3, <3>5, <3>6, CharactersDiffer DEF Ahead, put
  <2> QED
    BY <2>1, <2>2
<1>5. CASE c \in Glyphs
  <2> DEFINE cells == [con.cells EXCEPT ![a] = c]
  <2>1. cells \in [Con!VgaCells -> Glyphs]
    BY <1>2, <1>5
  <2>2. BlankFrom(cells, a + 1)
    BY <1>1, <1>2 DEF BlankFrom
  <2>3. put = IF x + 1 < VGA_WIDTH THEN [cells |-> cells, cursor_x |-> x + 1, cursor_y |-> y]
              ELSE RowBelow(cells, y)
    BY <1>1, <1>5, PutGlyph DEF Con!State
  <2>4. c # <<EnterKey, FALSE>>
    BY <1>5, CharactersDiffer DEF Controls
  <2> HIDE DEF cells, put, a, x
  <2>5. CASE x + 1 < VGA_WIDTH
    <3> HIDE DEF y
    <3>1. put \in Screens
      BY <1>2, <2>1, <2>3, <2>5 DEF Screens
    <3>2. Con!Cursor(put) = a + 1 /\ put.cells = cells
      BY <1>2, <2>3, <2>5 DEF Con!Cursor, Row, y
    <3>3. Ahead(put)
      BY <2>2, <3>1, <3>2 DEF Ahead
    <3> QED
      BY <2>4, <3>3 DEF put
  <2>6. CASE ~(x + 1 < VGA_WIDTH)
    <3>1. BlankFrom(cells, Row(con) + VGA_WIDTH)
      BY <1>2, <2>2, <2>6
    <3>2. Ahead(RowBelow(cells, y))
      BY <1>1, <2>1, <3>1, NextRow
    <3> QED
      BY <2>3, <2>4, <2>6, <3>2 DEF put
  <2> QED
    BY <2>5, <2>6
<1> QED
  BY <1>3, <1>4, <1>5 DEF Controls

\* A character behind the text that is shown.
LEMMA PutShown ==
    ASSUME NEW con, NEW text \in Seq(Glyphs), Shows(con, text), NEW c \in Glyphs,
           Len(text) + 1 < VGA_WIDTH
    PROVE  Shows(Con!vga_put_char(con, c), Append(text, c))
<1> DEFINE a == Con!Cursor(con)
           x == con.cursor_x
           y == con.cursor_y
           area == VGA_WIDTH * VGA_HEIGHT
           start == Row(con)
           put == Con!vga_put_char(con, c)
           cells == [con.cells EXCEPT ![a] = c]
           longer == Append(text, c)
<1>1. /\ con \in Screens /\ x = Len(text)
      /\ \A i \in Con!VgaCells : i >= start =>
            con.cells[i] = IF i - start < x THEN text[i - start + 1] ELSE Blank
  BY DEF Shows
<1>2. /\ VGA_WIDTH \in Nat \ {0} /\ start \in Nat /\ x \in Nat /\ a = start + x
      /\ start + VGA_WIDTH <= area /\ area \in Nat
      /\ \A i : i \in Con!VgaCells <=> i \in Nat /\ i < area
      /\ con.cells \in [Con!VgaCells -> Glyphs]
      /\ y \in 0 .. (VGA_HEIGHT - 1)
  BY <1>1, CursorFacts DEF Screens
<1>3. put = [cells |-> cells, cursor_x |-> x + 1, cursor_y |-> y]
  BY <1>1, PutGlyph DEF Con!State
<1>4. cells \in [Con!VgaCells -> Glyphs]
  BY <1>2
<1>5. /\ cells[a] = c
      /\ \A i \in Con!VgaCells : i # a => cells[i] = con.cells[i]
  BY <1>1, <1>2
<1>6. Len(longer) = x + 1 /\ longer[x + 1] = c /\ \A k \in 1 .. x : longer[k] = text[k]
  BY <1>1
<1> HIDE DEF cells, put, a, x, y, start, longer, area
<1>7. put \in Screens
  <2>1. x + 1 \in 0 .. (VGA_WIDTH - 1)
    BY <1>1, <1>2
  <2> QED
    BY <1>2, <1>3, <1>4, <2>1 DEF Screens
<1>8. Row(put) = start
  BY <1>3 DEF Row, start, y
<1>9. ASSUME NEW i \in Con!VgaCells, i >= start
      PROVE  cells[i] = IF i - start < x + 1 THEN longer[i - start + 1] ELSE Blank
  <2>1. i \in Nat
    BY <1>2
  <2>2. CASE i = a
    <3>1. i - start = x
      BY <1>2, <2>2
    <3> QED
      BY <1>2, <1>5, <1>6, <2>2, <3>1
  <2>3. CASE i - start < x
    <3>1. i # a /\ i - start + 1 \in 1 .. x /\ i - start < x + 1
      BY <1>2, <1>9, <2>1, <2>3
    <3> QED
      BY <1>1, <1>5, <1>6, <1>9, <2>3, <3>1
  <2>4. CASE i - start > x
    <3>1. i # a /\ ~(i - start < x) /\ ~(i - start < x + 1)
      BY <1>2, <2>1, <2>4
    <3> QED
      BY <1>1, <1>5, <1>9, <3>1
  <2> QED
    BY <1>2, <2>1, <2>2, <2>3, <2>4
<1>10. put.cursor_x = Len(longer) /\ put.cells = cells
  BY <1>3, <1>6
<1>11. Shows(put, longer)
  BY <1>6, <1>7, <1>8, <1>9, <1>10 DEF Shows
<1> QED
  BY <1>11 DEF put, longer

\* Rubbing out the last character that is shown.
LEMMA RuboutShown ==
    ASSUME NEW con, NEW text \in Seq(Glyphs), Shows(con, text), Len(text) > 0
    PROVE  Shows(Con!vga_put_char(con, <<BackspaceKey, FALSE>>), SubSeq(text, 1, Len(text) - 1))
<1> DEFINE a == Con!Cursor(con)
           x == con.cursor_x
           y == con.cursor_y
           area == VGA_WIDTH * VGA_HEIGHT
           start == Row(con)
           put == Con!vga_put_char(con, <<BackspaceKey, FALSE>>)
           cells == [con.cells EXCEPT ![a - 1] = Blank]
           shorter == SubSeq(text, 1, Len(text) - 1)
<1>1. /\ con \in Screens /\ x = Len(text)
      /\ \A i \in Con!VgaCells : i >= start =>
            con.cells[i] = IF i - start < x THEN text[i - start + 1] ELSE Blank
  BY DEF Shows
<1>2. /\ VGA_WIDTH \in Nat \ {0} /\ start \in Nat /\ x \in Nat /\ a = start + x
      /\ start + VGA_WIDTH <= area /\ area \in Nat /\ x < VGA_WIDTH
      /\ \A i : i \in Con!VgaCells <=> i \in Nat /\ i < area
      /\ con.cells \in [Con!VgaCells -> Glyphs]
      /\ y \in 0 .. (VGA_HEIGHT - 1)
  BY <1>1, CursorFacts DEF Screens
<1>3. put = [cells |-> cells, cursor_x |-> x - 1, cursor_y |-> y]
  <2>1. con.cursor_x # 0
    BY <1>1, <1>2
  <2> QED
    BY <1>1, <2>1, PutRubout DEF Con!State
<1>4. cells \in [Con!VgaCells -> Glyphs]
  BY <1>2, CharactersDiffer
<1>5. /\ a - 1 \in Con!VgaCells => cells[a - 1] = Blank
      /\ \A i \in Con!VgaCells : i # a - 1 => cells[i] = con.cells[i]
  BY <1>1, <1>2
<1>6. Len(shorter) = x - 1 /\ \A k \in 1 .. x - 1 : shorter[k] = text[k]
  <2>1. Len(text) \in Nat /\ Len(text) > 0 /\ x = Len(text)
    BY <1>1
  <2>2. Len(SubSeq(text, 1, x - 1)) = x - 1 /\ \A k \in 1 .. x - 1 : SubSeq(text, 1, x - 1)[k] = text[k]
    <3> HIDE DEF x
    <3> QED
      BY <2>1
  <2> QED
    BY <2>1, <2>2
<1>7. x > 0
  BY <1>1
<1> HIDE DEF cells, put, a, x, y, start, shorter, area
<1>8. put \in Screens
  <2>1. x - 1 \in 0 .. (VGA_WIDTH - 1)
    BY <1>2, <1>7
  <2> QED
    BY <1>2, <1>3, <1>4, <2>1 DEF Screens
<1>9. Row(put) = start
  BY <1>3 DEF Row, start, y
<1>10. ASSUME NEW i \in Con!VgaCells, i >= start
       PROVE  cells[i] = IF i - start < x - 1 THEN shorter[i - start + 1] ELSE Blank
  <2>1. i \in Nat
    BY <1>2
  <2>2. CASE i = a - 1
    <3>1. ~(i - start < x - 1)
      BY <1>2, <2>2
    <3> QED
      BY <1>5, <2>2, <3>1
  <2>3. CASE i - start < x - 1
    <3>1. i # a - 1 /\ i - start + 1 \in 1 .. x - 1 /\ i - start < x
      BY <1>2, <1>10, <2>1, <2>3
    <3> QED
      BY <1>1, <1>5, <1>6, <1>10, <2>3, <3>1
  <2>4. CASE i - start > x - 1
    <3>1. i # a - 1 /\ ~(i - start < x) /\ ~(i - start < x - 1)
      BY <1>2, <2>1, <2>4
    <3> QED
      BY <1>1, <1>5, <1>10, <3>1
  <2> QED
    BY <1>2, <2>1, <2>2, <2>3, <2>4
<1>11. put.cursor_x = Len(shorter) /\ put.cells = cells
  BY <1>3, <1>6
<1>12. Shows(put, shorter)
  BY <1>6, <1>8, <1>9, <1>10, <1>11 DEF Shows
<1> QED
  BY <1>12 DEF put, shorter

\* Between rows the two agree.
LEMMA AheadAndShown ==
    ASSUME NEW con
    PROVE  /\ Ahead(con) /\ con.cursor_x = 0 => Shows(con, << >>)
           /\ \A text \in Seq(Glyphs) : Shows(con, text) => Ahead(con)
<1>1. ASSUME Ahead(con), con.cursor_x = 0 PROVE Shows(con, << >>)
  <2>1. con \in Screens /\ \A i \in Con!VgaCells : i >= Row(con) => con.cells[i] = Blank
    BY <1>1, CursorFacts DEF Ahead, BlankFrom
  <2>2. \A i \in Con!VgaCells : ~(i - Row(con) < 0) \/ ~(i >= Row(con))
    BY <2>1, CursorFacts
  <2>3. Len(<< >>) = 0
    OBVIOUS
  <2> QED
    BY <1>1, <2>1, <2>2, <2>3 DEF Shows
<1>2. ASSUME NEW text \in Seq(Glyphs), Shows(con, text) PROVE Ahead(con)
  <2>1. con \in Screens /\ con.cursor_x = Len(text)
    BY <1>2 DEF Shows
  <2>2. \A i \in Con!VgaCells : i >= Con!Cursor(con) =>
           i >= Row(con) /\ ~(i - Row(con) < con.cursor_x)
    BY <2>1, CursorFacts
  <2> QED
    BY <1>2, <2>1, <2>2 DEF Ahead, BlankFrom, Shows
<1> QED
  BY <1>1, <1>2

-----------------------------------------------------------------------------
\* Several characters.  From a screen with nothing behind the cursor every one
\* is printed on such a screen.
LEMMA WriteAhead ==
    ASSUME NEW con, Ahead(con), NEW text \in Seq(Glyphs \cup Controls)
    PROVE  \E w : Writes(w, con, text) /\ \A k \in 0 .. Len(text) : Ahead(w[k])
<1> DEFINE n == Len(text)
           S == {c \in Screens : Ahead(c)}
           Step == [p \in (1 .. n) \X S |-> Con!vga_put_char(p[2], text[p[1]])]
<1>1. con \in S /\ n \in Nat
  BY DEF Ahead
<1>2. ASSUME NEW k \in 1 .. n, NEW c \in S
      PROVE  Con!vga_put_char(c, text[k]) \in S /\ Step[<<k, c>>] = Con!vga_put_char(c, text[k])
  <2>1. text[k] \in Glyphs \cup Controls
    OBVIOUS
  <2>2. Ahead(c)
    OBVIOUS
  <2>3. Ahead(Con!vga_put_char(c, text[k]))
    BY <2>1, <2>2, PutAhead
  <2> QED
    BY <2>3 DEF Ahead
<1>3. Advances(Step, n, S)
  BY <1>2 DEF Advances
<1>4. PICK w : Unfolds(w, con, n, Step) /\ Within(w, n, S)
  <2> HIDE DEF Step, S, n
  <2> QED
    BY <1>1, <1>3, Recursion
<1>5. ASSUME NEW k \in 1 .. n PROVE w[k] = Con!vga_put_char(w[k - 1], text[k])
  <2>1. k - 1 \in 0 .. n
    BY <1>1
  <2>2. w[k - 1] \in S
    BY <1>4, <2>1 DEF Within
  <2>3. w[k] = Step[<<k, w[k - 1]>>]
    BY <1>4 DEF Unfolds
  <2> QED
    BY <1>2, <2>2, <2>3
<1>6. Writes(w, con, text)
  BY <1>4, <1>5 DEF Writes, Unfolds
<1>7. \A k \in 0 .. n : Ahead(w[k])
  BY <1>4 DEF Within
<1> QED
  BY <1>6, <1>7

\* One text behind another is printed behind it.
LEMMA WriteBoth ==
    ASSUME NEW con, Ahead(con), NEW a \in Seq(Glyphs \cup Controls),
           NEW b \in Seq(Glyphs \cup Controls)
    PROVE  Con!vga_write(con, a \o b) = Con!vga_write(Con!vga_write(con, a), b)
<1> DEFINE ab == a \o b
           m == Len(a)
           n == Len(b)
<1>1. /\ ab \in Seq(Glyphs \cup Controls) /\ Len(ab) = m + n /\ m \in Nat /\ n \in Nat
      /\ \A k \in 1 .. m : ab[k] = a[k]
      /\ \A k \in 1 .. n : ab[m + k] = b[k]
  OBVIOUS
<1> HIDE DEF ab
<1>2. PICK w : Writes(w, con, ab)
  BY <1>1, WriteAhead
<1>3. w[0] = con /\ \A k \in 1 .. m + n : w[k] = Con!vga_put_char(w[k - 1], ab[k])
  BY <1>1, <1>2 DEF Writes
<1> DEFINE first == [k \in 0 .. m |-> w[k]]
           second == [k \in 0 .. n |-> w[m + k]]
<1>4. Writes(first, con, a)
  <2>1. ASSUME NEW k \in 1 .. m PROVE first[k] = Con!vga_put_char(first[k - 1], a[k])
    <3>1. k \in 1 .. m + n /\ k \in 0 .. m /\ k - 1 \in 0 .. m
      BY <1>1
    <3> QED
      BY <1>1, <1>3, <3>1
  <2>2. first[0] = con /\ first = [k \in 0 .. m |-> first[k]]
    BY <1>1, <1>3
  <2> QED
    BY <2>1, <2>2 DEF Writes
<1>5. Writes(second, w[m], b)
  <2>1. ASSUME NEW k \in 1 .. n PROVE second[k] = Con!vga_put_char(second[k - 1], b[k])
    <3>1. m + k \in 1 .. m + n /\ k \in 0 .. n /\ k - 1 \in 0 .. n /\ m + (k - 1) = (m + k) - 1
      BY <1>1
    <3> QED
      BY <1>1, <1>3, <3>1
  <2>2. second[0] = w[m] /\ second = [k \in 0 .. n |-> second[k]]
    BY <1>1
  <2> QED
    BY <2>1, <2>2 DEF Writes
<1>6. first[m] = w[m] /\ second[n] = w[m + n]
  BY <1>1
<1> HIDE DEF first, second
<1>7. Con!vga_write(con, ab) = w[m + n]
  BY <1>1, <1>2, WriteIs
<1>8. Con!vga_write(con, a) = w[m]
  BY <1>1, <1>4, <1>6, WriteIs
<1>9. Con!vga_write(w[m], b) = w[m + n]
  BY <1>1, <1>5, <1>6, WriteIs
<1> QED
  BY <1>7, <1>8, <1>9 DEF ab

LEMMA AppendBehind ==
    ASSUME NEW t \in Seq(Glyphs), NEW u \in Seq(Glyphs), NEW c \in Glyphs
    PROVE  Append(t \o u, c) = t \o Append(u, c)
<1>1. t \o u \in Seq(Glyphs) /\ <<c>> \in Seq(Glyphs)
  OBVIOUS
<1>2. Append(t \o u, c) = (t \o u) \o <<c>> /\ Append(u, c) = u \o <<c>>
  BY <1>1, AppendIsConcat
<1>3. \A e \in Seq(Glyphs) : (t \o u) \o e = t \o (u \o e)
  BY ConcatAssociative
<1> QED
  BY <1>1, <1>2, <1>3

\* A text that fits stands behind what the row showed before.
LEMMA WriteShown ==
    ASSUME NEW con, NEW t \in Seq(Glyphs), Shows(con, t), NEW s \in Seq(Glyphs),
           Len(t) + Len(s) < VGA_WIDTH
    PROVE  Shows(Con!vga_write(con, s), t \o s)
<1> DEFINE n == Len(s)
           Upto(k) == t \o SubSeq(s, 1, k)
<1>1. n \in Nat /\ Len(t) \in Nat /\ s \in Seq(Glyphs \cup Controls) /\ VGA_WIDTH \in Nat
  BY LineEditorAssumption
<1>2. PICK w : Writes(w, con, s)
  BY <1>1, AheadAndShown, WriteAhead
<1> DEFINE T == {k \in 0 .. n : Shows(w[k], Upto(k))}
<1>3. 0 \in T
  <2>1. Upto(0) = t
    BY EmptySeq, SubSeqProperties, ConcatEmptySeq
  <2>2. w[0] = con /\ 0 \in 0 .. n
    BY <1>1, <1>2 DEF Writes
  <2> HIDE DEF Upto
  <2> QED
    BY <2>1, <2>2
<1>4. ASSUME NEW k \in 1 .. n, k - 1 \in T PROVE k \in T
  <2>1. s[k] \in Glyphs /\ k \in 0 .. n /\ k - 1 \in 0 .. n
    BY <1>1
  <2>2. Upto(k - 1) \in Seq(Glyphs) /\ Len(Upto(k - 1)) = Len(t) + (k - 1)
    BY <1>1, <2>1
  <2>3. Append(Upto(k - 1), s[k]) = Upto(k)
    <3>1. SubSeq(s, 1, k - 1) \in Seq(Glyphs) /\ Append(SubSeq(s, 1, k - 1), s[k]) = SubSeq(s, 1, k)
      BY <1>1, <2>1
    <3>2. ASSUME NEW u \in Seq(Glyphs), NEW c \in Glyphs PROVE Append(t \o u, c) = t \o Append(u, c)
      BY AppendBehind
    <3> QED
      BY <2>1, <3>1, <3>2
  <2>4. Shows(w[k - 1], Upto(k - 1)) /\ w[k] = Con!vga_put_char(w[k - 1], s[k])
    BY <1>2, <1>4 DEF Writes
  <2> HIDE DEF Upto
  <2>5. Len(Upto(k - 1)) + 1 < VGA_WIDTH
    BY <1>1, <2>1, <2>2
  <2>6. Shows(w[k], Upto(k))
    BY <2>1, <2>2, <2>3, <2>4, <2>5, PutShown
  <2> QED
    BY <2>1, <2>6
<1>5. n \in T
  <2> HIDE DEF T, n
  <2>1. 0 .. n \subseteq T
    BY <1>1, <1>3, <1>4, AllPositions
  <2> QED
    BY <1>1, <2>1
<1>6. Upto(n) = t \o s
  OBVIOUS
<1>7. Con!vga_write(con, s) = w[n]
  BY <1>1, <1>2, WriteIs
<1> QED
  BY <1>5, <1>6, <1>7

LEMMA RuboutsType ==
    ASSUME NEW n \in Nat
    PROVE  /\ Rubouts(n) \in Seq(Glyphs \cup Controls) /\ Len(Rubouts(n)) = n
           /\ \A k \in 1 .. n : Rubouts(n)[k] = <<BackspaceKey, FALSE>>
<1>1. Rubouts(n) = [k \in 1 .. n |-> <<BackspaceKey, FALSE>>]
  BY DEF Rubouts
<1>2. <<BackspaceKey, FALSE>> \in Glyphs \cup Controls
  BY DEF Controls
<1> DEFINE c == <<BackspaceKey, FALSE>>
<1> HIDE DEF c
<1>3. Rubouts(n) = [k \in 1 .. n |-> c] /\ c \in Glyphs \cup Controls
  BY <1>1, <1>2 DEF c
<1>4. Rubouts(n) \in Seq(Glyphs \cup Controls)
  BY <1>3
<1>5. Len(Rubouts(n)) = n /\ \A k \in 1 .. n : Rubouts(n)[k] = c
  BY <1>3
<1> QED
  BY <1>4, <1>5 DEF c

\* As many backspaces as the row shows characters at most take the last ones away.
LEMMA RuboutsShown ==
    ASSUME NEW con, NEW t \in Seq(Glyphs), Shows(con, t), NEW n \in Nat, n <= Len(t)
    PROVE  Shows(Con!vga_write(con, Rubouts(n)), SubSeq(t, 1, Len(t) - n))
<1> DEFINE s == Rubouts(n)
           m == Len(t)
           Less(k) == SubSeq(t, 1, m - k)
<1>1. /\ s \in Seq(Glyphs \cup Controls) /\ Len(s) = n /\ m \in Nat
      /\ \A k \in 1 .. n : s[k] = <<BackspaceKey, FALSE>>
  <2>1. n \in Nat /\ m \in Nat
    OBVIOUS
  <2> QED
    BY <2>1, RuboutsType
<1> HIDE DEF s
<1>2. PICK w : Writes(w, con, s)
  BY <1>1, AheadAndShown, WriteAhead
<1> DEFINE T == {k \in 0 .. n : Shows(w[k], Less(k))}
<1>3. 0 \in T
  <2>1. Less(0) = t
    BY <1>1
  <2> QED
    BY <1>1, <1>2, <2>1 DEF Writes
<1>4. ASSUME NEW k \in 1 .. n, k - 1 \in T PROVE k \in T
  <2>1. k \in 0 .. n /\ k - 1 \in 0 .. n /\ m - k \in Nat /\ m - (k - 1) = (m - k) + 1
        /\ (m - (k - 1)) - 1 = m - k
    BY <1>1
  <2>2. Less(k - 1) \in Seq(Glyphs) /\ Len(Less(k - 1)) = m - (k - 1)
    BY <1>1, <2>1
  <2>3. SubSeq(Less(k - 1), 1, m - k) = Less(k)
    BY <1>1, <2>1
  <2>4. Shows(w[k - 1], Less(k - 1)) /\ w[k] = Con!vga_put_char(w[k - 1], <<BackspaceKey, FALSE>>)
    BY <1>1, <1>2, <1>4 DEF Writes
  <2> HIDE DEF Less
  <2>5. Len(Less(k - 1)) - 1 = m - k /\ Len(Less(k - 1)) > 0
    BY <2>1, <2>2
  <2>6. Less(k - 1) \in Seq(Glyphs)
    BY <2>2
  <2>7. Shows(w[k - 1], Less(k - 1))
    BY <2>4
  <2>8. Shows(Con!vga_put_char(w[k - 1], <<BackspaceKey, FALSE>>),
              SubSeq(Less(k - 1), 1, Len(Less(k - 1)) - 1))
    BY ONLY <2>5, <2>6, <2>7, RuboutShown
  <2>9. Shows(w[k], Less(k))
    BY <2>3, <2>4, <2>5, <2>8
  <2> QED
    BY <2>1, <2>9
<1>5. n \in T
  <2> HIDE DEF T, m
  <2>1. 0 .. n \subseteq T
    BY <1>1, <1>3, <1>4, AllPositions
  <2> QED
    BY <1>1, <2>1
<1>6. Con!vga_write(con, s) = w[n]
  BY <1>1, <1>2, WriteIs
<1> QED
  BY <1>5, <1>6 DEF s

-----------------------------------------------------------------------------
\* Messages and prompts.
LEMMA MessageType ==
    ASSUME NEW n \in Nat
    PROVE  Message(n) \in Seq(Glyphs) /\ Len(Message(n)) = n
<1> DEFINE c == <<0, TRUE>>
<1>1. c \in Glyphs
  BY DEF Glyphs
<1>2. Message(n) = [k \in 1 .. n |-> c]
  BY DEF Message
<1> HIDE DEF c
<1> QED
  BY <1>1, <1>2

\* A line of a message leaves the cursor at the start of a row.
LEMMA LinePrinted ==
    ASSUME NEW con, Ahead(con), NEW n \in Nat
    PROVE  Ahead(PrintLine(con, n)) /\ PrintLine(con, n).cursor_x = 0
<1> DEFINE newline == <<EnterKey, FALSE>>
           s == Append(Message(n), newline)
<1>1. newline \in Controls
  BY DEF Controls
<1> HIDE DEF newline
<1>2. s \in Seq(Glyphs \cup Controls) /\ Len(s) = n + 1 /\ s[n + 1] = newline
  BY <1>1, MessageType
<1> HIDE DEF s
<1>3. PICK w : Writes(w, con, s) /\ \A k \in 0 .. n + 1 : Ahead(w[k])
  BY <1>2, WriteAhead
<1>4. w[n + 1] = Con!vga_put_char(w[n], newline) /\ Ahead(w[n])
  <2>1. n + 1 \in 1 .. n + 1 /\ (n + 1) - 1 = n /\ n \in 0 .. n + 1
    OBVIOUS
  <2> QED
    BY <1>2, <1>3, <2>1 DEF Writes
<1>5. Ahead(w[n + 1]) /\ w[n + 1].cursor_x = 0
  BY <1>1, <1>4, PutAhead DEF newline
<1>6. PrintLine(con, n) = w[n + 1]
  <2>1. Len(s) \in Nat
    BY <1>2
  <2>2. Con!vga_write(con, s) = w[n + 1]
    BY <1>2, <1>3, <2>1, WriteIs
  <2> QED
    BY <2>2 DEF PrintLine, s, newline
<1> QED
  BY <1>5, <1>6

\* Whatever is printed between the rows, the prompt behind it is alone in its row.
LEMMA PromptShown ==
    ASSUME NEW con, Ahead(con), con.cursor_x = 0, NEW output \in Seq(Nat), NEW n \in Prompts
    PROVE  Shows(Prompted(con, output, n), Message(n))
<1> DEFINE m == Len(output)
           S == {c \in Screens : Ahead(c) /\ c.cursor_x = 0}
           Step == [p \in (1 .. m) \X S |-> PrintLine(p[2], output[p[1]])]
           Body(g) == [k \in 0 .. m |-> IF k = 0 THEN con ELSE PrintLine(g[k - 1], output[k])]
           Printed == CHOOSE g : g = Body(g)
<1>1. con \in S /\ m \in Nat
  BY DEF Ahead
<1>2. ASSUME NEW k \in 1 .. m, NEW c \in S
      PROVE  PrintLine(c, output[k]) \in S /\ Step[<<k, c>>] = PrintLine(c, output[k])
  <2>1. Ahead(c) /\ output[k] \in Nat
    OBVIOUS
  <2>2. Ahead(PrintLine(c, output[k])) /\ PrintLine(c, output[k]).cursor_x = 0
    BY <2>1, LinePrinted
  <2> QED
    BY <2>2 DEF Ahead
<1>3. Advances(Step, m, S)
  BY <1>2 DEF Advances
<1>4. PICK w : Unfolds(w, con, m, Step) /\ Within(w, m, S)
  <2> HIDE DEF Step, S, m
  <2> QED
    BY <1>1, <1>3, Recursion
<1>5. w = Body(w)
  <2>1. ASSUME NEW k \in 1 .. m PROVE w[k] = PrintLine(w[k - 1], output[k])
    <3>1. k - 1 \in 0 .. m
      BY <1>1
    <3>2. w[k - 1] \in S
      BY <1>4, <3>1 DEF Within
    <3>3. w[k] = Step[<<k, w[k - 1]>>]
      BY <1>4 DEF Unfolds
    <3> QED
      BY <1>2, <3>2, <3>3
  <2>2. w = [k \in 0 .. m |-> w[k]] /\ w[0] = con
    BY <1>4 DEF Unfolds
  <2>3. \A k \in 0 .. m : w[k] = IF k = 0 THEN con ELSE PrintLine(w[k - 1], output[k])
    <3>1. \A k \in 0 .. m : k = 0 \/ k \in 1 .. m
      BY <1>1
    <3> HIDE DEF m
    <3> QED
      BY <2>1, <2>2, <3>1
  <2>4. Body(w) = [k \in 0 .. m |-> w[k]]
    BY <2>3
  <2> QED
    BY <2>2, <2>4
<1>6. Printed = Body(Printed)
  BY <1>5
<1> HIDE DEF Printed
<1>7. Printed[0] = con /\ \A k \in 1 .. m : Printed[k] = PrintLine(Printed[k - 1], output[k])
  BY <1>1, <1>6, SMTT(20)
<1> DEFINE T == {k \in 0 .. m : Printed[k] \in S}
<1>8. 0 \in T
  BY <1>1, <1>7
<1>9. ASSUME NEW k \in 1 .. m, k - 1 \in T PROVE k \in T
  <2>1. Printed[k - 1] \in S /\ k \in 0 .. m
    BY <1>9
  <2>2. PrintLine(Printed[k - 1], output[k]) \in S
    BY <1>2, <2>1
  <2> QED
    BY <1>7, <2>1, <2>2
<1>10. m \in T
  <2> HIDE DEF T, m
  <2>1. 0 .. m \subseteq T
    BY <1>1, <1>8, <1>9, AllPositions
  <2> QED
    BY <1>1, <2>1
<1>11. Shows(Printed[m], << >>)
  BY <1>10, AheadAndShown
<1>12. n \in Nat /\ n < VGA_WIDTH /\ Message(n) \in Seq(Glyphs) /\ Len(Message(n)) = n
  BY LineEditorAssumption, MessageType
<1> DEFINE empty == << >>
<1>13. empty \in Seq(Glyphs) /\ Len(empty) = 0 /\ empty \o Message(n) = Message(n)
  BY <1>12, ConcatEmptySeq
<1>14. Shows(Con!vga_write(Printed[m], Message(n)), Message(n))
  <2>1. Shows(Printed[m], empty)
    BY <1>11
  <2>2. Len(empty) + Len(Message(n)) < VGA_WIDTH
    BY <1>12, <1>13
  <2>3. empty \in Seq(Glyphs)
    BY <1>13
  <2>4. Message(n) \in Seq(Glyphs)
    BY <1>12
  <2> HIDE DEF empty
  <2>5. Shows(Con!vga_write(Printed[m], Message(n)), empty \o Message(n))
    BY ONLY <2>1, <2>2, <2>3, <2>4, WriteShown
  <2> QED
    BY <1>13, <2>5
<1>15. Prompted(con, output, n) = Con!vga_write(Printed[m], Message(n))
  BY DEF Prompted, Printed
<1> QED
  BY <1>14, <1>15

-----------------------------------------------------------------------------
\* While the echo has not reached the end of the row, the row is the line.
ScreenInv ==
    /\ Ahead(screen)
    /\ prompt \in Prompts
    /\ wide \in BOOLEAN
    /\ ~wide => Shows(screen, Message(prompt) \o Text(input_buffer))

LEMMA GlyphsOfText == ASSUME NEW s \in Seq(Characters) PROVE s \in Seq(Glyphs)
<1>1. s = [k \in 1 .. Len(s) |-> s[k]] /\ Len(s) \in Nat /\ \A k \in 1 .. Len(s) : s[k] \in Characters
  OBVIOUS
<1>2. \A c \in Characters : c \in Glyphs
  BY DEF Glyphs
<1> QED
  BY <1>1, <1>2

LEMMA PrefixBehind ==
    ASSUME NEW t \in Seq(Glyphs), NEW u \in Seq(Glyphs), NEW k \in 0 .. Len(u)
    PROVE  SubSeq(t \o u, 1, Len(t) + k) = t \o SubSeq(u, 1, k)
<1> DEFINE a == SubSeq(t \o u, 1, Len(t) + k)
           b == t \o SubSeq(u, 1, k)
           m == Len(t)
<1>1. /\ t \o u \in Seq(Glyphs) /\ Len(t \o u) = m + Len(u) /\ m \in Nat /\ Len(u) \in Nat
      /\ k \in Nat /\ k <= Len(u)
      /\ \A i \in 1 .. m + Len(u) : (t \o u)[i] = IF i <= m THEN t[i] ELSE u[i - m]
  OBVIOUS
<1>2. /\ a \in Seq(Glyphs) /\ Len(a) = m + k
      /\ \A i \in 1 .. m + k : a[i] = (t \o u)[i]
  BY <1>1
<1>3. /\ SubSeq(u, 1, k) \in Seq(Glyphs) /\ Len(SubSeq(u, 1, k)) = k
      /\ \A i \in 1 .. k : SubSeq(u, 1, k)[i] = u[i]
  BY <1>1
<1>4. /\ b \in Seq(Glyphs) /\ Len(b) = m + k
      /\ \A i \in 1 .. m + k : b[i] = IF i <= m THEN t[i] ELSE SubSeq(u, 1, k)[i - m]
  BY <1>1, <1>3
<1> HIDE DEF a, b, m
<1>5. ASSUME NEW i \in 1 .. m + k PROVE a[i] = b[i]
  <2>1. i \in 1 .. m + Len(u) /\ (~(i <= m) => i - m \in 1 .. k)
    BY <1>1
  <2> QED
    BY <1>1, <1>2, <1>3, <1>4, <2>1
<1>6. a = b
  BY <1>1, <1>2, <1>4, <1>5, SeqEqual
<1> QED
  BY <1>6 DEF a, b, m

\* What is typed is what is shown: n characters are rubbed out and s is printed.
LEMMA Echoed ==
    ASSUME EditInv, ScreenInv, NEW n \in 0 .. buffer_index, NEW s \in Seq(Glyphs),
           Echo(Rubouts(n) \o s), buffer_index' = (buffer_index - n) + Len(s),
           Text(input_buffer') = SubSeq(Text(input_buffer), 1, buffer_index - n) \o s
    PROVE  ScreenInv'
<1> DEFINE line == Text(input_buffer)
           b == buffer_index
           p == prompt
           mid == Con!vga_write(screen, Rubouts(n))
           rest == SubSeq(line, 1, b - n)
<1>1. /\ line \in Seq(Glyphs) /\ Len(line) = b /\ b \in Nat /\ n \in Nat /\ b - n \in 0 .. b
      /\ b - n \in Nat
  <2>1. input_buffer \in Buffer /\ EndsAt(input_buffer, buffer_index)
    BY DEF EditInv
  <2>2. line \in Seq(Characters) /\ Len(line) = b /\ b \in Nat
    BY <2>1, TextFacts
  <2> QED
    BY <2>2, GlyphsOfText
<1>2. /\ Ahead(screen) /\ p \in Nat /\ p \in Prompts /\ wide \in BOOLEAN
      /\ ~wide => Shows(screen, Message(p) \o line)
  BY LineEditorAssumption DEF ScreenInv
<1>3. Message(p) \in Seq(Glyphs) /\ Len(Message(p)) = p
  BY <1>2, MessageType
<1>4. /\ screen' = Con!vga_write(screen, Rubouts(n) \o s) /\ prompt' = p
      /\ wide' = (wide \/ p + ((b - n) + Len(s)) >= VGA_WIDTH)
  BY DEF Echo
<1>5. /\ Rubouts(n) \in Seq(Glyphs \cup Controls) /\ s \in Seq(Glyphs \cup Controls)
      /\ Rubouts(n) \o s \in Seq(Glyphs \cup Controls)
  <2>1. \A e \in Seq(Glyphs) : e \in Seq(Glyphs \cup Controls)
    OBVIOUS
  <2>2. n \in Nat
    BY <1>1
  <2>3. Rubouts(n) \in Seq(Glyphs \cup Controls)
    BY <2>2, RuboutsType
  <2> QED
    BY <2>1, <2>3
<1>6. Ahead(screen')
  <2> DEFINE text == Rubouts(n) \o s
  <2>1. text \in Seq(Glyphs \cup Controls) /\ Len(text) \in Nat
    BY <1>5
  <2> HIDE DEF text
  <2>2. PICK w : Writes(w, screen, text) /\ \A k \in 0 .. Len(text) : Ahead(w[k])
    BY <1>2, <2>1, WriteAhead
  <2>3. Con!vga_write(screen, text) = w[Len(text)]
    BY <2>1, <2>2, WriteIs
  <2> QED
    BY <1>4, <2>1, <2>2, <2>3 DEF text
<1>7. screen' = Con!vga_write(mid, s)
  BY <1>2, <1>4, <1>5, WriteBoth
<1>8. ASSUME ~wide' PROVE Shows(screen', Message(p) \o (rest \o s))
  <2>1. ~wide /\ p + ((b - n) + Len(s)) < VGA_WIDTH
    <3> DEFINE long == p + ((b - n) + Len(s)) >= VGA_WIDTH
    <3>1. wide' = (wide \/ long)
      BY <1>4
    <3>2. p + ((b - n) + Len(s)) \in Nat /\ VGA_WIDTH \in Nat
      BY <1>1, <1>2, LineEditorAssumption
    <3>3. long \/ p + ((b - n) + Len(s)) < VGA_WIDTH
      BY <3>2
    <3> HIDE DEF long
    <3>4. ~wide /\ ~long
      BY <1>8, <3>1
    <3> QED
      BY <3>3, <3>4
  <2> DEFINE whole == Message(p) \o line
  <2>2. whole \in Seq(Glyphs) /\ Len(whole) = p + b
    <3>1. line \in Seq(Glyphs)
      BY <1>1
    <3>2. Message(p) \in Seq(Glyphs)
      BY <1>3
    <3> HIDE DEF line, p
    <3>3. whole \in Seq(Glyphs) /\ Len(whole) = Len(Message(p)) + Len(line)
      BY <3>1, <3>2, ConcatProperties
    <3> QED
      BY <1>1, <1>3, <3>3
  <2>3. Shows(screen, whole)
    BY <1>2, <2>1
  <2> HIDE DEF whole
  <2>4. n <= Len(whole) /\ n \in Nat /\ Len(whole) - n = p + (b - n)
    BY <1>1, <1>2, <2>2
  <2>5. Shows(mid, SubSeq(whole, 1, Len(whole) - n))
    BY <2>2, <2>3, <2>4, RuboutsShown
  <2>6. SubSeq(whole, 1, Len(whole) - n) = Message(p) \o rest
    <3>1. line \in Seq(Glyphs)
      BY <1>1
    <3>2. Message(p) \in Seq(Glyphs)
      BY <1>3
    <3>3. b - n \in 0 .. Len(line)
      BY <1>1
    <3> HIDE DEF line, p
    <3>4. \A k \in 0 .. Len(line) :
             SubSeq(Message(p) \o line, 1, Len(Message(p)) + k) = Message(p) \o SubSeq(line, 1, k)
      BY <3>1, <3>2, PrefixBehind
    <3> QED
      BY <1>3, <2>4, <3>3, <3>4 DEF whole
  <2>7. rest \in Seq(Glyphs) /\ Len(rest) = b - n
    BY <1>1
  <2> DEFINE left == Message(p) \o rest
  <2>8. left \in Seq(Glyphs) /\ Len(left) = p + (b - n)
    BY <1>3, <2>7
  <2>9. left \o s = Message(p) \o (rest \o s)
    <3>1. \A e \in Seq(Glyphs) : (Message(p) \o e) \o s = Message(p) \o (e \o s)
      <4>1. Message(p) \in Seq(Glyphs)
        BY <1>3
      <4>2. s \in Seq(Glyphs)
        OBVIOUS
      <4>3. \A d, e, f \in Seq(Glyphs) : (d \o e) \o f = d \o (e \o f)
        BY ONLY ConcatAssociative, SMTT(30)
      <4> HIDE DEF p
      <4> QED
        BY ONLY <4>1, <4>2, <4>3
    <3> QED
      BY <2>7, <3>1
  <2>10. Shows(mid, left)
    BY <2>5, <2>6
  <2> HIDE DEF left, mid
  <2>11. Len(left) + Len(s) < VGA_WIDTH
    BY <1>1, <1>2, <2>1, <2>8
  <2>12. Shows(Con!vga_write(mid, s), left \o s)
    BY <2>8, <2>10, <2>11, WriteShown
  <2> QED
    BY <1>7, <2>9, <2>12
<1>9. wide' \in BOOLEAN
  BY <1>4
<1> QED
  BY <1>2, <1>4, <1>6, <1>8, <1>9 DEF ScreenInv

LEMMA NoRubouts == ASSUME NEW s \in Seq(Glyphs) PROVE Rubouts(0) \o s = s /\ s \o << >> = s
<1>1. Rubouts(0) = << >>
  BY DEF Rubouts
<1> QED
  BY <1>1, ConcatEmptySeq

\* The four ways to change the line are of that kind.
LEMMA InsertScreen ==
    ASSUME EditInv, ScreenInv, NEW x \in Characters, Insert(x) PROVE ScreenInv'
<1> DEFINE line == Text(input_buffer)
           s == <<x>>
           c == [input_buffer EXCEPT ![buffer_index] = x, ![buffer_index + 1] = NUL]
<1>1. input_buffer \in Buffer /\ EndsAt(input_buffer, buffer_index)
      /\ buffer_index < BUFFER_SIZE - 1
  BY DEF EditInv, Insert
<1>2. Text(c) = Append(line, x)
  BY <1>1, InsertedText
<1>3. line \in Seq(Characters) /\ Len(line) = buffer_index /\ buffer_index \in Nat
  BY <1>1, TextFacts
<1>4. s \in Seq(Glyphs) /\ Len(s) = 1
  <2>1. x \in Glyphs
    BY DEF Glyphs
  <2> QED
    BY <2>1
<1>5. input_buffer' = c /\ buffer_index' = buffer_index + 1 /\ Echo(s)
  BY DEF Insert
<1> HIDE DEF c, s, line
<1>6. SubSeq(line, 1, buffer_index - 0) = line /\ 0 \in 0 .. buffer_index
      /\ buffer_index' = (buffer_index - 0) + Len(s)
  BY <1>3, <1>4, <1>5
<1>7. Append(line, x) = line \o s
  BY <1>3, AppendIsConcat DEF s
<1>8. Echo(Rubouts(0) \o s)
  BY <1>4, <1>5, NoRubouts
<1>9. Text(input_buffer') = SubSeq(line, 1, buffer_index - 0) \o s
  BY <1>2, <1>5, <1>6, <1>7
<1> QED
  BY <1>4, <1>6, <1>8, <1>9, Echoed DEF line

LEMMA BackspaceScreen == ASSUME EditInv, ScreenInv, Backspace PROVE ScreenInv'
<1> DEFINE line == Text(input_buffer)
           c == [input_buffer EXCEPT ![buffer_index - 1] = NUL]
           empty == << >>
<1>1. input_buffer \in Buffer /\ EndsAt(input_buffer, buffer_index) /\ buffer_index > 0
  BY DEF EditInv, Backspace
<1>2. Text(c) = SubSeq(line, 1, buffer_index - 1)
  BY <1>1, ErasedText
<1>3. line \in Seq(Characters) /\ Len(line) = buffer_index /\ buffer_index \in Nat
  BY <1>1, TextFacts
<1>4. empty \in Seq(Glyphs) /\ Len(empty) = 0
  OBVIOUS
<1>5. input_buffer' = c /\ buffer_index' = buffer_index - 1 /\ Echo(Rubouts(1))
  BY DEF Backspace
<1>6. Rubouts(1) \o empty = Rubouts(1) /\ SubSeq(line, 1, buffer_index - 1) \o empty = SubSeq(line, 1, buffer_index - 1)
  <2>1. Rubouts(1) \in Seq(Glyphs \cup Controls)
    BY RuboutsType
  <2>2. SubSeq(line, 1, buffer_index - 1) \in Seq(Characters)
    <3> HIDE DEF line
    <3> QED
      BY <1>1, <1>3
  <2> QED
    BY <2>1, <2>2, ConcatEmptySeq
<1> HIDE DEF c, empty, line
<1>7. 1 \in 0 .. buffer_index /\ buffer_index' = (buffer_index - 1) + Len(empty)
  BY <1>1, <1>3, <1>4, <1>5
<1>8. Echo(Rubouts(1) \o empty) /\ Text(input_buffer') = SubSeq(line, 1, buffer_index - 1) \o empty
  BY <1>2, <1>5, <1>6
<1> QED
  BY <1>4, <1>7, <1>8, Echoed DEF line

\* The whole line is replaced.
LEMMA Replaced ==
    ASSUME EditInv, ScreenInv, NEW s \in Seq(Characters),
           Echo(Rubouts(buffer_index) \o s), buffer_index' = Len(s), Text(input_buffer') = s
    PROVE  ScreenInv'
<1> DEFINE line == Text(input_buffer)
           n == buffer_index
<1>1. line \in Seq(Characters) /\ n \in Nat
  BY TextFacts, Numbers DEF EditInv, EndsAt
<1>2. s \in Seq(Glyphs)
  BY GlyphsOfText
<1>3. SubSeq(line, 1, n - n) \o s = s
  <2>1. SubSeq(line, 1, n - n) = << >>
    BY <1>1
  <2> QED
    BY <1>2, <2>1, ConcatEmptySeq
<1>4. n \in 0 .. n /\ buffer_index' = (n - n) + Len(s)
  BY <1>1, <1>2
<1>5. Text(input_buffer') = SubSeq(line, 1, n - n) \o s
  BY <1>3
<1> QED
  BY <1>2, <1>4, <1>5, Echoed

LEMMA ClearScreen == ASSUME EditInv, ScreenInv, clear_input_buffer PROVE ScreenInv'
<1> DEFINE c == [input_buffer EXCEPT ![0] = NUL]
           empty == << >>
<1>1. Text(c) = empty
  BY EmptyText DEF EditInv
<1>2. input_buffer' = c /\ buffer_index' = 0 /\ Echo(Rubouts(buffer_index))
  BY DEF clear_input_buffer
<1>3. Rubouts(buffer_index) \o empty = Rubouts(buffer_index)
  <2>1. buffer_index \in Nat
    BY Numbers DEF EditInv, EndsAt
  <2>2. Rubouts(buffer_index) \in Seq(Glyphs \cup Controls)
    BY <2>1, RuboutsType
  <2> QED
    BY <2>2, ConcatEmptySeq
<1>4. empty \in Seq(Characters) /\ Len(empty) = 0
  OBVIOUS
<1> HIDE DEF c, empty
<1> QED
  BY <1>1, <1>2, <1>3, <1>4, Replaced

LEMMA RowScreen ==
    ASSUME EditInv, ScreenInv, NEW i \in Rows, ShowRow(i) PROVE ScreenInv'
<1>1. history[i] \in Buffer /\ EndsAt(history[i], StrLen(history[i])) /\ input_buffer \in Buffer
  BY DEF EditInv
<1>2. Text(input_buffer') = Text(history[i])
  BY <1>1, CopiedText DEF ShowRow
<1>3. Text(history[i]) \in Seq(Characters) /\ Len(Text(history[i])) = StrLen(history[i])
  BY <1>1, TextFacts
<1>4. buffer_index' = Len(Text(history[i])) /\ Echo(Rubouts(buffer_index) \o Text(history[i]))
  BY <1>3 DEF ShowRow
<1> QED
  BY <1>2, <1>3, <1>4, Replaced

\* The screen a command may clear is empty.
LEMMA ClearedScreen ==
    ASSUME NEW n \in Prompts PROVE Ahead(Con!vga_clear) /\ Con!vga_clear.cursor_x = 0
<1> DEFINE con == Con!vga_clear
<1>1. con = [cells |-> [i \in Con!VgaCells |-> Blank], cursor_x |-> 0, cursor_y |-> 0]
  BY DEF Con!vga_clear, Con!State, Blank
<1>2. VGA_WIDTH \in Nat \ {0} /\ VGA_HEIGHT \in Nat \ {0}
  BY LineEditorAssumption
<1> QED
  BY <1>1, <1>2, CharactersDiffer DEF Ahead, BlankFrom, Screens

\* A fresh prompt.
LEMMA FreshPrompt ==
    ASSUME NEW con, Ahead(con), con.cursor_x = 0, NEW output \in Seq(Nat),
           PromptAfter(con, output), Text(input_buffer') = << >>
    PROVE  ScreenInv'
<1>1. prompt' \in Prompts /\ screen' = Prompted(con, output, prompt') /\ wide' = FALSE
  BY DEF PromptAfter
<1>2. prompt' \in Nat
  BY <1>1, LineEditorAssumption
<1> DEFINE n == prompt'
<1> HIDE DEF n
<1>3. Message(n) \in Seq(Glyphs) /\ Message(n) \o << >> = Message(n)
  BY <1>2, MessageType, ConcatEmptySeq DEF n
<1>4. Shows(screen', Message(n))
  BY <1>1, PromptShown DEF n
<1>5. Ahead(screen')
  BY <1>3, <1>4, AheadAndShown
<1> QED
  BY <1>1, <1>3, <1>4, <1>5 DEF ScreenInv, n

LEMMA EnterScreen == ASSUME EditInv, ScreenInv, handle_enter PROVE ScreenInv'
<1>1. Text(input_buffer') = << >>
  BY EmptyText, LineIsEnded DEF EditInv, handle_enter
<1>2. Ahead(EnterEcho) /\ EnterEcho.cursor_x = 0
  BY PutAhead DEF ScreenInv, EnterEcho, Controls
<1>3. PICK output \in Seq(Nat) : PromptAfter(EnterEcho, output) \/ PromptAfter(Con!vga_clear, output)
  <2>1. << >> \in Seq(Nat) /\ Outputs \subseteq Seq(Nat)
    BY LineEditorAssumption
  <2> QED
    BY <2>1 DEF handle_enter
<1> QED
  <2>1. Ahead(Con!vga_clear) /\ Con!vga_clear.cursor_x = 0
    BY ClearedScreen DEF ScreenInv
  <2> QED
    BY <1>1, <1>2, <1>3, <2>1, FreshPrompt

LEMMA RecallScreen ==
    ASSUME EditInv, ScreenInv, NEW direction, recall_history(direction) PROVE ScreenInv'
<1>1. CASE Unmoved
  BY <1>1 DEF Unmoved, ScreenInv
<1>2. ASSUME NEW i \in 0 .. (history_count - 1), ShowRow(i) PROVE ScreenInv'
  <2>1. i \in Rows
    BY Numbers DEF EditInv, Rows
  <2> QED
    BY <1>2, <2>1, RowScreen
<1>3. CASE clear_input_buffer
  BY <1>3, ClearScreen
<1>4. /\ history_count \in Nat /\ history_index \in Int /\ -1 <= history_index
      /\ history_index < history_count
  BY DEF EditInv
<1>5. history_count > 0 => Older \in 0 .. (history_count - 1)
  BY <1>4 DEF Older
<1>6. ~(history_index + 1 >= history_count) => history_index + 1 \in 0 .. (history_count - 1)
  BY <1>4
<1> QED
  BY <1>1, <1>2, <1>3, <1>5, <1>6 DEF recall_history

LEMMA ScreenStep == KeysOK /\ EditInv /\ ScreenInv /\ [Next]_vars => ScreenInv'
<1> SUFFICES ASSUME KeysOK, EditInv, ScreenInv, [Next]_vars PROVE ScreenInv'
  OBVIOUS
<1>1. CASE NoEdit
  BY <1>1 DEF NoEdit, Unmoved, ScreenInv
<1>2. ASSUME NEW scancode \in Letters, Insert(Character(scancode)) PROVE ScreenInv'
  <2>1. Character(scancode) \in Characters
    BY DEF Character, Characters, KeysOK
  <2> QED
    BY <1>2, <2>1, InsertScreen
<1>3. ASSUME NEW scancode, keyboard_handler(scancode) PROVE ScreenInv'
  BY <1>1, <1>2, <1>3, EnterScreen, RecallScreen, BackspaceScreen
     DEF keyboard_handler, HandlePrefix, HandleExtended, HandleShift, HandleKey
<1>4. CASE Next
  <2>1. PICK scancode : keyboard_handler(scancode)
    BY <1>4 DEF Next, Key, ExtendedKey, ShiftKey, SecondScancode, Sends
  <2> QED
    BY <1>3, <2>1
<1>5. CASE UNCHANGED vars
  BY <1>5 DEF vars, editor, ScreenInv
<1> QED
  BY <1>4, <1>5

LEMMA InitScreen == Init => ScreenInv
<1> SUFFICES ASSUME Init PROVE ScreenInv
  OBVIOUS
<1>1. Text(input_buffer) = << >> /\ prompt \in Prompts /\ wide = FALSE
  <2>1. Empty \in Buffer /\ EndsAt(Empty, 0)
    BY Numbers DEF Empty, Buffer, EndsAt
  <2>2. Text(Empty) = << >>
    BY <2>1, TextFacts, EmptySeq
  <2> QED
    BY <2>2 DEF Init
<1>2. PICK output \in Seq(Nat) : screen = Prompted(Con!vga_clear, output, prompt)
  BY LineEditorAssumption DEF Init
<1>3. Shows(screen, Message(prompt))
  BY <1>1, <1>2, ClearedScreen, PromptShown
<1>4. Message(prompt) \in Seq(Glyphs) /\ Message(prompt) \o << >> = Message(prompt)
  <2>1. prompt \in Nat
    BY <1>1, LineEditorAssumption
  <2> QED
    BY <2>1, MessageType, ConcatEmptySeq
<1>5. Ahead(screen)
  BY <1>3, <1>4, AheadAndShown
<1> QED
  BY <1>1, <1>3, <1>4, <1>5 DEF ScreenInv

LEMMA ScreenInvariant == Spec => []ScreenInv
BY KeysInvariant, EditInvariant, InitScreen, ScreenStep, PTL DEF Spec

\* Whatever is typed, recalled and printed, at the end of a row and below the
\* last one, every character is stored inside the VGA buffer.
THEOREM CursorStaysOnScreen == Spec => []CursorOnScreen
<1>1. ScreenInv => CursorOnScreen
  BY CursorFacts DEF ScreenInv, Ahead, CursorOnScreen, Con!OnScreen
<1> QED
  BY <1>1, ScreenInvariant, PTL

\* The row of the cursor is the prompt and the string in the buffer, through
\* every edit, recall and scrolling, until the echo reaches the end of the row.
THEOREM ScreenIsLine == Spec => []ScreenShowsLine
<1>1. EditInv /\ ScreenInv => ScreenShowsLine
  <2> SUFFICES ASSUME EditInv, ScreenInv, ~wide PROVE ScreenShowsLine
    BY DEF ScreenShowsLine
  <2> DEFINE line == Message(prompt) \o Text(input_buffer)
  <2>1. Shows(screen, line)
    BY DEF ScreenInv
  <2>2. line \in Seq(Glyphs) /\ Len(line) = prompt + buffer_index
    <3>1. Text(input_buffer) \in Seq(Characters) /\ Len(Text(input_buffer)) = buffer_index
      BY TextFacts DEF EditInv
    <3>2. prompt \in Nat
      BY LineEditorAssumption DEF ScreenInv
    <3> QED
      BY <3>1, <3>2, GlyphsOfText, MessageType, ConcatProperties
  <2> HIDE DEF line
  <2>3. screen \in Screens /\ screen.cursor_x = Len(line)
    BY <2>1 DEF Shows
  <2>4. ASSUME NEW k \in 1 .. VGA_WIDTH
        PROVE  screen.cells[Row(screen) + k - 1] = IF k <= Len(line) THEN line[k] ELSE Blank
    <3> DEFINE i == Row(screen) + k - 1
    <3>1. /\ Row(screen) \in Nat /\ VGA_WIDTH \in Nat /\ VGA_WIDTH * VGA_HEIGHT \in Nat
          /\ Row(screen) + VGA_WIDTH <= VGA_WIDTH * VGA_HEIGHT
          /\ \A j : j \in Con!VgaCells <=> j \in Nat /\ j < VGA_WIDTH * VGA_HEIGHT
      BY <2>3, CursorFacts
    <3> DEFINE area == VGA_WIDTH * VGA_HEIGHT
    <3> HIDE DEF area
    <3>2. i \in Con!VgaCells /\ i >= Row(screen) /\ i - Row(screen) + 1 = k
          /\ (i - Row(screen) < Len(line) <=> k <= Len(line))
      BY <2>2, <3>1 DEF area
    <3> HIDE DEF i
    <3> QED
      BY <2>1, <3>2 DEF Shows, i
  <2>5. Con!CursorRow(screen) = Padded(line)
    BY <2>4 DEF Con!CursorRow, Padded, Row, Blank
  <2> QED
    BY <2>2, <2>3, <2>5 DEF ScreenShowsLine, line
<1> QED
  BY <1>1, EditInvariant, ScreenInvariant, PTL
=============================================================================
