--------------------------------- MODULE LibC ---------------------------------
(***************************************************************************)
(* Numbers and formats: printf and atoi of kernel/memory/libc.cpp, and     *)
(* print_uint of the shell, kernel/main.cpp, which has the loops of        *)
(* print_unsigned over a shorter buffer.  A caller makes one call after    *)
(* the other; an iteration of a loop that computes is a step.              *)
(*                                                                         *)
(* Arguments are words of BITS bits, which printf and atoi also take for   *)
(* signed integers.  A text is a sequence of characters without the NUL.   *)
(***************************************************************************)
EXTENDS Integers, SequencesExt

CONSTANTS BITS,           \* of an int, 32 in the code
          PRINTF_BUFFER,  \* characters in the buffer of print_unsigned, 32
          UINT_BUFFER,    \* and of print_uint, 12
          Char,           \* the characters, the one that ends a string left out
          Formats,        \* formats with their arguments: sequences of pieces
          Texts           \* what puts and atoi are given by the caller

WORD == 2 ^ BITS

Words == 0 .. (WORD - 1)

\* A piece of a format is a conversion with its argument or some plain
\* characters; no format ends in a lone '%', behind which printf would look
\* for the conversion past the end.
Piece(chars, args) == [chars |-> chars, args |-> args]

Chars(pieces) == FlattenSeq([k \in DOMAIN pieces |-> pieces[k].chars])

Args(pieces) == FlattenSeq([k \in DOMAIN pieces |-> pieces[k].args])

\* The bits of an int and back; the -O0 build wraps where an int overflows.
Signed(word) == IF word < WORD \div 2 THEN word ELSE word - WORD

Bits(int) == int % WORD

\* '0' + d, or 'a' + d - 10.
DigitChar(d) == <<"0", "1", "2", "3", "4", "5", "6", "7", "8", "9",
                  "a", "b", "c", "d", "e", "f">>[d + 1]

isdigit(c) == \E d \in 0 .. 9 : c = DigitChar(d)

Decimal(c) == CHOOSE d \in 0 .. 9 : c = DigitChar(d)

\* "vt" is the character '\v'.
isspace(c) == c \in {" ", "\n", "\r", "\t", "vt", "\f"}

\* Plain characters, or '%' with a character and the argument it asks for.
Takes(piece, S) == piece.args = <<piece.args[1]>> /\ piece.args[1] \in S

IsPiece(piece) ==
    /\ piece.chars \in Seq(Char) /\ piece.chars # << >>
    /\ \/ /\ \A k \in 1 .. Len(piece.chars) : piece.chars[k] # "%"
          /\ piece.args = << >>
       \/ /\ Len(piece.chars) = 2 /\ piece.chars[1] = "%"
          /\ CASE piece.chars[2] \in {"d", "i", "u", "x"} -> Takes(piece, Words)
               [] piece.chars[2] = "c" -> Takes(piece, Char)
               [] piece.chars[2] = "s" -> Takes(piece, Seq(Char))
               [] OTHER -> piece.args = << >>

\* The powers of b up to the n-th.
Powers(b, n) ==
    LET P[k \in 0 .. n] == IF k = 0 THEN 1 ELSE b * P[k - 1] IN P

\* An int has two halves (BITS > 0), and every word has its digits in the buffers.
ASSUME LibCAssumption ==
    /\ WORD \in Nat \ {0} /\ WORD = 2 * (WORD \div 2)
    /\ PRINTF_BUFFER \in Nat /\ UINT_BUFFER \in Nat
    /\ WORD <= Powers(10, PRINTF_BUFFER)[PRINTF_BUFFER]
    /\ WORD <= Powers(16, PRINTF_BUFFER)[PRINTF_BUFFER]
    /\ WORD <= Powers(10, UINT_BUFFER)[UINT_BUFFER]
    /\ {DigitChar(d) : d \in 0 .. 15} \cup {"-", "%", "\n"} \subseteq Char
    /\ \A pieces \in Formats :
          /\ Len(pieces) \in Nat
          /\ pieces = [k \in 1 .. Len(pieces) |-> Piece(pieces[k].chars, pieces[k].args)]
          /\ \A k \in 1 .. Len(pieces) : IsPiece(pieces[k])
    /\ Texts \subseteq Seq(Char)

VARIABLES call,          \* the call in progress or the last one
          pc,
          format, args,  \* what printf has still to look at
          value, base,   \* what print_unsigned has still to convert
          buffer, room,  \* its digits, the last one first, and their limit
          out,           \* what the call has printed
          text, sign,    \* what atoi has still to read, and what it has read
          int

vars == <<call, pc, format, args, value, base, buffer, room, out, text, sign, int>>

Init ==
    /\ call = [name |-> "none"]
    /\ pc = "idle"
    /\ format = << >> /\ args = << >>
    /\ value = 0 /\ base = 10 /\ buffer = << >> /\ room = 0
    /\ out = << >>
    /\ text = << >> /\ sign = 1 /\ int = 0

-----------------------------------------------------------------------------
\* The calls.  print_uint returns at once for 0, like print_unsigned.
Prints(name, what) ==
    /\ pc = "idle"
    /\ call' = [name |-> name, what |-> what]
    /\ args' = IF name = "printf" THEN Args(what) ELSE << >>
    /\ int' = 0 /\ sign' = 1 /\ text' = << >>

printf(pieces) ==
    /\ Prints("printf", pieces)
    /\ pc' = "format"
    /\ format' = Chars(pieces)
    /\ out' = << >>
    /\ UNCHANGED <<value, base, buffer, room>>

putchar(c) ==
    /\ Prints("putchar", c)
    /\ out' = <<c>>
    /\ UNCHANGED <<pc, format, value, base, buffer, room>>

puts(t) ==
    /\ Prints("puts", t)
    /\ out' = Append(t, "\n")
    /\ UNCHANGED <<pc, format, value, base, buffer, room>>

\* The entry of print_unsigned and print_uint.
Convert(word, b, limit) ==
    /\ base' = b
    /\ room' = limit
    /\ buffer' = << >>
    /\ value' = word
    /\ pc' = "digits"

print_uint(word) ==
    /\ Prints("print_uint", word)
    /\ format' = << >>
    /\ IF word = 0
       THEN out' = <<"0">> /\ UNCHANGED <<pc, value, base, buffer, room>>
       ELSE out' = << >> /\ Convert(word, 10, UINT_BUFFER)

-----------------------------------------------------------------------------
\* printf, character by character.
Show(characters) ==
    /\ out' = out \o characters
    /\ UNCHANGED <<pc, value, base, buffer, room>>

print_unsigned(word, b, prefix) ==
    IF word = 0 THEN Show(<<"0">>)
    ELSE out' = out \o prefix /\ Convert(word, b, PRINTF_BUFFER)

print_signed(word) ==
    IF Signed(word) < 0 THEN print_unsigned(Bits(-Signed(word)), 10, <<"-">>)
                        ELSE print_unsigned(word, 10, << >>)

Plain ==
    /\ pc = "format" /\ format # << >> /\ Head(format) # "%"
    /\ Show(<<Head(format)>>)
    /\ format' = Tail(format)
    /\ UNCHANGED <<call, args, text, sign, int>>

\* The character behind '%', and the argument it takes.
Conversion ==
    /\ pc = "format" /\ format # << >> /\ Head(format) = "%"
    /\ LET c == format[2]
       IN  /\ format' = SubSeq(format, 3, Len(format))
           /\ \/ c \in {"s", "c", "d", "i", "u", "x"} /\ args' = Tail(args)
              \/ c \notin {"s", "c", "d", "i", "u", "x"} /\ UNCHANGED args
           /\ \/ c = "s" /\ Show(Head(args))
              \/ c = "c" /\ Show(<<Head(args)>>)
              \/ c \in {"d", "i"} /\ print_signed(Head(args))
              \/ c = "u" /\ print_unsigned(Head(args), 10, << >>)
              \/ c = "x" /\ print_unsigned(Head(args), 16, << >>)
              \/ c = "%" /\ Show(<<"%">>)
              \/ c \notin {"s", "c", "d", "i", "u", "x", "%"} /\ Show(<<"%", c>>)
    /\ UNCHANGED <<call, text, sign, int>>

FormatEnd ==
    /\ pc = "format" /\ format = << >>
    /\ pc' = "idle"
    /\ UNCHANGED <<call, format, args, value, base, buffer, room, out, text, sign, int>>

\* The loops of print_unsigned and print_uint: digits into the buffer, and
\* from there, in reverse, to the console.
Divide ==
    /\ pc = "digits" /\ value > 0 /\ Len(buffer) < room
    /\ buffer' = Append(buffer, DigitChar(value % base))
    /\ value' = value \div base
    /\ UNCHANGED <<call, pc, format, args, base, room, out, text, sign, int>>

\* A mistake: the digits are printed in the order they were found.
EmitDigits_Forward ==
    /\ pc = "digits" /\ ~(value > 0 /\ Len(buffer) < room)
    /\ out' = out \o buffer
    /\ buffer' = << >> /\ value' = 0
    /\ pc' = IF call.name = "printf" THEN "format" ELSE "idle"
    /\ UNCHANGED <<call, format, args, base, room, text, sign, int>>

EmitDigits ==
    /\ pc = "digits" /\ ~(value > 0 /\ Len(buffer) < room)
    /\ out' = out \o Reverse(buffer)
    /\ buffer' = << >> /\ value' = 0
    /\ pc' = IF call.name = "printf" THEN "format" ELSE "idle"
    /\ UNCHANGED <<call, format, args, base, room, text, sign, int>>

-----------------------------------------------------------------------------
\* atoi of a text, or of what has just been printed; of remembers by what.
atoi(t) ==
    /\ pc = "idle"
    /\ call' = [name |-> "atoi", what |-> t,
                of |-> IF t = out /\ call.name = "printf" THEN call.what ELSE << >>]
    /\ pc' = "spaces"
    /\ text' = t /\ sign' = 1 /\ int' = 0
    /\ out' = << >>
    /\ UNCHANGED <<format, args, value, base, buffer, room>>

\* A mistake: the same space is looked at again.
SkipSpace_Stuck ==
    /\ pc = "spaces" /\ text # << >> /\ isspace(Head(text))
    /\ UNCHANGED vars

SkipSpace ==
    /\ pc = "spaces" /\ text # << >> /\ isspace(Head(text))
    /\ text' = Tail(text)
    /\ UNCHANGED <<call, pc, format, args, value, base, buffer, room, out, sign, int>>

ReadSign ==
    /\ pc = "spaces" /\ (text # << >> => ~isspace(Head(text)))
    /\ pc' = "number"
    /\ IF text # << >> /\ Head(text) = "-" THEN sign' = -1 /\ text' = Tail(text)
                                           ELSE UNCHANGED <<sign, text>>
    /\ UNCHANGED <<call, format, args, value, base, buffer, room, out, int>>

AtDigit == text # << >> /\ isdigit(Head(text))

\* A mistake: the value does not wrap around.
ReadDigit_Wide ==
    /\ pc = "number" /\ AtDigit
    /\ int' = int * 10 + Decimal(Head(text))
    /\ text' = Tail(text)
    /\ UNCHANGED <<call, pc, format, args, value, base, buffer, room, out, sign>>

ReadDigit ==
    /\ pc = "number" /\ AtDigit
    /\ int' = Signed(Bits(int * 10 + Decimal(Head(text))))
    /\ text' = Tail(text)
    /\ UNCHANGED <<call, pc, format, args, value, base, buffer, room, out, sign>>

\* A mistake: the sign is read and forgotten.
NumberEnd_Unsigned ==
    /\ pc = "number" /\ ~AtDigit
    /\ pc' = "idle"
    /\ UNCHANGED <<call, format, args, value, base, buffer, room, out, text, sign, int>>

NumberEnd ==
    /\ pc = "number" /\ ~AtDigit
    /\ int' = Signed(Bits(int * sign))
    /\ pc' = "idle"
    /\ UNCHANGED <<call, format, args, value, base, buffer, room, out, text, sign>>

Callers ==
    \/ \E pieces \in Formats : printf(pieces)
    \/ \E word \in Words : print_uint(word)
    \/ \E t \in Texts : puts(t) \/ atoi(t)
    \/ out # << >> /\ atoi(out)
    \/ \E c \in Char : putchar(c)

Work == \/ Plain \/ Conversion \/ FormatEnd \/ Divide \/ EmitDigits
        \/ SkipSpace \/ ReadSign \/ ReadDigit \/ NumberEnd

Next == Callers \/ Work

\* The processor keeps executing a call that is in progress.
Spec == Init /\ [][Next]_vars /\ WF_vars(Work)

-----------------------------------------------------------------------------
TypeOK ==
    /\ pc \in {"idle", "format", "digits", "spaces", "number"}
    /\ value \in Words
    /\ Len(buffer) <= room
    /\ sign \in {1, -1}
    /\ int \in {Signed(word) : word \in Words}

\* The numeral of n in base b, first digit first.
Numeral(n, b) ==
    LET N[k \in Words] == IF k < b THEN <<DigitChar(k)>>
                          ELSE Append(N[k \div b], DigitChar(k % b))
    IN  N[n]

SignedNumeral(n) == IF n < 0 THEN <<"-">> \o Numeral(-n, 10) ELSE Numeral(n, 10)

\* What a piece of a format stands for.
Rendered(piece) ==
    CASE piece.args = << >> -> IF piece.chars = <<"%", "%">> THEN <<"%">> ELSE piece.chars
      [] piece.chars = <<"%", "s">> -> piece.args[1]
      [] piece.chars = <<"%", "c">> -> piece.args
      [] piece.chars \in {<<"%", "d">>, <<"%", "i">>} -> SignedNumeral(Signed(piece.args[1]))
      [] piece.chars = <<"%", "u">> -> Numeral(piece.args[1], 10)
      [] piece.chars = <<"%", "x">> -> Numeral(piece.args[1], 16)

Shown(pieces) == FlattenSeq([k \in DOMAIN pieces |-> Rendered(pieces[k])])

Asked ==
    CASE call.name = "printf" -> Shown(call.what)
      [] call.name = "print_uint" -> Numeral(call.what, 10)
      [] call.name = "puts" -> Append(call.what, "\n")
      [] call.name = "putchar" -> <<call.what>>
      [] OTHER -> << >>

\* What a call has printed when it returns is each piece of its format in its
\* order, with its own argument, and each number whole: the digits that come
\* out of the divisions last one first all fit in the buffer, and the most
\* negative integer, whose negation overflows, still prints as itself.
PrintsWhatIsAsked == pc = "idle" => out = Asked

\* The first piece of a format that is no space is a signed number, and what
\* follows it does not begin with a digit.
StartsWithNumber(pieces, n) ==
    /\ pieces[n].chars \in {<<"%", "d">>, <<"%", "i">>}
    /\ \A k \in 1 .. n - 1 : pieces[k].chars = <<" ">>
    /\ LET rest == Shown(SubSeq(pieces, n + 1, Len(pieces)))
       IN  rest # << >> => ~isdigit(Head(rest))

\* atoi reads back every integer that printf has printed, the most negative one
\* included, for which both its value and the change of sign overflow.
AtoiReadsPrintf ==
    pc = "idle" /\ call.name = "atoi" =>
        \A n \in DOMAIN call.of :
            StartsWithNumber(call.of, n) => int = Signed(call.of[n].args[1])

\* Every call returns: the quotients reach 0 and the texts their ends.
CallsReturn == pc # "idle" ~> pc = "idle"
=============================================================================
