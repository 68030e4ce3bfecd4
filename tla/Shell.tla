-------------------------------- MODULE Shell --------------------------------
(***************************************************************************)
(* The shell, execute_command of kernel/main.cpp, over the file system,    *)
(* the application manager and the language of the messages.  The line     *)
(* editor (module LineEditor) calls it with one line at a time and waits   *)
(* for it to return: a command is one action.                              *)
(*                                                                         *)
(* A line is a verb and the characters behind it.  Verbs that take an      *)
(* argument are recognised by the space behind them, the others only when  *)
(* nothing follows.  What a command prints is the message's identifier.    *)
(***************************************************************************)
EXTENDS Naturals, Sequences, FiniteSets

CONSTANTS MAX_FILES, NAME_SIZE, DATA_SIZE, Char, Separator, Dot, NUL, NULLPTR,
          MAX_APPS, CONTAINER_SIZE, PREFIX, Slash, SafePermissions,
          Space,              \* the character ' '
          ZhNames, EnNames,   \* what "lang" calls the two languages
          Builtin,            \* the applications registered at start, in order
          Lines               \* what may follow a verb on a line: a number of
                              \* spaces, a word, more spaces and a text

\* Every sequence of characters is of this form in one way, and no text on a
\* line is a null pointer.
ASSUME LinesAssumption ==
    \A line \in Lines :
        /\ line.lead \in Nat /\ line.gap \in Nat
        /\ line.word \in Seq(Char) /\ line.text \in Seq(Char)
        /\ \A k \in 1 .. Len(line.word) : line.word[k] # Space
        /\ line.word = << >> => line.gap = 0
        /\ line.gap = 0 => line.text = << >>
        /\ line.text # << >> => line.text[1] # Space
        /\ line.text # NULLPTR

ASSUME ShellAssumption ==
    /\ MAX_APPS \in Nat
    /\ CONTAINER_SIZE \in Nat
    /\ PREFIX \in Nat
    /\ MAX_FILES \in Nat \ {0} /\ NAME_SIZE \in Nat \ {0} /\ DATA_SIZE \in Nat \ {0}
    /\ Separator \subseteq Char /\ Dot \in Char /\ Space \in Char /\ NUL \notin Char
    /\ Len(Builtin) \in Nat /\ DOMAIN Builtin = 1 .. Len(Builtin)
    /\ \A k \in 1 .. Len(Builtin) :
          LET manifest == Builtin[k].manifest
          IN  manifest # NULLPTR => manifest.identifier \in Seq(Char) \cup {NULLPTR}

Spaces(n) == [k \in 1 .. n |-> Space]

Characters(line) == Spaces(line.lead) \o line.word \o Spaces(line.gap) \o line.text

Args == {Characters(line) : line \in Lines}

VARIABLES files, file_count, reply, apps, app_count, launched,
          pending,            \* how many of Builtin are registered
          current_language,
          printed             \* the message of the last command

V == INSTANCE Vfs WITH Paths <- {}, Texts <- {}

M == INSTANCE AppManager

vars == <<files, file_count, reply, apps, app_count, launched, pending,
          current_language, printed>>

-----------------------------------------------------------------------------
starts_with_space(args) == args # << >> /\ args[1] = Space

\* The length of the longest prefix of spaces, or of other characters.
Span(text, spaces) ==
    CHOOSE n \in 0 .. Len(text) :
        /\ \A k \in 1 .. n : (text[k] = Space) = spaces
        /\ n < Len(text) => (text[n + 1] = Space) # spaces

From(text, n) == SubSeq(text, n + 1, Len(text))

skip_spaces(text) == From(text, Span(text, TRUE))

Word(text) == SubSeq(text, 1, Span(text, FALSE))

\* The first word, cut off to fit in a buffer of NAME_SIZE bytes.
copy_token(text) ==
    LET word == Word(text)
    IN  SubSeq(word, 1, IF Len(word) < NAME_SIZE THEN Len(word) ELSE NAME_SIZE - 1)

\* A mistake: the spaces behind the first word are part of the text.
Content_Spaced(text) == From(text, Len(Word(text)))

\* What rec and append store: the line behind the first word and its spaces.
Content(text) == skip_spaces(From(text, Len(Word(text))))

\* The message for the answer of the file system.
Result(success) ==
    CASE reply'.code = "OK" -> success
      [] reply'.code = "NOT_FOUND" -> "MSG_FILE_NOT_FOUND"
      [] OTHER -> reply'.code

\* The answer of the file system is a local variable of the command; one that
\* does not ask it has none.
NoFileCall == UNCHANGED <<files, file_count>> /\ reply' = V!Code("OK")

-----------------------------------------------------------------------------
\* The commands: each is guarded by its prefix and works on what follows it.
touch(args) ==
    /\ starts_with_space(args)
    /\ V!create(skip_spaces(args))
    /\ printed' = Result("MSG_FILE_CREATED")
    /\ UNCHANGED <<apps, app_count, launched, current_language>>

rdf(args) ==
    /\ starts_with_space(args)
    /\ V!read(skip_spaces(args))
    /\ printed' = Result("content")
    /\ UNCHANGED <<apps, app_count, launched, current_language>>

\* A mistake: a missing text is stored as the empty one.
rec_NoUsage(args) ==
    /\ starts_with_space(args)
    /\ V!write(copy_token(skip_spaces(args)), Content(skip_spaces(args)))
    /\ printed' = Result("MSG_FILE_WRITE_OK")
    /\ UNCHANGED <<apps, app_count, launched, current_language>>

rec(args) ==
    LET filename == copy_token(skip_spaces(args))
        content == Content(skip_spaces(args))
    IN  /\ starts_with_space(args)
        /\ \/ /\ filename = << >> \/ content = << >>
              /\ printed' = "MSG_USAGE_WRITE"
              /\ NoFileCall
           \/ /\ filename # << >> /\ content # << >>
              /\ V!write(filename, content)
              /\ printed' = Result("MSG_FILE_WRITE_OK")
        /\ UNCHANGED <<apps, app_count, launched, current_language>>

append(args) ==
    /\ starts_with_space(args)
    /\ V!append(copy_token(skip_spaces(args)), Content(skip_spaces(args)))
    /\ printed' = Result("MSG_FILE_WRITE_OK")
    /\ UNCHANGED <<apps, app_count, launched, current_language>>

rm(args) ==
    /\ starts_with_space(args)
    /\ V!remove(skip_spaces(args))
    /\ printed' = Result("MSG_FILE_DELETED")
    /\ UNCHANGED <<apps, app_count, launched, current_language>>

stat(args) ==
    /\ starts_with_space(args)
    /\ V!stat(skip_spaces(args), TRUE)
    /\ printed' = Result("stat")
    /\ UNCHANGED <<apps, app_count, launched, current_language>>

run(args) ==
    /\ starts_with_space(args)
    /\ \/ M!launch(skip_spaces(args)) /\ printed' = "launching"
       \/ M!launch_fails(skip_spaces(args)) /\ printed' = "App not found."
    /\ NoFileCall
    /\ UNCHANGED current_language

\* A known name switches the language, any other returns false.
set_language_by_name(name, known) ==
    /\ known = (name \in ZhNames \cup EnNames)
    /\ current_language' = IF name \in ZhNames THEN "LANG_ZH_CN"
                           ELSE IF name \in EnNames THEN "LANG_EN"
                           ELSE current_language

\* The answer is already in the new language.
lang(args) ==
    /\ starts_with_space(args)
    /\ \/ /\ set_language_by_name(skip_spaces(args), TRUE)
          /\ printed' = IF current_language' = "LANG_ZH_CN" THEN "MSG_LANGUAGE_ZH"
                                                           ELSE "MSG_LANGUAGE_EN"
       \/ /\ set_language_by_name(skip_spaces(args), FALSE)
          /\ printed' = "MSG_HELP_LANG"
    /\ NoFileCall
    /\ UNCHANGED <<apps, app_count, launched>>

lst ==
    /\ V!list
    /\ printed' = "files"
    /\ UNCHANGED <<apps, app_count, launched, current_language>>

\* help, clear, about, sysinfo, dirs, apps and every line that is no command
\* only print.
PrintOnly ==
    /\ printed' = "information"
    /\ NoFileCall
    /\ UNCHANGED <<apps, app_count, launched, current_language>>

execute_command ==
    \/ PrintOnly \/ lst
    \/ \E args \in Args :
          \/ touch(args) \/ rdf(args) \/ rec(args) \/ append(args)
          \/ rm(args) \/ stat(args) \/ run(args) \/ lang(args)

\* kernel_main registers the applications before the first prompt.
register_builtin_apps ==
    /\ pending < Len(Builtin)
    /\ pending' = pending + 1
    /\ M!register_app(Builtin[pending'].manifest, Builtin[pending'].entry)
    /\ UNCHANGED <<files, file_count, reply, current_language, printed>>

Init ==
    /\ V!Init
    /\ M!AppInit
    /\ pending = 0
    /\ current_language = "LANG_ZH_CN"
    /\ printed = "MSG_WELCOME"

Next ==
    \/ register_builtin_apps
    \/ pending = Len(Builtin) /\ execute_command /\ UNCHANGED pending

Spec == Init /\ [][Next]_vars

-----------------------------------------------------------------------------
\* The types of the three parts.
TypeOK ==
    /\ V!TypeOK
    /\ apps \in [M!AppSlots -> [manifest : {NULLPTR} \cup {Builtin[k].manifest : k \in DOMAIN Builtin},
                                entry : {NULLPTR} \cup {Builtin[k].entry : k \in DOMAIN Builtin},
                                is_used : BOOLEAN]]
    /\ app_count \in 0 .. MAX_APPS
    /\ pending \in 0 .. Len(Builtin)
    /\ current_language \in {"LANG_ZH_CN", "LANG_EN"}

IdentifiersUnique == M!IdentifiersUnique

ContainersDistinct == M!ContainersDistinct

\* The files as a map from names to texts.
Stored == V!StoredFiles

\* "File written." is printed only when the file named now holds the text.
KeepsWord(line) ==
    printed' = "MSG_FILE_WRITE_OK" /\ rec(Characters(line)) =>
        /\ V!normalize_name(line.word) \in DOMAIN Stored'
        /\ Stored'[V!normalize_name(line.word)] = line.text

\* After "rec w t" is answered with "File written." the file named w holds
\* exactly t, whatever spaces the line has and whatever was there before; for
\* the words that fit in the name buffer.
RecStoresText ==
    [][\A line \in Lines : Len(line.word) < NAME_SIZE => KeepsWord(line)]_vars

\* append answers with the same message.
AddsText(line) ==
    LET name == V!normalize_name(line.word)
        old == IF name \in DOMAIN Stored THEN Stored[name] ELSE << >>
    IN  printed' = "MSG_FILE_WRITE_OK" /\ append(Characters(line)) =>
            name \in DOMAIN Stored' /\ Stored'[name] = old \o line.text

\* After "append w t" is answered with "File written." the file named w holds
\* its old text and t behind it; without a t the file is there and unchanged,
\* or created empty.
AppendAddsText ==
    [][\A line \in Lines : Len(line.word) < NAME_SIZE => AddsText(line)]_vars

\* "rec" with no text is answered with the usage and never empties a file.
RecNeverEmpties ==
    [][(\E n \in DOMAIN Stored :
           Stored[n] # << >> /\ (n \in DOMAIN Stored' => Stored'[n] = << >>))
       => \A args \in Args : ~rec(args)]_vars

\* A command works on one file: every other keeps its text, although remove moves
\* files between slots and a long text may fail after its file was created.
OneFileAtATime ==
    [][Cardinality({n \in DOMAIN Stored \cup DOMAIN Stored' :
                       \/ n \notin DOMAIN Stored \cap DOMAIN Stored'
                       \/ Stored[n] # Stored'[n]}) <= 1]_vars
=============================================================================
