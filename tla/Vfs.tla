--------------------------------- MODULE Vfs ---------------------------------
(***************************************************************************)
(* The in-memory file system, kernel/fs/vfs.cpp: a table of fixed-size     *)
(* slots, the first file_count of which hold the files.  Each method is    *)
(* called by the shell and runs to completion: it is one action.           *)
(*                                                                         *)
(* Paths and texts are sequences of characters; the string in a slot's     *)
(* data array is what comes before the first NUL, and what a shorter text  *)
(* leaves behind it stays in the array.                                    *)
(***************************************************************************)
EXTENDS Naturals, Sequences, FiniteSets

CONSTANTS MAX_FILES, NAME_SIZE, DATA_SIZE,  \* XBTOS_MAX_FILES, ..., vfs.h
          Char,        \* the characters of paths and texts
          Separator,   \* those that are a path separator
          Dot,         \* the character '.'
          NUL,         \* the terminating character
          Paths,       \* the paths clients name files by
          Texts,       \* the texts they store
          NULLPTR      \* a null pointer instead of a text

ASSUME VfsAssumption ==
    /\ MAX_FILES \in Nat \ {0}
    /\ NAME_SIZE \in Nat \ {0}
    /\ DATA_SIZE \in Nat \ {0}
    /\ Separator \subseteq Char
    /\ Dot \in Char
    /\ NUL \notin Char
    /\ Paths \subseteq Seq(Char)
    /\ Texts \subseteq Seq(Char)
    /\ NULLPTR \notin Texts

VARIABLES files,       \* the slots
          file_count,
          reply        \* what the last call returned

vars == <<files, file_count, reply>>

Slots == 0 .. (MAX_FILES - 1)

Offsets == 0 .. (DATA_SIZE - 1)

Slot(name, is_used, data, size) ==
    [name |-> name, is_used |-> is_used, data |-> data, size |-> size]

Blank == [k \in Offsets |-> NUL]

\* The slot cleared by kmemset.
NoFile == Slot(<< >>, FALSE, Blank, 0)

-----------------------------------------------------------------------------
\* normalize_name: drop the leading separators; what is left must be non-empty,
\* short enough, free of separators and must not start with a dot.
Leading(path) ==
    CHOOSE k \in 0 .. Len(path) :
        /\ \A i \in 1 .. k : path[i] \in Separator
        /\ k < Len(path) => path[k + 1] \notin Separator

normalize_name(path) == SubSeq(path, Leading(path) + 1, Len(path))

IsName(name) ==
    /\ name # << >>
    /\ name[1] # Dot
    /\ Len(name) < NAME_SIZE
    /\ \A i \in 1 .. Len(name) : name[i] \notin Separator

Valid(path) == IsName(normalize_name(path))

-----------------------------------------------------------------------------
Matches(i, name) == files[i].is_used /\ files[i].name = name

\* A mistake: the loop stops before the last file.
Finds_NotLast(i, name) == i + 1 < file_count /\ Matches(i, name)

\* find: the first of the first file_count slots with that name.
Finds(i, name) ==
    /\ i < file_count
    /\ Matches(i, name)
    /\ \A k \in Slots : k < i => ~Matches(k, name)

Found(name) == \E i \in Slots : Finds(i, name)

Answer(code, text, size) == [code |-> code, text |-> text, size |-> size]

Code(code) == Answer(code, << >>, 0)

Fail(code) == reply' = Code(code) /\ UNCHANGED <<files, file_count>>

\* What create puts in the slot it allocates.
NewFile(name) == Slot(name, TRUE, Blank, 0)

\* A mistake: one file too many.
HasRoom_AtMost == file_count <= MAX_FILES

HasRoom == file_count < MAX_FILES

Init ==
    /\ files = [i \in Slots |-> NoFile]
    /\ file_count = 0
    /\ reply = Code("OK")

create(path) ==
    LET name == normalize_name(path)
    IN  \/ ~Valid(path) /\ Fail("INVALID_NAME")
        \/ Valid(path) /\ Found(name) /\ Fail("EXISTS")
        \/ Valid(path) /\ ~Found(name) /\ ~HasRoom /\ Fail("FULL")
        \/ /\ Valid(path) /\ ~Found(name) /\ HasRoom
           /\ files' = [files EXCEPT ![file_count] = NewFile(name)]
           /\ file_count' = file_count + 1
           /\ reply' = Code("OK")

\* A mistake: the text is not terminated.
Copy_Unterminated(file, at, text) ==
    Slot(file.name, file.is_used,
         [k \in Offsets |-> IF k \in at .. (at + Len(text) - 1)
                            THEN text[k - at + 1] ELSE file.data[k]],
         at + Len(text))

\* kmemcpy of the text to data + at, the NUL behind it and the new size.
Copy(file, at, text) ==
    Slot(file.name, file.is_used,
         [k \in Offsets |-> IF k \in at .. (at + Len(text) - 1)
                            THEN text[k - at + 1]
                            ELSE IF k = at + Len(text) THEN NUL
                            ELSE file.data[k]],
         at + Len(text))

\* Mistakes: no room is left for the NUL; the old text is dropped before the
\* new one is known to fit.
Store_Tight(fs, i, at, text) ==
    IF at + Len(text) <= DATA_SIZE
    THEN files' = [fs EXCEPT ![i] = Copy(@, at, text)] /\ reply' = Code("OK")
    ELSE files' = fs /\ reply' = Code("TOO_LARGE")

Store_DropFirst(fs, i, at, text) ==
    IF at + Len(text) < DATA_SIZE
    THEN files' = [fs EXCEPT ![i] = Copy(@, at, text)] /\ reply' = Code("OK")
    ELSE /\ files' = [fs EXCEPT ![i] = Copy(@, at, << >>)]
         /\ reply' = Code("TOO_LARGE")

\* A mistake: an appended text overwrites the old one.
Store_AtStart(fs, i, at, text) ==
    IF at + Len(text) < DATA_SIZE
    THEN files' = [fs EXCEPT ![i] = Copy(@, 0, text)] /\ reply' = Code("OK")
    ELSE files' = fs /\ reply' = Code("TOO_LARGE")

\* The part of write and append behind find-or-create: the text is copied to
\* offset at of the file in slot i of the table fs, unless it is too large.
Store(fs, i, at, text) ==
    IF at + Len(text) < DATA_SIZE
    THEN files' = [fs EXCEPT ![i] = Copy(@, at, text)] /\ reply' = Code("OK")
    ELSE files' = fs /\ reply' = Code("TOO_LARGE")

\* Both look the file up and create it when it is missing; a text that turns
\* out too large leaves the created file behind.
StoreInNew(path, text) ==
    LET name == normalize_name(path)
    IN  /\ ~Found(name)
        /\ HasRoom
        /\ file_count' = file_count + 1
        /\ Store([files EXCEPT ![file_count] = NewFile(name)], file_count, 0, text)

write(path, content) ==
    LET name == normalize_name(path)
        text == IF content = NULLPTR THEN << >> ELSE content
    IN  \/ ~Valid(path) /\ Fail("INVALID_NAME")
        \/ Valid(path) /\ ~Found(name) /\ ~HasRoom /\ Fail("FULL")
        \/ Valid(path) /\ StoreInNew(path, text)
        \/ /\ Valid(path)
           /\ \E i \in Slots : Finds(i, name) /\ Store(files, i, 0, text)
           /\ UNCHANGED file_count

append(path, content) ==
    LET name == normalize_name(path)
    IN  \/ content = NULLPTR /\ Fail("OK")
        \/ /\ content # NULLPTR
           /\ \/ ~Valid(path) /\ Fail("INVALID_NAME")
              \/ Valid(path) /\ ~Found(name) /\ ~HasRoom /\ Fail("FULL")
              \/ Valid(path) /\ StoreInNew(path, content)
              \/ /\ Valid(path)
                 /\ \E i \in Slots : /\ Finds(i, name)
                                     /\ Store(files, i, files[i].size, content)
                 /\ UNCHANGED file_count

\* The C string in a data array: what comes before the first NUL.
Text(data) ==
    LET len == CHOOSE n \in Offsets :
                  data[n] = NUL /\ \A k \in Offsets : k < n => data[k] # NUL
    IN  [k \in 1 .. len |-> data[k - 1]]

\* read returns the data of the file, or nullptr; exists is read # nullptr.
read(path) ==
    LET name == normalize_name(path)
    IN  /\ UNCHANGED <<files, file_count>>
        /\ \/ /\ ~(Valid(path) /\ Found(name))
              /\ reply' = Code("NOT_FOUND")
           \/ /\ Valid(path)
              /\ \E i \in Slots : /\ Finds(i, name)
                                  /\ reply' = Answer("OK", Text(files[i].data), 0)

\* stat answers in a record of its caller, if it is given one.
stat(path, out_stat) ==
    LET name == normalize_name(path)
    IN  /\ UNCHANGED <<files, file_count>>
        /\ \/ ~out_stat /\ reply' = Code("INVALID_NAME")
           \/ /\ out_stat /\ ~(Valid(path) /\ Found(name))
              /\ reply' = Code("NOT_FOUND")
           \/ /\ out_stat /\ Valid(path)
              /\ \E i \in Slots :
                    /\ Finds(i, name)
                    /\ reply' = Answer("OK", files[i].name, files[i].size)

\* list prints a line with name and size for each slot in use, in their order;
\* it returns nothing, so its answer has a code of its own.
list ==
    LET used == {i \in Slots : i < file_count /\ files[i].is_used}
    IN  /\ reply' = Answer("LISTING",
                           [i \in used |-> <<files[i].name, files[i].size>>], 0)
        /\ UNCHANGED <<files, file_count>>

\* A mistake: the gap is not filled.
Removed_Gap(i) == [files EXCEPT ![i] = NoFile]

\* The table without the file in slot i: the last file moves into the gap.
Removed(i) ==
    [files EXCEPT ![i] = files[file_count - 1], ![file_count - 1] = NoFile]

remove(path) ==
    LET name == normalize_name(path)
    IN  \/ ~Valid(path) /\ Fail("INVALID_NAME")
        \/ Valid(path) /\ ~Found(name) /\ Fail("NOT_FOUND")
        \/ /\ Valid(path)
           /\ \E i \in Slots : Finds(i, name) /\ files' = Removed(i)
           /\ file_count' = file_count - 1
           /\ reply' = Code("OK")

Next ==
    \/ list
    \/ \E path \in Paths :
          \/ create(path) \/ read(path) \/ remove(path)
          \/ \E out_stat \in BOOLEAN : stat(path, out_stat)
          \/ \E content \in Texts \cup {NULLPTR} :
                write(path, content) \/ append(path, content)

Spec == Init /\ [][Next]_vars

-----------------------------------------------------------------------------
File == [name : Seq(Char), is_used : BOOLEAN,
         data : [Offsets -> Char \cup {NUL}], size : Nat]

TypeOK ==
    /\ files \in [Slots -> File]
    /\ file_count \in 0 .. MAX_FILES
    /\ reply.code \in {"OK", "NOT_FOUND", "EXISTS", "FULL", "INVALID_NAME",
                       "TOO_LARGE", "LISTING"}

\* The files occupy exactly the first file_count slots, and the other slots are
\* clear: the loops of find, list and remove stop at file_count, so a file
\* left behind it by the swap in remove would be lost.
SlotsCompact ==
    \A i \in Slots : IF i < file_count THEN files[i].is_used
                                       ELSE files[i] = NoFile

\* No two files have the same name, and each file is found under the name it
\* is stored with: neither create nor the create inside write and append may
\* store a name that find would not reach.
NamesReachFiles ==
    /\ \A i, k \in Slots :
          i < file_count /\ k < file_count /\ files[i].name = files[k].name => i = k
    /\ \A i \in Slots : i < file_count => IsName(files[i].name)

\* The size of a file is the length of the string in its data, and the string
\* ends inside the array: read, which goes by the NUL, and append and stat,
\* which go by the size, agree on where the text ends.
SizeIsTextLength ==
    \A i \in Slots :
        /\ files[i].size < DATA_SIZE
        /\ files[i].data[files[i].size] = NUL
        /\ \A k \in Offsets : k < files[i].size => files[i].data[k] # NUL

\* A call that reports an error changes no file that was there before it.
FailureKeepsFiles ==
    [][reply'.code # "OK" =>
          \A i \in Slots : i < file_count => files'[i] = files[i]]_vars

\* The files as a map from their names to the strings in their data.
StoredFiles ==
    LET Live == {i \in Slots : i < file_count}
        At(name) == CHOOSE i \in Live : files[i].name = name
    IN  [name \in {files[i].name : i \in Live} |-> Text(files[At(name)].data)]

F == INSTANCE FileStore WITH store <- StoredFiles,
                             Names <- {normalize_name(path) : path \in Paths},
                             Texts <- Texts \cup {<< >>},
                             Capacity <- MAX_FILES,
                             Limit <- DATA_SIZE

\* The file system behaves as a bounded map from names to texts.
FileStoreSpec == F!Spec
=============================================================================
