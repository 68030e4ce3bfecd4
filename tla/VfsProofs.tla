------------------------------ MODULE VfsProofs ------------------------------
(***************************************************************************)
(* Proofs about the file system, for every number of slots, every name and *)
(* data size and every set of paths and texts.                             *)
(*                                                                         *)
(* The four invariants of module Vfs are inductive together.  The proof    *)
(* takes the table of files and its count as parameters: write and append  *)
(* first extend the table and then store in the extended one, which no     *)
(* state between two actions shows.                                        *)
(*                                                                         *)
(* Then: the file system implements FileStore.  Every call takes the map   *)
(* from names to texts, computed from the slots and their bytes, to the    *)
(* map the abstract operation gives.  A table is related to a map by       *)
(* Represents; what the code does to one slot is one of three lemmas: a    *)
(* new slot, a stored slot, a removed one.                                 *)
(***************************************************************************)
EXTENDS Vfs, NaturalOrder, SequenceTheorems, FiniteSetTheorems, TLAPS

\* A slot whose string ends where its size says.
FileOK(f) ==
    /\ f \in File
    /\ f.size < DATA_SIZE
    /\ f.data[f.size] = NUL
    /\ \A k \in Offsets : k < f.size => f.data[k] # NUL

\* A table fs whose first n slots hold the files.
TableOK(fs, n) ==
    /\ n \in 0 .. MAX_FILES
    /\ fs \in [Slots -> File]
    /\ \A i \in Slots : FileOK(fs[i])
    /\ \A i \in Slots : IF i < n THEN fs[i].is_used ELSE fs[i] = NoFile
    /\ \A i \in Slots : i < n => IsName(fs[i].name)
    /\ \A i, k \in Slots : i < n /\ k < n /\ fs[i].name = fs[k].name => i = k

Codes == {"OK", "NOT_FOUND", "EXISTS", "FULL", "INVALID_NAME", "TOO_LARGE",
          "LISTING"}

IInv == TableOK(files, file_count) /\ reply.code \in Codes

-----------------------------------------------------------------------------
\* The invariant is the conjunction of the invariants of module Vfs.
LEMMA IInvParts ==
    IInv <=> TypeOK /\ SlotsCompact /\ NamesReachFiles /\ SizeIsTextLength
<1>1. ASSUME IInv PROVE TypeOK /\ SlotsCompact /\ NamesReachFiles /\ SizeIsTextLength
  BY <1>1 DEF IInv, TableOK, FileOK, Codes, TypeOK, SlotsCompact, NamesReachFiles,
              SizeIsTextLength
<1>2. ASSUME TypeOK, SlotsCompact, NamesReachFiles, SizeIsTextLength PROVE IInv
  <2>1. files \in [Slots -> File] /\ file_count \in 0 .. MAX_FILES /\ reply.code \in Codes
    BY <1>2 DEF TypeOK, Codes
  <2>2. \A i \in Slots : FileOK(files[i])
    BY <1>2, <2>1 DEF FileOK, SizeIsTextLength
  <2> QED
    BY <1>2, <2>1, <2>2 DEF IInv, TableOK, SlotsCompact, NamesReachFiles
<1> QED
  BY <1>1, <1>2

\* normalize_name strips a prefix of its path: the result is a string.
LEMMA NormalizedType ==
    ASSUME NEW path \in Seq(Char)
    PROVE  normalize_name(path) \in Seq(Char)
<1> DEFINE Stops(k) == /\ \A i \in 1 .. k : path[i] \in Separator
                       /\ k < Len(path) => path[k + 1] \notin Separator
           T == {k \in 0 .. Len(path) : k < Len(path) => path[k + 1] \notin Separator}
<1>1. Len(path) \in Nat
  OBVIOUS
<1>2. T \subseteq Nat /\ Len(path) \in T
  BY <1>1
<1>3. PICK m \in T : \A n \in T : m <= n
  <2> HIDE DEF T
  <2> QED
    BY <1>2, LeastElement
<1>4. m \in 0 .. Len(path) /\ Stops(m)
  <2>1. m \in 0 .. Len(path) /\ (m < Len(path) => path[m + 1] \notin Separator)
    BY <1>3
  <2>2. ASSUME NEW i \in 1 .. m PROVE path[i] \in Separator
    <3>1. i - 1 \in 0 .. Len(path) /\ i - 1 < m /\ i - 1 < Len(path) /\ (i - 1) + 1 = i
      BY <1>1, <2>1
    <3>2. i - 1 \notin T
      BY <1>3, <2>1, <3>1
    <3> QED
      BY <3>1, <3>2
  <2> QED
    BY <2>1, <2>2
<1>5. Leading(path) \in 0 .. Len(path)
  BY <1>4 DEF Leading
<1> QED
  BY <1>1, <1>5, SubSeqProperties DEF normalize_name

\* The slot create leaves: an empty file with the given name.
LEMMA NewFileFacts ==
    ASSUME NEW name \in Seq(Char)
    PROVE  /\ FileOK(NoFile) /\ FileOK(NewFile(name))
           /\ NewFile(name).name = name /\ NewFile(name).is_used
<1>1. DATA_SIZE \in Nat \ {0} /\ << >> \in Seq(Char) /\ 0 \in Offsets
  BY VfsAssumption DEF Offsets
<1>2. Blank \in [Offsets -> Char \cup {NUL}] /\ Blank[0] = NUL
  BY <1>1 DEF Blank
<1>3. FileOK(NoFile)
  BY <1>1, <1>2 DEF FileOK, File, NoFile, Slot, Offsets
<1>4. FileOK(NewFile(name))
  BY <1>1, <1>2 DEF FileOK, File, NewFile, Slot, Offsets
<1> QED
  BY <1>3, <1>4 DEF NewFile, Slot

\* The copy of a text to the start or the end of the old one, with the NUL
\* behind it, again ends where the size says.
LEMMA CopyFacts ==
    ASSUME NEW f, FileOK(f), NEW at \in {0, f.size}, NEW text \in Seq(Char),
           at + Len(text) < DATA_SIZE
    PROVE  /\ FileOK(Copy(f, at, text))
           /\ Copy(f, at, text).name = f.name
           /\ Copy(f, at, text).is_used = f.is_used
<1> DEFINE data == [k \in Offsets |->
                      IF k \in at .. (at + Len(text) - 1) THEN text[k - at + 1]
                      ELSE IF k = at + Len(text) THEN NUL
                      ELSE f.data[k]]
           size == at + Len(text)
<1>1. /\ f \in File /\ f.size \in Nat /\ f.size < DATA_SIZE /\ DATA_SIZE \in Nat
      /\ f.name \in Seq(Char) /\ f.is_used \in BOOLEAN
      /\ f.data \in [Offsets -> Char \cup {NUL}]
      /\ Len(text) \in Nat /\ at \in Nat /\ at <= f.size
      /\ \A k \in Offsets : k < f.size => f.data[k] # NUL
      /\ \A k \in 1 .. Len(text) : text[k] \in Char
      /\ NUL \notin Char
  BY VfsAssumption DEF FileOK, File
<1>2. Copy(f, at, text) = [name |-> f.name, is_used |-> f.is_used,
                           data |-> data, size |-> size]
  BY DEF Copy, Slot
<1>3. size \in Nat /\ size < DATA_SIZE /\ size \in Offsets
  BY <1>1 DEF Offsets
<1>4. ASSUME NEW k \in Offsets
      PROVE  /\ data[k] \in Char \cup {NUL}
             /\ k = size => data[k] = NUL
             /\ k < size => data[k] # NUL
  <2>1. k \in Nat
    BY DEF Offsets
  <2>2. CASE k < at
    BY <1>1, <2>1, <2>2
  <2>3. CASE at <= k /\ k < size
    <3>1. k \in at .. (at + Len(text) - 1) /\ k - at + 1 \in 1 .. Len(text)
      BY <1>1, <2>1, <2>3
    <3>2. data[k] = text[k - at + 1]
      BY <3>1
    <3> QED
      BY <1>1, <1>3, <2>1, <2>3, <3>1, <3>2
  <2>4. CASE size <= k
    <3>1. k \notin at .. (at + Len(text) - 1)
      BY <1>1, <2>1, <2>4
    <3> QED
      BY <1>1, <1>3, <2>1, <2>4, <3>1
  <2> QED
    BY <1>1, <1>3, <2>1, <2>2, <2>3, <2>4
<1> HIDE DEF data, size
<1>5. data \in [Offsets -> Char \cup {NUL}]
  <2>1. data = [k \in Offsets |-> data[k]]
    BY DEF data
  <2> QED
    BY <1>4, <2>1
<1>6. FileOK(Copy(f, at, text))
  BY <1>1, <1>2, <1>3, <1>4, <1>5 DEF FileOK, File
<1> QED
  BY <1>2, <1>6

-----------------------------------------------------------------------------
\* What an invariant table offers to the arithmetic on slots.
LEMMA SlotFacts ==
    ASSUME NEW fs, NEW n, TableOK(fs, n)
    PROVE  /\ n \in Nat /\ n <= MAX_FILES /\ MAX_FILES \in Nat
           /\ DATA_SIZE \in Nat \ {0}
           /\ n < MAX_FILES => n \in Slots
           /\ n # 0 => n - 1 \in Slots
           /\ \A i \in Slots : i \in Nat
           /\ \A i \in Slots : i < n \/ ~ fs[i].is_used
BY VfsAssumption DEF TableOK, Slots, NoFile, Slot

\* create stores its file in the first unused slot.
LEMMA TableExtended ==
    ASSUME NEW fs, NEW n, TableOK(fs, n), n < MAX_FILES,
           NEW name \in Seq(Char), IsName(name),
           \A i \in Slots : i < n => fs[i].name # name
    PROVE  TableOK([fs EXCEPT ![n] = NewFile(name)], n + 1)
<1> DEFINE t == [fs EXCEPT ![n] = NewFile(name)]
<1>1. /\ n \in Nat /\ n \in Slots /\ n + 1 \in 0 .. MAX_FILES
      /\ \A i \in Slots : i \in Nat /\ (i < n + 1 <=> i < n \/ i = n)
  BY SlotFacts
<1>2. fs \in [Slots -> File] /\ \A i \in Slots : FileOK(fs[i])
  BY DEF TableOK
<1>3. FileOK(NewFile(name)) /\ NewFile(name).name = name /\ NewFile(name).is_used
  BY NewFileFacts
<1>4. t \in [Slots -> File] /\ t[n] = NewFile(name) /\ \A i \in Slots \ {n} : t[i] = fs[i]
  BY <1>1, <1>2, <1>3 DEF FileOK
<1> HIDE DEF t
<1>5. \A i \in Slots : FileOK(t[i])
  BY <1>2, <1>3, <1>4
<1>6. \A i \in Slots : IF i < n + 1 THEN t[i].is_used ELSE t[i] = NoFile
  BY <1>1, <1>3, <1>4 DEF TableOK
<1>7. \A i \in Slots : i < n + 1 => IsName(t[i].name)
  BY <1>1, <1>3, <1>4 DEF TableOK
<1>8. \A i, k \in Slots : i < n + 1 /\ k < n + 1 /\ t[i].name = t[k].name => i = k
  BY <1>1, <1>3, <1>4 DEF TableOK
<1>9. TableOK(t, n + 1)
  BY <1>1, <1>4, <1>5, <1>6, <1>7, <1>8 DEF TableOK
<1> QED
  BY <1>9 DEF t

\* Storing a text that fits, at the start or behind the old one.
LEMMA TableStored ==
    ASSUME NEW fs, NEW n, TableOK(fs, n), NEW i \in Slots, i < n,
           NEW at \in {0, fs[i].size}, NEW text \in Seq(Char),
           at + Len(text) < DATA_SIZE
    PROVE  TableOK([fs EXCEPT ![i] = Copy(@, at, text)], n)
<1> DEFINE t == [fs EXCEPT ![i] = Copy(@, at, text)]
           f == Copy(fs[i], at, text)
<1>1. fs \in [Slots -> File] /\ \A k \in Slots : FileOK(fs[k])
  BY DEF TableOK
<1>2. FileOK(f) /\ f.name = fs[i].name /\ f.is_used = fs[i].is_used
  BY <1>1, CopyFacts
<1> HIDE DEF f
<1>3. t \in [Slots -> File] /\ t[i] = f /\ \A k \in Slots \ {i} : t[k] = fs[k]
  BY <1>1, <1>2 DEF FileOK, f
<1> HIDE DEF t
<1>4. \A k \in Slots : t[k].name = fs[k].name /\ t[k].is_used = fs[k].is_used
  BY <1>2, <1>3
<1>5. \A k \in Slots : FileOK(t[k])
  BY <1>1, <1>2, <1>3
<1>6. \A k \in Slots : IF k < n THEN t[k].is_used ELSE t[k] = NoFile
  BY <1>3, <1>4 DEF TableOK
<1>7. TableOK(t, n)
  BY <1>3, <1>4, <1>5, <1>6 DEF TableOK
<1> QED
  BY <1>7 DEF t

\* remove moves the last file into the gap, which may be the last slot itself.
LEMMA TableShrunk ==
    ASSUME NEW fs, NEW n, TableOK(fs, n), NEW i \in Slots, i < n
    PROVE  TableOK([fs EXCEPT ![i] = fs[n - 1], ![n - 1] = NoFile], n - 1)
<1> DEFINE t == [fs EXCEPT ![i] = fs[n - 1], ![n - 1] = NoFile]
           last == n - 1
<1>1. /\ n \in Nat /\ last \in Slots /\ last \in 0 .. MAX_FILES
      /\ \A k \in Slots : k \in Nat /\ (k < last <=> k < n /\ k # last)
  BY SlotFacts
<1>2. fs \in [Slots -> File] /\ \A k \in Slots : FileOK(fs[k])
  BY DEF TableOK
<1>3. FileOK(NoFile) /\ NoFile \in File
  <2>1. << >> \in Seq(Char)
    OBVIOUS
  <2> QED
    BY <2>1, NewFileFacts DEF FileOK
<1>4. /\ t \in [Slots -> File] /\ t[last] = NoFile
      /\ i # last => t[i] = fs[last]
      /\ \A k \in Slots \ {i, last} : t[k] = fs[k]
  BY <1>1, <1>2, <1>3
<1> HIDE DEF t, last
<1>5. \A k \in Slots : FileOK(t[k])
  BY <1>1, <1>2, <1>3, <1>4
<1>6. \A k \in Slots : IF k < last THEN t[k].is_used ELSE t[k] = NoFile
  <2>1. last < n
    BY <1>1 DEF last
  <2> QED
    BY <1>1, <1>4, <2>1 DEF TableOK
<1>7. last < n
  BY <1>1 DEF last
<1>8. \A k \in Slots : k < last => IsName(t[k].name)
  BY <1>1, <1>4, <1>7 DEF TableOK
<1>9. ASSUME NEW k \in Slots, NEW l \in Slots, k < last, l < last, t[k].name = t[l].name
      PROVE  k = l
  <2> DEFINE At(j) == IF j = i THEN last ELSE j
  <2>1. t[k] = fs[At(k)] /\ t[l] = fs[At(l)]
    BY <1>1, <1>4, <1>9
  <2>2. At(k) < n /\ At(l) < n /\ At(k) \in Slots /\ At(l) \in Slots
    BY <1>1, <1>7, <1>9
  <2>3. At(k) = At(l)
    BY <1>9, <2>1, <2>2 DEF TableOK
  <2> QED
    BY <1>1, <1>9, <2>3
<1>10. TableOK(t, last)
  BY <1>1, <1>4, <1>5, <1>6, <1>8, <1>9 DEF TableOK
<1> QED
  BY <1>10 DEF t, last

-----------------------------------------------------------------------------
\* What every call does: the table stays correct, and a call that reports an
\* error keeps the files there were.
StepOK ==
    /\ TableOK(files', file_count')
    /\ reply'.code \in Codes
    /\ reply'.code # "OK" => \A i \in Slots : i < file_count => files'[i] = files[i]

\* When find fails, no file has the name: names are unique, so the first slot
\* with the name is the only one.
LEMMA NotFound ==
    ASSUME IInv, NEW name, ~Found(name)
    PROVE  \A i \in Slots : i < file_count => files[i].name # name
<1> SUFFICES ASSUME NEW i \in Slots, i < file_count, files[i].name = name PROVE FALSE
  OBVIOUS
<1>1. TableOK(files, file_count)
  BY DEF IInv
<1>2. Matches(i, name)
  BY <1>1 DEF TableOK, Matches
<1>3. ASSUME NEW k \in Slots, k < i PROVE ~Matches(k, name)
  <2>1. k \in Nat /\ i \in Nat /\ (k < file_count \/ ~files[k].is_used)
    BY <1>1, SlotFacts
  <2>2. Matches(k, name) => k = i
    BY <1>1, <2>1 DEF TableOK, Matches
  <2> QED
    BY <1>3, <2>1, <2>2
<1> QED
  BY <1>2, <1>3 DEF Found, Finds

\* A call that fails at once.
LEMMA FailOK ==
    ASSUME IInv, NEW code \in Codes, Fail(code)
    PROVE  StepOK
BY DEF IInv, Fail, Code, Answer, StepOK

\* The common end of write and append, on a table that is correct.
LEMMA StoreOK ==
    ASSUME NEW fs, NEW n, TableOK(fs, n), NEW i \in Slots, i < n,
           NEW at \in {0, fs[i].size}, NEW text \in Seq(Char), Store(fs, i, at, text)
    PROVE  /\ TableOK(files', n) /\ reply'.code \in Codes
           /\ reply'.code # "OK" => files' = fs
<1>1. CASE at + Len(text) < DATA_SIZE
  <2>1. files' = [fs EXCEPT ![i] = Copy(@, at, text)] /\ reply' = Code("OK")
    BY <1>1 DEF Store
  <2>2. TableOK([fs EXCEPT ![i] = Copy(@, at, text)], n)
    BY <1>1, TableStored
  <2> QED
    BY <2>1, <2>2 DEF Code, Answer, Codes
<1>2. CASE ~ (at + Len(text) < DATA_SIZE)
  BY <1>2 DEF Store, Code, Answer, Codes
<1> QED
  BY <1>1, <1>2

\* Storing in a file that write or append creates first.
LEMMA StoreInNewOK ==
    ASSUME IInv, NEW path \in Paths, Valid(path), NEW text \in Seq(Char),
           StoreInNew(path, text)
    PROVE  StepOK
<1> DEFINE name == normalize_name(path)
           fs == [files EXCEPT ![file_count] = NewFile(name)]
<1>1. name \in Seq(Char) /\ IsName(name)
  BY VfsAssumption, NormalizedType DEF Valid
<1>2. /\ ~Found(name) /\ file_count < MAX_FILES /\ file_count' = file_count + 1
      /\ Store(fs, file_count, 0, text)
  BY DEF StoreInNew, HasRoom
<1>3. TableOK(files, file_count)
  BY DEF IInv
<1>4. /\ file_count \in Nat /\ file_count \in Slots /\ files \in [Slots -> File]
      /\ \A i \in Slots : i \in Nat
  BY <1>2, <1>3, SlotFacts DEF TableOK
<1>5. TableOK(fs, file_count + 1)
  BY <1>1, <1>2, <1>3, NotFound, TableExtended
<1>6. \A i \in Slots : i < file_count => fs[i] = files[i]
  BY <1>4
<1> HIDE DEF fs
<1>7. /\ TableOK(files', file_count + 1) /\ reply'.code \in Codes
      /\ reply'.code # "OK" => files' = fs
  BY <1>2, <1>4, <1>5, StoreOK
<1> QED
  BY <1>2, <1>6, <1>7 DEF StepOK

\* Storing in a file that find returns.
LEMMA StoreInFoundOK ==
    ASSUME IInv, NEW name, NEW i \in Slots, Finds(i, name),
           NEW at \in {0, files[i].size}, NEW text \in Seq(Char),
           Store(files, i, at, text), UNCHANGED file_count
    PROVE  StepOK
<1>1. TableOK(files, file_count) /\ i < file_count
  BY DEF IInv, Finds
<1>2. /\ TableOK(files', file_count) /\ reply'.code \in Codes
      /\ reply'.code # "OK" => files' = files
  BY <1>1, StoreOK
<1> QED
  BY <1>2 DEF StepOK

\* create.
LEMMA CreateOK == ASSUME IInv, NEW path \in Paths, create(path) PROVE StepOK
<1> DEFINE name == normalize_name(path)
<1>1. CASE Fail("INVALID_NAME") \/ Fail("EXISTS") \/ Fail("FULL")
  BY <1>1, FailOK DEF Codes
<1>2. CASE /\ Valid(path) /\ ~Found(name) /\ HasRoom
           /\ files' = [files EXCEPT ![file_count] = NewFile(name)]
           /\ file_count' = file_count + 1
           /\ reply' = Code("OK")
  <2>1. name \in Seq(Char) /\ IsName(name)
    BY <1>2, VfsAssumption, NormalizedType DEF Valid
  <2>2. TableOK([files EXCEPT ![file_count] = NewFile(name)], file_count + 1)
    BY <1>2, <2>1, NotFound, TableExtended DEF IInv, HasRoom
  <2> QED
    BY <1>2, <2>2 DEF StepOK, Code, Answer, Codes
<1> QED
  BY <1>1, <1>2 DEF create

\* write.
LEMMA WriteOK ==
    ASSUME IInv, NEW path \in Paths, NEW content \in Texts \cup {NULLPTR},
           write(path, content)
    PROVE  StepOK
<1> DEFINE name == normalize_name(path)
           text == IF content = NULLPTR THEN << >> ELSE content
<1>1. text \in Seq(Char)
  <2>1. << >> \in Seq(Char)
    OBVIOUS
  <2> QED
    BY <2>1, VfsAssumption
<1> HIDE DEF text
<1>2. CASE Fail("INVALID_NAME") \/ Fail("FULL")
  BY <1>2, FailOK DEF Codes
<1>3. CASE Valid(path) /\ StoreInNew(path, text)
  BY <1>1, <1>3, StoreInNewOK
<1>4. CASE /\ \E i \in Slots : Finds(i, name) /\ Store(files, i, 0, text)
           /\ UNCHANGED file_count
  BY <1>1, <1>4, StoreInFoundOK
<1> QED
  BY <1>2, <1>3, <1>4 DEF write, text

\* append.
LEMMA AppendOK ==
    ASSUME IInv, NEW path \in Paths, NEW content \in Texts \cup {NULLPTR},
           append(path, content)
    PROVE  StepOK
<1> DEFINE name == normalize_name(path)
<1>1. CASE Fail("OK") \/ Fail("INVALID_NAME") \/ Fail("FULL")
  BY <1>1, FailOK DEF Codes
<1>2. CASE content # NULLPTR /\ Valid(path) /\ StoreInNew(path, content)
  BY <1>2, VfsAssumption, StoreInNewOK
<1>3. CASE /\ content # NULLPTR
           /\ \E i \in Slots : Finds(i, name) /\ Store(files, i, files[i].size, content)
           /\ UNCHANGED file_count
  BY <1>3, VfsAssumption, StoreInFoundOK
<1> QED
  BY <1>1, <1>2, <1>3 DEF append

\* remove.
LEMMA RemoveOK == ASSUME IInv, NEW path \in Paths, remove(path) PROVE StepOK
<1> DEFINE name == normalize_name(path)
<1>1. CASE Fail("INVALID_NAME") \/ Fail("NOT_FOUND")
  BY <1>1, FailOK DEF Codes
<1>2. CASE /\ \E i \in Slots : Finds(i, name) /\ files' = Removed(i)
           /\ file_count' = file_count - 1
           /\ reply' = Code("OK")
  <2>1. PICK i \in Slots : Finds(i, name) /\ files' = Removed(i)
    BY <1>2
  <2>2. TableOK(Removed(i), file_count - 1)
    BY <2>1, TableShrunk DEF IInv, Finds, Removed
  <2> QED
    BY <1>2, <2>1, <2>2 DEF StepOK, Code, Answer, Codes
<1> QED
  BY <1>1, <1>2 DEF remove

\* read, stat and list only answer.
LEMMA AskOK ==
    ASSUME IInv, list \/ \E path \in Paths, out_stat \in BOOLEAN : read(path) \/ stat(path, out_stat)
    PROVE  StepOK
<1>1. /\ UNCHANGED <<files, file_count>>
      /\ reply'.code \in {"OK", "NOT_FOUND", "INVALID_NAME", "LISTING"}
  BY DEF list, read, stat, Code, Answer
<1> QED
  BY <1>1 DEF IInv, StepOK, Codes

\* Every call keeps the table correct.
LEMMA NextOK == IInv /\ Next => StepOK
BY CreateOK, WriteOK, AppendOK, RemoveOK, AskOK DEF Next

\* init establishes the invariant.
LEMMA InitIInv == Init => IInv
<1> SUFFICES ASSUME Init PROVE IInv
  OBVIOUS
<1>1. << >> \in Seq(Char)
  OBVIOUS
<1>2. FileOK(NoFile) /\ NoFile \in File
  BY <1>1, NewFileFacts DEF FileOK
<1>3. \A i \in Slots : i \in Nat /\ ~ (i < 0)
  BY DEF Slots
<1>4. TableOK(files, file_count)
  BY <1>2, <1>3, VfsAssumption DEF Init, TableOK
<1> QED
  BY <1>4 DEF IInv, Init, Code, Answer, Codes

\* Every reachable state satisfies the invariant.
THEOREM Invariance == Spec => []IInv
<1>1. IInv /\ [Next]_vars => IInv'
  BY NextOK DEF StepOK, IInv, vars
<1> QED
  BY <1>1, InitIInv, PTL DEF Spec

\* The table, the count and the answers keep their types.
THEOREM TypeCorrect == Spec => []TypeOK
<1>1. IInv => TypeOK
  BY IInvParts
<1> QED
  BY <1>1, Invariance, PTL

\* The files stay in the first file_count slots, through every swap of remove.
THEOREM TableStaysCompact == Spec => []SlotsCompact
<1>1. IInv => SlotsCompact
  BY IInvParts
<1> QED
  BY <1>1, Invariance, PTL

\* Names stay unique and valid: every file can be found.
THEOREM FilesStayReachable == Spec => []NamesReachFiles
<1>1. IInv => NamesReachFiles
  BY IInvParts
<1> QED
  BY <1>1, Invariance, PTL

\* The string in a slot always ends where the size says, inside the array.
THEOREM SizeAgreesWithText == Spec => []SizeIsTextLength
<1>1. IInv => SizeIsTextLength
  BY IInvParts
<1> QED
  BY <1>1, Invariance, PTL

\* A call that reports an error keeps every file there was.
THEOREM ErrorsKeepFiles == Spec => FailureKeepsFiles
<1>1. IInv /\ [Next]_vars =>
        [reply'.code # "OK" =>
            \A i \in Slots : i < file_count => files'[i] = files[i]]_vars
  BY NextOK DEF StepOK
<1> QED
  BY <1>1, Invariance, PTL DEF Spec, FailureKeepsFiles

-----------------------------------------------------------------------------
\* The characters in front of the size.
String(f) == [k \in 1 .. f.size |-> f.data[k - 1]]

NamesIn(fs, n) == {fs[i].name : i \in {j \in Slots : j < n}}

\* m is the map from the names of the first n slots of fs to their strings.
Represents(m, fs, n) ==
    /\ m = [name \in NamesIn(fs, n) |-> m[name]]
    /\ \A i \in Slots : i < n => m[fs[i].name] = String(fs[i])

\* Put(n, t) of FileStore, on a map.
PutIn(m, n, t) == [x \in DOMAIN m \cup {n} |-> IF x = n THEN t ELSE m[x]]

-----------------------------------------------------------------------------
\* The string the NUL ends is the string the size gives.
LEMMA TextIsString == ASSUME NEW f, FileOK(f) PROVE Text(f.data) = String(f)
<1>1. f.size \in Nat /\ f.size \in Offsets
  BY VfsAssumption DEF FileOK, File, Offsets
<1>2. \A k \in Offsets : k \in Nat
  BY DEF Offsets
<1>3. ASSUME NEW n \in Offsets, f.data[n] = NUL, \A k \in Offsets : k < n => f.data[k] # NUL
      PROVE  n = f.size
  BY <1>1, <1>2, <1>3 DEF FileOK
<1>4. f.data[f.size] = NUL /\ \A k \in Offsets : k < f.size => f.data[k] # NUL
  BY DEF FileOK
<1>5. f.size = CHOOSE n \in Offsets :
                  f.data[n] = NUL /\ \A k \in Offsets : k < n => f.data[k] # NUL
  BY <1>1, <1>3, <1>4
<1> QED
  BY <1>5 DEF Text, String

\* A string is a sequence of characters, as long as its size.
LEMMA StringType ==
    ASSUME NEW f, FileOK(f) PROVE String(f) \in Seq(Char) /\ Len(String(f)) = f.size
<1>1. f.size \in Nat /\ f.size < DATA_SIZE /\ DATA_SIZE \in Nat /\ f.data \in [Offsets -> Char \cup {NUL}]
  BY VfsAssumption DEF FileOK, File
<1>2. ASSUME NEW k \in 1 .. f.size PROVE f.data[k - 1] \in Char
  <2>1. k - 1 \in Offsets /\ k - 1 < f.size
    BY <1>1 DEF Offsets
  <2> QED
    BY <1>1, <2>1 DEF FileOK
<1>3. String(f) \in [1 .. f.size -> Char]
  BY <1>2 DEF String
<1> QED
  BY <1>1, <1>3

\* The file create makes is empty.
LEMMA NewString == ASSUME NEW name \in Seq(Char) PROVE String(NewFile(name)) = << >>
<1>1. FileOK(NewFile(name)) /\ NewFile(name).size = 0
  BY NewFileFacts DEF NewFile, Slot
<1> QED
  BY <1>1, StringType, EmptySeq

\* Copying to the start replaces the string, copying to its end extends it.
LEMMA CopiedString ==
    ASSUME NEW f, FileOK(f), NEW at \in {0, f.size}, NEW text \in Seq(Char),
           at + Len(text) < DATA_SIZE
    PROVE  /\ at = 0 => String(Copy(f, at, text)) = text
           /\ at = f.size => String(Copy(f, at, text)) = String(f) \o text
<1> DEFINE g == Copy(f, at, text)
<1>1. /\ f.size \in Nat /\ Len(text) \in Nat /\ at \in Nat /\ DATA_SIZE \in Nat
      /\ g.size = at + Len(text)
  BY VfsAssumption DEF FileOK, File, Copy, Slot
<1>2. FileOK(g)
  BY CopyFacts
<1>3. String(g) \in Seq(Char) /\ Len(String(g)) = at + Len(text)
  BY <1>1, <1>2, StringType
<1>4. \A k \in 1 .. at + Len(text) :
         String(g)[k] = IF k <= at THEN f.data[k - 1] ELSE text[k - at]
  <2> SUFFICES ASSUME NEW k \in 1 .. at + Len(text)
               PROVE  String(g)[k] = IF k <= at THEN f.data[k - 1] ELSE text[k - at]
    OBVIOUS
  <2>1. k - 1 \in Offsets /\ String(g)[k] = g.data[k - 1]
    BY <1>1 DEF String, Offsets
  <2>2. (k - 1) - at + 1 = k - at /\ k - 1 # at + Len(text)
        /\ (k - 1 \in at .. (at + Len(text) - 1) <=> ~ (k <= at))
    BY <1>1
  <2> QED
    BY <2>1, <2>2 DEF Copy, Slot
<1>5. ASSUME at = 0 PROVE String(g) = text
  <2>1. \A k \in 1 .. Len(text) : String(g)[k] = text[k]
    BY <1>1, <1>4, <1>5
  <2> QED
    BY <1>3, <1>5, <2>1, SeqEqual
<1>6. ASSUME at = f.size PROVE String(g) = String(f) \o text
  <2>1. /\ String(f) \in Seq(Char) /\ Len(String(f)) = f.size
        /\ \A k \in 1 .. f.size : String(f)[k] = f.data[k - 1]
    BY StringType DEF String
  <2>2. /\ String(f) \o text \in Seq(Char) /\ Len(String(f) \o text) = at + Len(text)
        /\ \A k \in 1 .. at + Len(text) : (String(f) \o text)[k] =
              IF k <= at THEN String(f)[k] ELSE text[k - at]
    BY <1>6, <2>1, ConcatProperties, SMTT(30)
  <2>3. \A k \in 1 .. at + Len(text) : String(g)[k] = (String(f) \o text)[k]
    BY <1>1, <1>4, <1>6, <2>1, <2>2
  <2> QED
    BY <1>3, <2>2, <2>3, SeqEqual
<1> QED
  BY <1>5, <1>6

-----------------------------------------------------------------------------
\* StoredFiles represents the table: its choice of a slot is the only one there is.
LEMMA StoredRepresents == IInv => Represents(StoredFiles, files, file_count)
<1> SUFFICES ASSUME IInv PROVE Represents(StoredFiles, files, file_count)
  OBVIOUS
<1> DEFINE Live == {i \in Slots : i < file_count}
           At(name) == CHOOSE i \in Live : files[i].name = name
<1>1. StoredFiles = [name \in NamesIn(files, file_count) |-> Text(files[At(name)].data)]
  BY DEF StoredFiles, NamesIn
<1>2. ASSUME NEW i \in Slots, i < file_count PROVE At(files[i].name) = i
  <2>1. i \in Live /\ \A k \in Live : files[k].name = files[i].name => k = i
    BY <1>2 DEF IInv, TableOK
  <2> QED
    BY <2>1
<1>3. ASSUME NEW i \in Slots, i < file_count PROVE StoredFiles[files[i].name] = String(files[i])
  <2>1. files[i].name \in NamesIn(files, file_count)
    BY <1>3 DEF NamesIn
  <2>2. StoredFiles[files[i].name] = Text(files[i].data)
    BY <1>1, <1>2, <1>3, <2>1
  <2> QED
    BY <2>2, TextIsString DEF IInv, TableOK
<1>4. StoredFiles = [name \in NamesIn(files, file_count) |-> StoredFiles[name]]
  BY <1>1
<1> QED
  BY <1>3, <1>4 DEF Represents

\* The same of the next state.
LEMMA NextRepresents == IInv' => Represents(StoredFiles, files, file_count)'
BY StoredRepresents, PTL

\* A table has one map.
LEMMA OneMap ==
    ASSUME NEW fs, NEW n, NEW m, NEW m2, Represents(m, fs, n),
           m2 = [name \in NamesIn(fs, n) |-> m2[name]],
           \A i \in Slots : i < n => m2[fs[i].name] = String(fs[i])
    PROVE  m2 = m
<1>1. \A name \in NamesIn(fs, n) : m[name] = m2[name]
  BY DEF Represents, NamesIn
<1> QED
  BY <1>1 DEF Represents

\* A file in the first unused slot.
LEMMA NewSlot ==
    ASSUME NEW fs, NEW n, TableOK(fs, n), n < MAX_FILES, NEW f,
           \A i \in Slots : i < n => fs[i].name # f.name,
           NEW m, Represents(m, fs, n), NEW m2, Represents(m2, [fs EXCEPT ![n] = f], n + 1)
    PROVE  m2 = PutIn(m, f.name, String(f))
<1> DEFINE t == [fs EXCEPT ![n] = f]
           p == PutIn(m, f.name, String(f))
<1>1. /\ n \in Slots /\ n \in Nat /\ t[n] = f
      /\ \A i \in Slots : i \in Nat /\ (i < n + 1 <=> i < n \/ i = n) /\ (i # n => t[i] = fs[i])
  BY SlotFacts DEF TableOK
<1> HIDE DEF t
<1>2. NamesIn(t, n + 1) = NamesIn(fs, n) \cup {f.name}
  <2>1. \A i \in Slots : i < n + 1 => t[i].name \in NamesIn(fs, n) \cup {f.name}
    BY <1>1 DEF NamesIn
  <2>2. \A i \in Slots : i < n => fs[i].name = t[i].name /\ i < n + 1
    BY <1>1
  <2>3. f.name = t[n].name /\ n < n + 1
    BY <1>1
  <2> QED
    BY <1>1, <2>1, <2>2, <2>3 DEF NamesIn
<1>3. DOMAIN m = NamesIn(fs, n)
  BY DEF Represents
<1>4. p = [name \in NamesIn(t, n + 1) |-> p[name]]
  BY <1>2, <1>3 DEF PutIn
<1>5. \A i \in Slots : i < n + 1 => p[t[i].name] = String(t[i])
  BY <1>1, <1>2, <1>3 DEF PutIn, Represents, NamesIn
<1>6. Represents(m2, t, n + 1)
  BY DEF t
<1> HIDE DEF p
<1>7. p = m2
  BY <1>4, <1>5, <1>6, OneMap
<1> QED
  BY <1>7 DEF p

\* Another text in a slot in use.
LEMMA StoredSlot ==
    ASSUME NEW fs, NEW n, TableOK(fs, n), NEW i \in Slots, i < n, NEW f, f.name = fs[i].name,
           NEW m, Represents(m, fs, n), NEW m2, Represents(m2, [fs EXCEPT ![i] = f], n)
    PROVE  m2 = PutIn(m, f.name, String(f)) /\ f.name \in DOMAIN m
<1> DEFINE t == [fs EXCEPT ![i] = f]
           p == PutIn(m, f.name, String(f))
<1>1. t[i] = f /\ \A k \in Slots \ {i} : t[k] = fs[k]
  BY DEF TableOK
<1>2. \A k \in Slots : t[k].name = fs[k].name
  BY <1>1
<1> HIDE DEF t
<1>3. NamesIn(t, n) = NamesIn(fs, n) /\ f.name \in NamesIn(fs, n)
  BY <1>2 DEF NamesIn
<1>4. DOMAIN m = NamesIn(fs, n)
  BY DEF Represents
<1>5. p = [name \in NamesIn(t, n) |-> p[name]]
  BY <1>3, <1>4 DEF PutIn
<1>6. ASSUME NEW k \in Slots, k < n PROVE p[t[k].name] = String(t[k])
  <2>1. fs[k].name \in NamesIn(fs, n)
    BY <1>6 DEF NamesIn
  <2>2. k # i => fs[k].name # fs[i].name
    BY <1>6 DEF TableOK
  <2> QED
    BY <1>1, <1>2, <1>3, <1>4, <1>6, <2>1, <2>2 DEF PutIn, Represents
<1>7. Represents(m2, t, n)
  BY DEF t
<1> HIDE DEF p
<1>8. p = m2
  BY <1>5, <1>6, <1>7, OneMap
<1> QED
  BY <1>3, <1>4, <1>8 DEF p

\* The last file in the gap of the removed one.
LEMMA RemovedSlot ==
    ASSUME NEW fs, NEW n, TableOK(fs, n), NEW i \in Slots, i < n, NEW m, Represents(m, fs, n),
           NEW m2, Represents(m2, [fs EXCEPT ![i] = fs[n - 1], ![n - 1] = NoFile], n - 1)
    PROVE  m2 = [x \in DOMAIN m \ {fs[i].name} |-> m[x]] /\ fs[i].name \in DOMAIN m
<1> DEFINE t == [fs EXCEPT ![i] = fs[n - 1], ![n - 1] = NoFile]
           p == [x \in DOMAIN m \ {fs[i].name} |-> m[x]]
           At(k) == IF k = i THEN n - 1 ELSE k
<1>1. /\ n \in Nat /\ n - 1 \in Slots /\ n - 1 < n
      /\ \A k \in Slots : k \in Nat /\ (k < n - 1 <=> k < n /\ k # n - 1)
  BY SlotFacts
<1>2. \A k \in Slots : k < n - 1 =>
         t[k] = fs[At(k)] /\ At(k) \in Slots /\ At(k) < n /\ At(k) # i
  BY <1>1 DEF TableOK
<1>3. \A k \in Slots : k < n /\ k # i => \E l \in Slots : l < n - 1 /\ At(l) = k
  <2> SUFFICES ASSUME NEW k \in Slots, k < n, k # i PROVE \E l \in Slots : l < n - 1 /\ At(l) = k
    OBVIOUS
  <2>1. CASE k = n - 1
    BY <1>1, <2>1
  <2>2. CASE k # n - 1
    BY <1>1, <2>2
  <2> QED
    BY <2>1, <2>2
<1> HIDE DEF t, At
<1>4. NamesIn(t, n - 1) = NamesIn(fs, n) \ {fs[i].name}
  <2>1. ASSUME NEW k \in Slots, k < n - 1 PROVE t[k].name \in NamesIn(fs, n) \ {fs[i].name}
    BY <1>2, <2>1 DEF NamesIn, TableOK
  <2>2. ASSUME NEW k \in Slots, k < n, fs[k].name # fs[i].name
        PROVE  fs[k].name \in NamesIn(t, n - 1)
    BY <1>2, <1>3, <2>2 DEF NamesIn
  <2> QED
    BY <2>1, <2>2 DEF NamesIn
<1>5. DOMAIN m = NamesIn(fs, n) /\ fs[i].name \in NamesIn(fs, n)
  BY DEF Represents, NamesIn
<1>6. p = [name \in NamesIn(t, n - 1) |-> p[name]]
  BY <1>4, <1>5
<1>7. ASSUME NEW k \in Slots, k < n - 1 PROVE p[t[k].name] = String(t[k])
  <2>1. t[k].name \in NamesIn(t, n - 1)
    BY <1>7 DEF NamesIn
  <2> QED
    BY <1>2, <1>4, <1>5, <1>7, <2>1 DEF Represents
<1>8. Represents(m2, t, n - 1)
  BY DEF t
<1> HIDE DEF p
<1>9. p = m2
  BY <1>6, <1>7, <1>8, OneMap
<1> QED
  BY <1>5, <1>9 DEF p

\* As many names as files.
LEMMA CountedNames ==
    ASSUME NEW fs, NEW n, TableOK(fs, n)
    PROVE  Cardinality(NamesIn(fs, n)) = n /\ Cardinality({i \in Slots : i < n}) = n
<1> DEFINE Live == {i \in Slots : i < n}
           g == [i \in Live |-> fs[i].name]
<1>1. n \in Nat /\ Live = 0 .. (n - 1)
  BY SlotFacts DEF Slots
<1>2. IsFiniteSet(Live) /\ Cardinality(Live) = n
  <2>1. IsFiniteSet(0 .. (n - 1)) /\ Cardinality(0 .. (n - 1)) = IF 0 > n - 1 THEN 0 ELSE n - 1 - 0 + 1
    BY <1>1, FS_Interval
  <2>2. (IF 0 > n - 1 THEN 0 ELSE n - 1 - 0 + 1) = n
    BY <1>1
  <2> HIDE DEF Live
  <2> QED
    BY <1>1, <2>1, <2>2
<1>3. g \in Bijection(Live, NamesIn(fs, n))
  <2>1. g \in [Live -> NamesIn(fs, n)]
    BY DEF NamesIn
  <2>2. \A i, k \in Live : g[i] = g[k] => i = k
    BY DEF TableOK
  <2>3. \A name \in NamesIn(fs, n) : \E i \in Live : g[i] = name
    BY DEF NamesIn
  <2> QED
    BY <2>1, <2>2, <2>3 DEF Bijection, Injection, Surjection, IsInjective
<1> QED
  BY <1>2, <1>3, FS_Bijection DEF ExistsBijection

-----------------------------------------------------------------------------
\* The state of FileStore in terms of the table.
LEMMA StoreFacts ==
    ASSUME IInv
    PROVE  /\ Represents(StoredFiles, files, file_count)
           /\ \A name : Found(name) <=> name \in DOMAIN StoredFiles
           /\ F!Full <=> ~HasRoom
           /\ \A name, t : F!Put(name, t) = PutIn(StoredFiles, name, t)
<1>1. Represents(StoredFiles, files, file_count)
  BY StoredRepresents
<1>2. DOMAIN StoredFiles = NamesIn(files, file_count)
  BY <1>1 DEF Represents
<1>3. ASSUME NEW name PROVE Found(name) <=> name \in NamesIn(files, file_count)
  <2>1. Found(name) => name \in NamesIn(files, file_count)
    BY DEF Found, Finds, Matches, NamesIn
  <2>2. ~Found(name) => name \notin NamesIn(files, file_count)
    BY NotFound DEF NamesIn
  <2> QED
    BY <2>1, <2>2
<1>4. F!Full <=> ~HasRoom
  <2>1. Cardinality(DOMAIN StoredFiles) = file_count
    BY <1>2, CountedNames DEF IInv
  <2>2. file_count \in Nat /\ MAX_FILES \in Nat
    BY SlotFacts DEF IInv
  <2>3. F!Full <=> Cardinality(DOMAIN StoredFiles) >= MAX_FILES
    BY DEF F!Full, F!Cardinality, Cardinality
  <2> QED
    BY <2>1, <2>2, <2>3 DEF HasRoom
<1> QED
  BY <1>1, <1>2, <1>3, <1>4 DEF F!Put, PutIn

\* Calls that leave the table alone leave the map alone.
LEMMA SameStore == UNCHANGED <<files, file_count>> => UNCHANGED StoredFiles
BY DEF StoredFiles

\* Putting what is there changes nothing.
LEMMA PutSame ==
    ASSUME IInv, NEW name \in DOMAIN StoredFiles
    PROVE  PutIn(StoredFiles, name, StoredFiles[name]) = StoredFiles
<1>1. StoredFiles = [x \in DOMAIN StoredFiles |-> StoredFiles[x]]
  BY DEF StoredFiles
<1> QED
  BY <1>1 DEF PutIn

LEMMA CreateRef ==
    ASSUME IInv, IInv', NEW path \in Paths, create(path)
    PROVE  \/ F!Refuse
           \/ F!Create(normalize_name(path))
           \/ F!NoRoom(normalize_name(path))
<1> DEFINE name == normalize_name(path)
<1> USE DEF Code, Answer, F!Code, F!Answer
<1>1. CASE Fail("INVALID_NAME")
  BY <1>1, SameStore DEF Fail, F!Refuse
<1>2. CASE Found(name) /\ Fail("EXISTS")
  BY <1>2, SameStore, StoreFacts DEF Fail, F!Create
<1>3. CASE ~Found(name) /\ ~HasRoom /\ Fail("FULL")
  BY <1>3, SameStore, StoreFacts DEF Fail, F!NoRoom
<1>4. CASE /\ Valid(path) /\ ~Found(name) /\ HasRoom
           /\ files' = [files EXCEPT ![file_count] = NewFile(name)]
           /\ file_count' = file_count + 1
           /\ reply' = Code("OK")
  <2>1. name \in Seq(Char) /\ NewFile(name).name = name
    BY VfsAssumption, NormalizedType, NewFileFacts
  <2>2. Represents(StoredFiles', [files EXCEPT ![file_count] = NewFile(name)], file_count + 1)
    <3>1. Represents(StoredFiles', files', file_count')
      BY NextRepresents
    <3> QED
      BY <1>4, <3>1
  <2>3. TableOK(files, file_count) /\ file_count < MAX_FILES
        /\ \A i \in Slots : i < file_count => files[i].name # name
    BY <1>4, NotFound DEF IInv, HasRoom
  <2>4. StoredFiles' = PutIn(StoredFiles, name, << >>)
    BY <2>1, <2>2, <2>3, NewSlot, NewString, StoreFacts
  <2> QED
    BY <1>4, <2>4, StoreFacts DEF F!Create
<1> QED
  BY <1>1, <1>2, <1>3, <1>4 DEF create

\* A new file with a text, or an empty one when the text is too large.
LEMMA StoreInNewRef ==
    ASSUME IInv, IInv', NEW path \in Paths, NEW text \in Seq(Char), StoreInNew(path, text)
    PROVE  /\ F!Store(normalize_name(path), text, << >>)
           /\ F!Old(normalize_name(path)) = << >>
<1> DEFINE name == normalize_name(path)
           new == NewFile(name)
<1>1. name \in Seq(Char) /\ FileOK(new) /\ new.name = name /\ new.size = 0
  BY VfsAssumption, NormalizedType, NewFileFacts DEF NewFile, Slot
<1>2. /\ TableOK(files, file_count) /\ file_count < MAX_FILES
      /\ \A i \in Slots : i < file_count => files[i].name # name
      /\ file_count \in Slots /\ files \in [Slots -> File]
  BY NotFound, SlotFacts DEF IInv, HasRoom, StoreInNew, TableOK
<1>3. name \notin DOMAIN StoredFiles /\ ~F!Full
  BY StoreFacts DEF StoreInNew
<1>4. Len(text) \in Nat /\ << >> \o text = text /\ 0 + Len(text) = Len(text)
  BY EmptySeq, ConcatProperties, SeqEqual
<1>5. F!Old(name) = << >>
  BY <1>3 DEF F!Old
<1> DEFINE t == [files EXCEPT ![file_count] = new]
<1>6. t[file_count] = new /\ \A f : [t EXCEPT ![file_count] = f] = [files EXCEPT ![file_count] = f]
  BY <1>2
<1>7. Represents(StoredFiles', files', file_count + 1)
  BY NextRepresents DEF StoreInNew
<1>8. Store(t, file_count, 0, text)
  BY DEF StoreInNew
<1> HIDE DEF name, new, t
<1>9. CASE Len(text) < DATA_SIZE
  <2> DEFINE f == Copy(new, 0, text)
  <2>1. files' = [files EXCEPT ![file_count] = f] /\ reply' = Code("OK")
    BY <1>4, <1>6, <1>8, <1>9 DEF Store
  <2>2. f.name = name /\ String(f) = text
    BY <1>1, <1>4, <1>9, CopyFacts, CopiedString
  <2> HIDE DEF f
  <2>3. StoredFiles' = PutIn(StoredFiles, name, text)
    BY <1>2, <1>7, <2>1, <2>2, NewSlot, StoreFacts
  <2>4. F!Store(name, text, << >>)
    BY <1>3, <1>4, <1>9, <2>1, <2>3, StoreFacts DEF F!Store, Code, Answer, F!Code, F!Answer
  <2> QED
    BY <1>5, <2>4 DEF name
<1>10. CASE ~(Len(text) < DATA_SIZE)
  <2>1. files' = t /\ reply' = Code("TOO_LARGE")
    BY <1>4, <1>8, <1>10 DEF Store
  <2>2. String(new) = << >>
    BY <1>1, NewString DEF new
  <2>3. StoredFiles' = PutIn(StoredFiles, name, << >>)
    BY <1>1, <1>2, <1>7, <2>1, <2>2, NewSlot, StoreFacts DEF t
  <2>4. F!Store(name, text, << >>)
    BY <1>3, <1>4, <1>5, <1>10, <2>1, <2>3, StoreFacts
       DEF F!Store, Code, Answer, F!Code, F!Answer
  <2> QED
    BY <1>5, <2>4 DEF name
<1> QED
  BY <1>9, <1>10

\* What find returns, in terms of the map.
LEMMA FoundText ==
    ASSUME IInv, NEW name, NEW i \in Slots, Finds(i, name)
    PROVE  /\ i < file_count /\ files[i].name = name /\ FileOK(files[i])
           /\ name \in DOMAIN StoredFiles
           /\ StoredFiles[name] = String(files[i])
           /\ String(files[i]) \in Seq(Char) /\ Len(String(files[i])) = files[i].size
<1>1. i < file_count /\ files[i].name = name /\ FileOK(files[i])
  BY DEF Finds, Matches, IInv, TableOK
<1>2. Found(name)
  BY DEF Found
<1> QED
  BY <1>1, <1>2, StoreFacts, StringType DEF Represents

\* A text at the start or the end of the text of a file.
LEMMA StoreInOldRef ==
    ASSUME IInv, IInv', NEW name, NEW i \in Slots, Finds(i, name),
           NEW text \in Seq(Char), NEW at \in {0, files[i].size}, Store(files, i, at, text),
           UNCHANGED file_count
    PROVE  /\ at = 0 => F!Store(name, text, << >>)
           /\ at = files[i].size => F!Store(name, text, F!Old(name))
<1>1. /\ i < file_count /\ files[i].name = name /\ FileOK(files[i])
      /\ name \in DOMAIN StoredFiles /\ StoredFiles[name] = String(files[i])
      /\ String(files[i]) \in Seq(Char) /\ Len(String(files[i])) = files[i].size
  BY FoundText
<1>2. F!Old(name) = String(files[i])
  BY <1>1 DEF F!Old
<1> DEFINE before == IF at = 0 THEN << >> ELSE String(files[i])
<1>3. /\ before \in Seq(Char) /\ Len(before) = at
      /\ at = files[i].size => before = F!Old(name)
  BY <1>1, <1>2, EmptySeq
<1>4. Len(before \o text) = at + Len(text)
  <2>1. before \in Seq(Char) /\ Len(before) = at /\ text \in Seq(Char)
    BY <1>3
  <2> HIDE DEF before
  <2> QED
    BY <2>1
<1>5. Represents(StoredFiles', files', file_count)
  BY NextRepresents
<1>6. files \in [Slots -> File] /\ TableOK(files, file_count)
  BY DEF IInv, TableOK
<1>7. F!Store(name, text, before)
  <2>1. CASE at + Len(text) < DATA_SIZE
    <3> DEFINE f == Copy(files[i], at, text)
    <3>1. files' = [files EXCEPT ![i] = f] /\ reply' = Code("OK")
      BY <1>6, <2>1 DEF Store
    <3>2. f.name = name /\ String(f) = before \o text
      <4>1. f.name = name
        BY <1>1, <2>1, CopyFacts
      <4>2. CASE at = 0
        <5>1. String(f) = text
          BY <1>1, <2>1, <4>2, CopiedString
        <5>2. << >> \o text = text
          BY EmptySeq, ConcatProperties, SeqEqual
        <5> QED
          BY <4>1, <4>2, <5>1, <5>2
      <4>3. CASE at # 0
        BY <1>1, <2>1, <4>1, <4>3, CopiedString, SMTT(30)
      <4> QED
        BY <4>2, <4>3
    <3> HIDE DEF f, before
    <3>3. StoredFiles' = PutIn(StoredFiles, name, before \o text)
      <4>1. Represents(StoredFiles', [files EXCEPT ![i] = f], file_count)
        BY <1>5, <3>1
      <4>2. Represents(StoredFiles, files, file_count)
        BY StoreFacts
      <4>3. f.name = files[i].name
        BY <1>1, <3>2
      <4>4. StoredFiles' = PutIn(StoredFiles, f.name, String(f))
        <5>1. i < file_count /\ TableOK(files, file_count)
          BY <1>1, <1>6
        <5> QED
          BY ONLY <5>1, <4>1, <4>2, <4>3, StoredSlot, i \in Slots
      <4> QED
        BY <3>2, <4>4
    <3> QED
      BY <1>1, <1>4, <2>1, <3>1, <3>3, StoreFacts DEF F!Store, Code, Answer, F!Code, F!Answer
  <2>2. CASE ~(at + Len(text) < DATA_SIZE)
    <3>1. UNCHANGED StoredFiles /\ reply' = Code("TOO_LARGE")
      BY <2>2, SameStore DEF Store
    <3>2. StoredFiles' = PutIn(StoredFiles, name, F!Old(name))
      BY <1>1, <1>2, <3>1, PutSame
    <3> HIDE DEF before
    <3> QED
      BY <1>1, <1>4, <2>2, <3>1, <3>2, StoreFacts DEF F!Store, Code, Answer, F!Code, F!Answer
  <2> QED
    BY <2>1, <2>2
<1> QED
  BY <1>3, <1>7

\* write stores its own text, a null pointer as the empty one.
LEMMA WriteRef ==
    ASSUME IInv, IInv', NEW path \in Paths, NEW content \in Texts \cup {NULLPTR},
           write(path, content)
    PROVE  \/ F!Refuse /\ reply' = Code("INVALID_NAME")
           \/ F!NoRoom(normalize_name(path))
           \/ F!Store(normalize_name(path), IF content = NULLPTR THEN << >> ELSE content, << >>)
<1> DEFINE name == normalize_name(path)
           text == IF content = NULLPTR THEN << >> ELSE content
<1>1. text \in Texts \cup {<< >>} /\ text \in Seq(Char)
  BY VfsAssumption, EmptySeq
<1>2. CASE Fail("INVALID_NAME")
  BY <1>2, SameStore DEF Fail, F!Refuse, Code, Answer, F!Code, F!Answer
<1>3. CASE ~Found(name) /\ ~HasRoom /\ Fail("FULL")
  BY <1>3, SameStore, StoreFacts DEF Fail, F!NoRoom, Code, Answer, F!Code, F!Answer
<1>4. CASE StoreInNew(path, text)
  BY <1>1, <1>4, StoreInNewRef
<1>5. CASE /\ \E i \in Slots : Finds(i, name) /\ Store(files, i, 0, text)
           /\ UNCHANGED file_count
  <2>1. PICK i \in Slots : Finds(i, name) /\ Store(files, i, 0, text)
    BY <1>5
  <2> HIDE DEF text, name
  <2>2. F!Store(name, text, << >>)
    BY <1>1, <1>5, <2>1, StoreInOldRef
  <2> QED
    BY <2>2 DEF name, text
<1> QED
  BY <1>2, <1>3, <1>4, <1>5 DEF write

LEMMA AppendRef ==
    ASSUME IInv, IInv', NEW path \in Paths, NEW content \in Texts \cup {NULLPTR},
           append(path, content)
    PROVE  \/ F!Refuse /\ (reply' = Code("INVALID_NAME") \/ content = NULLPTR)
           \/ F!NoRoom(normalize_name(path))
           \/ /\ content # NULLPTR
              /\ F!Store(normalize_name(path), content, F!Old(normalize_name(path)))
<1> DEFINE name == normalize_name(path)
<1>1. CASE Fail("INVALID_NAME") \/ (content = NULLPTR /\ Fail("OK"))
  BY <1>1, SameStore DEF Fail, F!Refuse, Code, Answer, F!Code, F!Answer
<1>2. CASE ~Found(name) /\ ~HasRoom /\ Fail("FULL")
  BY <1>2, SameStore, StoreFacts DEF Fail, F!NoRoom, Code, Answer, F!Code, F!Answer
<1>3. CASE content # NULLPTR /\ StoreInNew(path, content)
  <2>1. content \in Texts /\ content \in Seq(Char)
    BY <1>3, VfsAssumption
  <2>2. F!Store(name, content, << >>) /\ F!Old(name) = << >>
    BY <1>3, <2>1, StoreInNewRef
  <2> QED
    BY <1>3, <2>2
<1>4. CASE /\ content # NULLPTR
           /\ \E i \in Slots : Finds(i, name) /\ Store(files, i, files[i].size, content)
           /\ UNCHANGED file_count
  <2>1. PICK i \in Slots : Finds(i, name) /\ Store(files, i, files[i].size, content)
    BY <1>4
  <2>2. content \in Texts /\ content \in Seq(Char)
    BY <1>4, VfsAssumption
  <2> HIDE DEF name
  <2>3. F!Store(name, content, F!Old(name))
    BY <1>4, <2>1, <2>2, StoreInOldRef
  <2> QED
    BY <1>4, <2>3 DEF name
<1> QED
  BY <1>1, <1>2, <1>3, <1>4 DEF append

\* A path that is not valid names no file.
LEMMA StoredNamesValid ==
    ASSUME IInv, NEW path, normalize_name(path) \in DOMAIN StoredFiles PROVE Valid(path)
<1>1. PICK i \in Slots : i < file_count /\ files[i].name = normalize_name(path)
  BY StoreFacts DEF Found, Finds, Matches
<1> QED
  BY <1>1 DEF IInv, TableOK, Valid

LEMMA AskRef ==
    ASSUME IInv, NEW path \in Paths, NEW out_stat \in BOOLEAN, read(path) \/ stat(path, out_stat)
    PROVE  F!Refuse \/ F!Ask(normalize_name(path))
<1> DEFINE name == normalize_name(path)
<1>1. UNCHANGED StoredFiles
  BY SameStore DEF read, stat
<1>2. CASE ~(Valid(path) /\ Found(name)) /\ reply' = Code("NOT_FOUND")
  <2>1. name \notin DOMAIN StoredFiles
    BY <1>2, StoreFacts, StoredNamesValid
  <2> QED
    BY <1>1, <1>2, <2>1 DEF F!Ask, Code, Answer, F!Code, F!Answer
<1>3. CASE \E i \in Slots : Finds(i, name) /\ reply' \in {Answer("OK", Text(files[i].data), 0),
                                                        Answer("OK", files[i].name, files[i].size)}
  <2>1. PICK i \in Slots : /\ Finds(i, name)
                           /\ reply' \in {Answer("OK", Text(files[i].data), 0),
                                          Answer("OK", files[i].name, files[i].size)}
    BY <1>3
  <2> HIDE DEF name
  <2>2. /\ FileOK(files[i]) /\ files[i].name = name /\ name \in DOMAIN StoredFiles
        /\ StoredFiles[name] = String(files[i]) /\ Len(StoredFiles[name]) = files[i].size
    BY <2>1, FoundText
  <2>3. Text(files[i].data) = StoredFiles[name]
    BY <2>2, TextIsString
  <2>4. F!Ask(name)
    BY <1>1, <2>1, <2>2, <2>3 DEF F!Ask, Answer, F!Answer
  <2> QED
    BY <2>4 DEF name
<1>4. CASE reply' = Code("INVALID_NAME")
  BY <1>1, <1>4 DEF F!Refuse, Code, Answer, F!Code, F!Answer
<1> QED
  BY <1>2, <1>3, <1>4 DEF read, stat

LEMMA RemoveRef ==
    ASSUME IInv, IInv', NEW path \in Paths, remove(path)
    PROVE  F!Refuse \/ F!Remove(normalize_name(path))
<1> DEFINE name == normalize_name(path)
<1>1. CASE Fail("INVALID_NAME")
  BY <1>1, SameStore DEF Fail, F!Refuse, Code, Answer, F!Code, F!Answer
<1>2. CASE ~Found(name) /\ Fail("NOT_FOUND")
  BY <1>2, SameStore, StoreFacts DEF Fail, F!Remove, Code, Answer, F!Code, F!Answer
<1>3. CASE /\ \E i \in Slots : Finds(i, name) /\ files' = Removed(i)
           /\ file_count' = file_count - 1
           /\ reply' = Code("OK")
  <2>1. PICK i \in Slots : Finds(i, name) /\ files' = Removed(i)
    BY <1>3
  <2> HIDE DEF name
  <2>2. i < file_count /\ files[i].name = name
    BY <2>1, FoundText
  <2>3. Represents(StoredFiles', [files EXCEPT ![i] = files[file_count - 1],
                                               ![file_count - 1] = NoFile], file_count - 1)
    BY <1>3, <2>1, NextRepresents DEF Removed
  <2>4. Represents(StoredFiles, files, file_count) /\ TableOK(files, file_count)
    BY StoreFacts DEF IInv
  <2>5. /\ StoredFiles' = [x \in DOMAIN StoredFiles \ {name} |-> StoredFiles[x]]
        /\ name \in DOMAIN StoredFiles
    <3>1. /\ StoredFiles' = [x \in DOMAIN StoredFiles \ {files[i].name} |-> StoredFiles[x]]
          /\ files[i].name \in DOMAIN StoredFiles
      BY <2>2, <2>3, <2>4, RemovedSlot
    <3> QED
      BY <2>2, <3>1
  <2>6. F!Remove(name)
    BY <1>3, <2>5 DEF F!Remove, Code, Answer, F!Code, F!Answer
  <2> QED
    BY <2>6 DEF name
<1> QED
  BY <1>1, <1>2, <1>3 DEF remove

LEMMA ListRef == ASSUME IInv, list PROVE F!List
<1> DEFINE used == {i \in Slots : i < file_count /\ files[i].is_used}
           live == {i \in Slots : i < file_count}
<1>1. used = live
  BY DEF IInv, TableOK
<1>2. Represents(StoredFiles, files, file_count)
  BY StoreFacts
<1>3. DOMAIN StoredFiles = NamesIn(files, file_count)
  BY <1>2 DEF Represents
<1>4. reply'.code = "LISTING" /\ reply'.text = [i \in live |-> <<files[i].name, files[i].size>>]
  BY <1>1 DEF list, Answer
<1>5. \A i \in live : Len(StoredFiles[files[i].name]) = files[i].size
  <2>1. \A i \in live : FileOK(files[i]) /\ StoredFiles[files[i].name] = String(files[i])
    BY <1>2 DEF IInv, TableOK, Represents
  <2> QED
    BY <2>1, StringType
<1>6. Cardinality(live) = Cardinality(DOMAIN StoredFiles)
  BY <1>3, CountedNames DEF IInv
<1>7. DOMAIN reply'.text = live
  BY <1>4
<1>8. {reply'.text[line] : line \in DOMAIN reply'.text}
        = {<<n, Len(StoredFiles[n])>> : n \in DOMAIN StoredFiles}
  <2>1. {reply'.text[line] : line \in live} = {<<files[i].name, files[i].size>> : i \in live}
    BY <1>4
  <2>2. {<<n, Len(StoredFiles[n])>> : n \in NamesIn(files, file_count)}
          = {<<files[i].name, files[i].size>> : i \in live}
    BY <1>5 DEF NamesIn
  <2> QED
    BY <1>3, <1>7, <2>1, <2>2
<1>9. UNCHANGED StoredFiles
  BY SameStore DEF list
<1>10. F!Cardinality(DOMAIN reply'.text) = F!Cardinality(DOMAIN StoredFiles)
  BY <1>6, <1>7 DEF F!Cardinality, Cardinality
<1> QED
  BY <1>4, <1>8, <1>9, <1>10 DEF F!List

-----------------------------------------------------------------------------
\* The empty table is the empty map.
LEMMA InitRef == Init => F!Init
<1> SUFFICES ASSUME Init PROVE F!Init
  OBVIOUS
<1>1. Represents(StoredFiles, files, file_count)
  BY InitIInv, StoredRepresents
<1>2. NamesIn(files, file_count) = {}
  <2>1. \A i \in Slots : i \in Nat /\ ~(i < 0)
    BY DEF Slots
  <2> QED
    BY <2>1 DEF Init, NamesIn
<1>3. StoredFiles = [name \in {} |-> StoredFiles[name]]
  BY <1>1, <1>2 DEF Represents
<1>4. StoredFiles = << >>
  BY <1>3
<1> QED
  BY <1>4 DEF Init, F!Init, Code, Answer, F!Code, F!Answer

\* Every call is an operation of the map.
LEMMA StepRef ==
    IInv /\ IInv' /\ [Next]_vars => [F!Next]_<<StoredFiles, reply>>
<1> SUFFICES ASSUME IInv, IInv', [Next]_vars PROVE [F!Next]_<<StoredFiles, reply>>
  OBVIOUS
<1>1. CASE list
  BY <1>1, ListRef DEF F!Next
<1>2. ASSUME NEW path \in Paths, create(path) PROVE F!Next
  BY <1>2, CreateRef DEF F!Next
<1>3. ASSUME NEW path \in Paths, NEW out_stat \in BOOLEAN, read(path) \/ stat(path, out_stat)
      PROVE  F!Next
  BY <1>3, AskRef DEF F!Next
<1>4. ASSUME NEW path \in Paths, remove(path) PROVE F!Next
  BY <1>4, RemoveRef DEF F!Next
<1>5. ASSUME NEW path \in Paths, NEW content \in Texts \cup {NULLPTR}, write(path, content)
      PROVE  F!Next
  <2>1. (IF content = NULLPTR THEN << >> ELSE content) \in Texts \cup {<< >>}
    OBVIOUS
  <2> QED
    BY <1>5, <2>1, WriteRef DEF F!Next
<1>6. ASSUME NEW path \in Paths, NEW content \in Texts \cup {NULLPTR}, append(path, content)
      PROVE  F!Next
  BY <1>6, AppendRef DEF F!Next
<1>7. CASE UNCHANGED vars
  BY <1>7, SameStore DEF vars
<1> QED
  BY <1>1, <1>2, <1>3, <1>4, <1>5, <1>6, <1>7 DEF Next

\* The file system behaves as a bounded map from names to texts, whatever the
\* slots, the sizes, the paths and the texts: every call changes the map that
\* find and the NULs in the arrays give exactly as FileStore says, and answers
\* with what is stored under the name.
THEOREM VfsIsFileStore == Spec => FileStoreSpec
<1>1. IInv /\ IInv' /\ [Next]_vars => [F!Next]_<<StoredFiles, reply>>
  BY StepRef
<1> QED
  BY <1>1, InitRef, Invariance, PTL DEF Spec, FileStoreSpec, F!Spec
=============================================================================
