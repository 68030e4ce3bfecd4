------------------------------ MODULE FileStore ------------------------------
(***************************************************************************)
(* What the file system promises the shell: a bounded map from names to    *)
(* texts.  Every operation answers with a result code; one that fails      *)
(* leaves every file as it was, except that storing a text that is too     *)
(* large in a file that does not exist leaves that file behind, empty.     *)
(***************************************************************************)
EXTENDS FiniteSets, Sequences, Naturals

CONSTANTS Names,     \* the valid names
          Texts,     \* the texts clients store
          Capacity,  \* how many files fit
          Limit      \* a text is shorter than this

VARIABLES store,     \* name -> text
          reply      \* the answer to the last operation

Answer(code, text, size) == [code |-> code, text |-> text, size |-> size]

Code(code) == Answer(code, << >>, 0)

Put(n, t) == [m \in DOMAIN store \cup {n} |-> IF m = n THEN t ELSE store[m]]

Full == Cardinality(DOMAIN store) >= Capacity

Init == store = << >> /\ reply = Code("OK")

Refuse == /\ reply' \in {Code("INVALID_NAME"), Code("OK")}
          /\ UNCHANGED store

Create(n) ==
    \/ /\ n \in DOMAIN store
       /\ reply' = Code("EXISTS")
       /\ UNCHANGED store
    \/ /\ n \notin DOMAIN store
       /\ ~Full
       /\ reply' = Code("OK")
       /\ store' = Put(n, << >>)

\* Creating or storing under a new name when every slot is taken.
NoRoom(n) ==
    /\ n \notin DOMAIN store
    /\ Full
    /\ reply' = Code("FULL")
    /\ UNCHANGED store

\* The text a file has, or is created with.
Old(n) == IF n \in DOMAIN store THEN store[n] ELSE << >>

\* write replaces the text of the file, append puts t behind it.
Store(n, t, before) ==
    /\ n \in DOMAIN store \/ ~Full
    /\ IF Len(before \o t) < Limit
       THEN store' = Put(n, before \o t) /\ reply' = Code("OK")
       ELSE store' = Put(n, Old(n)) /\ reply' = Code("TOO_LARGE")

Ask(n) ==
    /\ UNCHANGED store
    /\ IF n \in DOMAIN store
       THEN reply' \in {Answer("OK", store[n], 0),
                        Answer("OK", n, Len(store[n]))}
       ELSE reply' = Code("NOT_FOUND")

\* Every file has one line, with the length of its text.
List ==
    /\ UNCHANGED store
    /\ reply'.code = "LISTING"
    /\ Cardinality(DOMAIN reply'.text) = Cardinality(DOMAIN store)
    /\ {reply'.text[line] : line \in DOMAIN reply'.text}
         = {<<n, Len(store[n])>> : n \in DOMAIN store}

Remove(n) ==
    IF n \in DOMAIN store
    THEN /\ store' = [m \in DOMAIN store \ {n} |-> store[m]]
         /\ reply' = Code("OK")
    ELSE UNCHANGED store /\ reply' = Code("NOT_FOUND")

Next ==
    \/ Refuse \/ List
    \/ \E n \in Names :
          \/ Create(n) \/ NoRoom(n) \/ Ask(n) \/ Remove(n)
          \/ \E t \in Texts : Store(n, t, << >>) \/ Store(n, t, Old(n))

Spec == Init /\ [][Next]_<<store, reply>>
=============================================================================
