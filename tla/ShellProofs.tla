----------------------------- MODULE ShellProofs -----------------------------
(***************************************************************************)
(* Proofs about the shell, for every table size, every size of its         *)
(* buffers, every list of built-in applications and every set of lines.    *)
(*                                                                         *)
(* Applications.  Registration is the only step that writes the table, and *)
(* it compares the new identifier with those of the first app_count        *)
(* bundles: what it relies on is that those are used and complete          *)
(* (AppsOK).                                                               *)
(*                                                                         *)
(* Files.  A command is at most one call of the file system, with strings  *)
(* that were copied out of the line (CommandsAreCalls).  So the theorems   *)
(* about the file system, instantiated here as FS, hold of the shell: its  *)
(* invariant, and that every call is one of the map from names to texts.   *)
(* What rec reports and what it leaves alone then follow from the map and  *)
(* from what the copying does to a line (ParsedLine).                      *)
(***************************************************************************)
EXTENDS Shell, SequenceTheorems, FiniteSetTheorems, TLAPS

\* The table of applications: the first app_count bundles are complete and
\* have an identifier each.
AppsOK ==
    /\ app_count \in 0 .. MAX_APPS
    /\ apps = [i \in M!AppSlots |-> apps[i]]
    /\ \A i \in M!AppSlots : i < app_count =>
          /\ apps[i].is_used
          /\ apps[i].manifest.identifier \in Seq(Char)
    /\ IdentifiersUnique
    /\ pending \in 0 .. Len(Builtin)

-----------------------------------------------------------------------------
\* Commands only read the table.
LEMMA CommandsKeepApps == execute_command => UNCHANGED <<apps, app_count>>
<1>1. ASSUME NEW args, touch(args) \/ rdf(args) \/ rec(args) \/ append(args)
                       \/ rm(args) \/ stat(args) \/ lang(args)
      PROVE  UNCHANGED <<apps, app_count>>
  BY <1>1 DEF touch, rdf, rec, append, rm, stat, lang
<1>2. ASSUME NEW args, run(args) PROVE UNCHANGED <<apps, app_count>>
  BY <1>2 DEF run, M!launch, M!launch_fails, M!appVars
<1>3. PrintOnly \/ lst => UNCHANGED <<apps, app_count>>
  BY DEF PrintOnly, lst
<1> QED
  BY <1>1, <1>2, <1>3 DEF execute_command

\* register_app adds a bundle whose identifier no other has, or does nothing.
LEMMA RegisterKeepsApps ==
    ASSUME AppsOK, NEW manifest, NEW entry, M!register_app(manifest, entry),
           manifest # NULLPTR => manifest.identifier \in Seq(Char) \cup {NULLPTR},
           pending' \in 0 .. Len(Builtin)
    PROVE  AppsOK'
<1>1. CASE UNCHANGED M!appVars
  BY <1>1 DEF AppsOK, IdentifiersUnique, M!IdentifiersUnique, M!appVars
<1> DEFINE bundle == M!Bundle(manifest, entry, TRUE)
<1>2. CASE /\ M!Complete(manifest, entry)
           /\ app_count < MAX_APPS
           /\ ~M!IsRegistered(manifest.identifier)
           /\ apps' = [apps EXCEPT ![app_count] = bundle]
           /\ app_count' = app_count + 1
  <2>1. /\ manifest.identifier \in Seq(Char) /\ bundle.manifest = manifest /\ bundle.is_used
    BY <1>2 DEF M!Complete, M!Bundle
  <2>2. /\ app_count \in Nat /\ app_count \in M!AppSlots /\ app_count + 1 \in 0 .. MAX_APPS
        /\ \A i \in M!AppSlots : i \in Nat /\ (i < app_count + 1 <=> i < app_count \/ i = app_count)
    BY SMTT(30), <1>2, ShellAssumption DEF AppsOK, M!AppSlots
  <2>3. \A i \in M!AppSlots : i < app_count => apps[i].manifest.identifier # manifest.identifier
    BY <1>2 DEF AppsOK, M!IsRegistered, M!IsApp
  <2>4. /\ apps' = [i \in M!AppSlots |-> apps'[i]]
        /\ apps'[app_count] = bundle
        /\ \A i \in M!AppSlots : i # app_count => apps'[i] = apps[i]
    BY <1>2, <2>2 DEF AppsOK
  <2> HIDE DEF bundle
  <2>5. ASSUME NEW i \in M!AppSlots, i < app_count + 1
        PROVE  apps'[i].is_used /\ apps'[i].manifest.identifier \in Seq(Char)
    BY <2>1, <2>2, <2>4, <2>5 DEF AppsOK
  <2>6. ASSUME NEW i \in M!AppSlots, NEW k \in M!AppSlots, i < app_count + 1, k < app_count + 1,
               apps'[i].manifest.identifier = apps'[k].manifest.identifier
        PROVE  i = k
    <3>1. CASE i # app_count /\ k # app_count
      BY <2>2, <2>4, <2>6, <3>1 DEF AppsOK, IdentifiersUnique, M!IdentifiersUnique
    <3>2. CASE i = app_count \/ k = app_count
      BY <2>1, <2>2, <2>3, <2>4, <2>6, <3>2
    <3> QED
      BY <3>1, <3>2
  <2> QED
    BY <1>2, <2>2, <2>4, <2>5, <2>6 DEF AppsOK, IdentifiersUnique, M!IdentifiersUnique
<1> QED
  BY <1>1, <1>2 DEF M!register_app

LEMMA AppsInvariant == Spec => []AppsOK
<1>1. Init => AppsOK
  BY ShellAssumption DEF Init, M!AppInit, AppsOK, IdentifiersUnique, M!IdentifiersUnique,
                         M!AppSlots
<1>2. AppsOK /\ [Next]_vars => AppsOK'
  <2> SUFFICES ASSUME AppsOK, [Next]_vars PROVE AppsOK'
    OBVIOUS
  <2>1. CASE register_builtin_apps
    <3>1. pending' \in 1 .. Len(Builtin) /\ pending' \in 0 .. Len(Builtin)
      BY <2>1, ShellAssumption DEF register_builtin_apps, AppsOK
    <3>2. M!register_app(Builtin[pending'].manifest, Builtin[pending'].entry)
      BY <2>1 DEF register_builtin_apps
    <3>3. Builtin[pending'].manifest # NULLPTR =>
             Builtin[pending'].manifest.identifier \in Seq(Char) \cup {NULLPTR}
      BY <3>1, ShellAssumption
    <3> QED
      BY <3>1, <3>2, <3>3, RegisterKeepsApps
  <2>2. CASE execute_command /\ UNCHANGED pending
    BY <2>2, CommandsKeepApps DEF AppsOK, IdentifiersUnique, M!IdentifiersUnique
  <2>3. CASE UNCHANGED vars
    BY <2>3 DEF vars, AppsOK, IdentifiersUnique, M!IdentifiersUnique
  <2> QED
    BY <2>1, <2>2, <2>3 DEF Next
<1> QED
  BY <1>1, <1>2, PTL DEF Spec

\* No two registered applications share an identifier, so that "run" reaches
\* each of them, whatever is registered and in whichever order.
THEOREM EveryAppCanRun == Spec => []IdentifiersUnique
<1>1. AppsOK => IdentifiersUnique
  BY DEF AppsOK
<1> QED
  BY <1>1, AppsInvariant, PTL

-----------------------------------------------------------------------------
\* An identifier that leaves a byte for the NUL is not cut off.
LEMMA ShortPathKept ==
    ASSUME NEW identifier \in Seq(Char), PREFIX + Len(identifier) < CONTAINER_SIZE
    PROVE  /\ DOMAIN M!build_container_path(identifier).path = 1 .. Len(identifier)
           /\ \A n \in 1 .. Len(identifier) :
                 M!build_container_path(identifier).path[n] =
                    IF identifier[n] = Dot THEN Slash ELSE identifier[n]
<1> DEFINE room == CONTAINER_SIZE - 1 - PREFIX
           path == M!Path(identifier)
           kept == IF Len(path) <= room THEN Len(path) ELSE room
<1>1. path = [n \in 1 .. Len(identifier) |-> IF identifier[n] = Dot THEN Slash ELSE identifier[n]]
  BY DEF M!Path
<1>2. Len(identifier) \in Nat /\ path \in Seq(Char \cup {Slash}) /\ Len(path) = Len(identifier)
  BY <1>1
<1> HIDE DEF path
<1> DEFINE fits == PREFIX + kept + 5 < CONTAINER_SIZE
<1>3. M!build_container_path(identifier) = [path |-> SubSeq(path, 1, kept), suffix |-> fits]
  BY DEF M!build_container_path, path
<1>4. kept = Len(identifier)
  BY <1>2, ShellAssumption
<1>5. M!build_container_path(identifier).path = SubSeq(path, 1, Len(identifier))
  BY <1>3, <1>4
<1>6. SubSeq(path, 1, Len(identifier)) = path
  BY <1>2, SubSeqProperties, SeqEqual
<1> QED
  BY <1>1, <1>5, <1>6

\* Two applications never share a container, as long as their identifiers hold
\* no slash and fit into the buffer, whether or not the suffix does.
THEOREM ContainersStayDistinct == Spec => []ContainersDistinct
<1>1. AppsOK => ContainersDistinct
  <2> SUFFICES ASSUME AppsOK, NEW i \in M!AppSlots, NEW k \in M!AppSlots,
                      i < app_count, k < app_count,
                      \A n \in 1 .. Len(apps[i].manifest.identifier) :
                         apps[i].manifest.identifier[n] # Slash,
                      \A n \in 1 .. Len(apps[k].manifest.identifier) :
                         apps[k].manifest.identifier[n] # Slash,
                      PREFIX + Len(apps[i].manifest.identifier) < CONTAINER_SIZE,
                      PREFIX + Len(apps[k].manifest.identifier) < CONTAINER_SIZE,
                      M!build_container_path(apps[i].manifest.identifier)
                        = M!build_container_path(apps[k].manifest.identifier)
               PROVE  i = k
    BY DEF ContainersDistinct, M!ContainersDistinct
  <2> DEFINE p == apps[i].manifest.identifier
             q == apps[k].manifest.identifier
             path == M!build_container_path(p).path
  <2>1. p \in Seq(Char) /\ q \in Seq(Char) /\ (p = q => i = k)
    BY DEF AppsOK, IdentifiersUnique, M!IdentifiersUnique
  <2>2. path = M!build_container_path(q).path
    OBVIOUS
  <2> HIDE DEF p, q, path
  <2>3. /\ DOMAIN path = 1 .. Len(p)
        /\ \A n \in 1 .. Len(p) : path[n] = IF p[n] = Dot THEN Slash ELSE p[n]
    BY <2>1, ShortPathKept DEF p, path
  <2>4. /\ DOMAIN path = 1 .. Len(q)
        /\ \A n \in 1 .. Len(q) : path[n] = IF q[n] = Dot THEN Slash ELSE q[n]
    BY <2>1, <2>2, ShortPathKept DEF q
  <2>5. Len(p) \in Nat /\ Len(q) \in Nat
    BY <2>1
  <2>6. Len(p) = Len(q)
    BY <2>3, <2>4, <2>5
  <2>7. \A n \in 1 .. Len(p) : p[n] = q[n]
    BY <2>3, <2>4, <2>6 DEF p, q
  <2> QED
    BY <2>1, <2>6, <2>7, SeqEqual
<1> QED
  BY <1>1, AppsInvariant, PTL

-----------------------------------------------------------------------------
(***************************************************************************)
(* The line: where execute_command finds the word and the text on it.      *)
(***************************************************************************)

\* A span ends where the characters change for the first time.
LEMMA SpanIs ==
    ASSUME NEW text, Len(text) \in Nat, NEW spaces \in BOOLEAN, NEW n \in 0 .. Len(text),
           \A k \in 1 .. n : (text[k] = Space) = spaces,
           n < Len(text) => (text[n + 1] = Space) # spaces
    PROVE  Span(text, spaces) = n
<1> DEFINE Ends(m) == /\ \A k \in 1 .. m : (text[k] = Space) = spaces
                      /\ m < Len(text) => (text[m + 1] = Space) # spaces
<1>1. ASSUME NEW m \in 0 .. Len(text), Ends(m) PROVE m = n
  <2>1. CASE m < n
    <3>1. m + 1 \in 1 .. n /\ m < Len(text)
      BY <2>1
    <3> QED
      BY <1>1, <3>1
  <2>2. CASE n < m
    <3>1. n + 1 \in 1 .. m /\ n < Len(text)
      BY <2>2
    <3> QED
      BY <1>1, <3>1
  <2> QED
    BY <2>1, <2>2
<1> QED
  BY <1>1 DEF Span

\* The characters of a concatenation.
LEMMA Joined ==
    ASSUME NEW s \in Seq(Char), NEW t \in Seq(Char), NEW whole, whole = s \o t
    PROVE  /\ whole \in Seq(Char)
           /\ Len(s) \in Nat /\ Len(t) \in Nat /\ Len(whole) = Len(s) + Len(t)
           /\ \A k \in 1 .. Len(s) : whole[k] = s[k] /\ whole[k] \in Char
           /\ \A k \in 1 .. Len(t) : whole[Len(s) + k] = t[k] /\ whole[Len(s) + k] \in Char
<1>1. s \o t \in Seq(Char) /\ Len(s \o t) = Len(s) + Len(t)
  BY ConcatProperties
<1>2. \A k \in 1 .. Len(s) + Len(t) : (s \o t)[k] = IF k <= Len(s) THEN s[k] ELSE t[k - Len(s)]
  BY ConcatProperties
<1>3. Len(s) \in Nat /\ Len(t) \in Nat
  BY LenProperties
<1>4. whole \in Seq(Char) /\ Len(whole) = Len(s) + Len(t)
  BY <1>1
<1>5. \A k \in 1 .. Len(s) + Len(t) : whole[k] = IF k <= Len(s) THEN s[k] ELSE t[k - Len(s)]
  BY <1>2
<1>6. \A k \in 1 .. Len(s) + Len(t) : whole[k] \in Char
  BY ONLY <1>3, <1>4, ElementOfSeq
<1>7. ASSUME NEW k \in 1 .. Len(s) PROVE whole[k] = s[k] /\ whole[k] \in Char
  <2>1. k \in 1 .. Len(s) + Len(t) /\ k <= Len(s)
    BY <1>3
  <2> QED
    BY ONLY <1>5, <1>6, <2>1
<1>8. ASSUME NEW k \in 1 .. Len(t) PROVE whole[Len(s) + k] = t[k] /\ whole[Len(s) + k] \in Char
  <2>1. /\ Len(s) + k \in 1 .. Len(s) + Len(t) /\ ~(Len(s) + k <= Len(s))
        /\ Len(s) + k - Len(s) = k
    BY <1>3
  <2> QED
    BY ONLY <1>5, <1>6, <2>1
<1> QED
  BY <1>3, <1>4, <1>7, <1>8

LEMMA Regrouped ==
    ASSUME NEW a \in Seq(Char), NEW b \in Seq(Char), NEW c \in Seq(Char), NEW d \in Seq(Char)
    PROVE  ((a \o b) \o c) \o d = a \o (b \o (c \o d))
<1>1. a \o b \in Seq(Char)
  BY ConcatProperties
<1>2. c \o d \in Seq(Char)
  BY ConcatProperties
<1>3. \A e \in Seq(Char) : (e \o c) \o d = e \o (c \o d)
  BY ConcatAssociative, SMTT(30)
<1>4. \A e \in Seq(Char) : (a \o b) \o e = a \o (b \o e)
  BY ConcatAssociative, SMTT(30)
<1> QED
  BY <1>1, <1>2, <1>3, <1>4

\* The two parts of a concatenation.
LEMMA Parts ==
    ASSUME NEW s \in Seq(Char), NEW t \in Seq(Char), NEW whole, whole = s \o t
    PROVE  From(whole, Len(s)) = t /\ SubSeq(whole, 1, Len(s)) = s
<1>1. /\ whole \in Seq(Char)
      /\ Len(s) \in Nat /\ Len(t) \in Nat /\ Len(whole) = Len(s) + Len(t)
      /\ \A k \in 1 .. Len(s) : whole[k] = s[k] /\ whole[k] \in Char
      /\ \A k \in 1 .. Len(t) : whole[Len(s) + k] = t[k] /\ whole[Len(s) + k] \in Char
  BY ONLY Joined, s \in Seq(Char), t \in Seq(Char), whole = s \o t
<1> DEFINE after == SubSeq(whole, Len(s) + 1, Len(s) + Len(t))
           before == SubSeq(whole, 1, Len(s))
<1>2. \A k \in Len(s) + 1 .. Len(s) + Len(t) : whole[k] \in Char
  <2> TAKE k \in Len(s) + 1 .. Len(s) + Len(t)
  <2>1. k - Len(s) \in 1 .. Len(t) /\ Len(s) + (k - Len(s)) = k
    BY ONLY <1>1, k \in Len(s) + 1 .. Len(s) + Len(t)
  <2> QED
    BY ONLY <1>1, <2>1
<1>3. /\ after \in Seq(Char) /\ Len(after) = Len(t)
      /\ \A k \in 1 .. Len(t) : after[k] = whole[Len(s) + k]
  <2>1. /\ after \in Seq(Char)
        /\ Len(after) = IF Len(s) + 1 <= Len(s) + Len(t)
                        THEN Len(s) + Len(t) - (Len(s) + 1) + 1 ELSE 0
        /\ \A k \in 1 .. Len(s) + Len(t) - (Len(s) + 1) + 1 : after[k] = whole[Len(s) + 1 + k - 1]
    BY ONLY <1>1, <1>2, SubSeqProperties
  <2> HIDE DEF after
  <2>2. after \in Seq(Char) /\ Len(after) = Len(t)
    BY ONLY <1>1, <2>1
  <2>3. ASSUME NEW k \in 1 .. Len(t) PROVE after[k] = whole[Len(s) + k]
    <3>1. k \in 1 .. Len(s) + Len(t) - (Len(s) + 1) + 1 /\ Len(s) + 1 + k - 1 = Len(s) + k
      BY <1>1
    <3>2. after[k] = whole[Len(s) + 1 + k - 1]
      BY <2>1, <3>1
    <3> QED
      BY <3>1, <3>2
  <2> QED
    BY <2>2, <2>3
<1>4. /\ before \in Seq(Char) /\ Len(before) = Len(s)
      /\ \A k \in 1 .. Len(s) : before[k] = whole[k]
  <2>1. /\ before \in Seq(Char)
        /\ Len(before) = IF 1 <= Len(s) THEN Len(s) - 1 + 1 ELSE 0
        /\ \A k \in 1 .. Len(s) - 1 + 1 : before[k] = whole[1 + k - 1]
    BY ONLY <1>1, SubSeqProperties
  <2> HIDE DEF before
  <2> QED
    BY ONLY <1>1, <2>1
<1> HIDE DEF after, before
<1>5. after = t /\ before = s
  BY ONLY <1>1, <1>3, <1>4, SeqEqual, s \in Seq(Char), t \in Seq(Char)
<1> QED
  BY ONLY <1>1, <1>5 DEF From, after, before

LEMMA SpacesType ==
    ASSUME NEW n \in Nat
    PROVE  Spaces(n) \in Seq(Char) /\ Len(Spaces(n)) = n /\ \A k \in 1 .. n : Spaces(n)[k] = Space
BY ShellAssumption DEF Spaces

\* Leading spaces are skipped and nothing else.
LEMMA Skipped ==
    ASSUME NEW n \in Nat, NEW t \in Seq(Char), t # << >> => t[1] # Space
    PROVE  skip_spaces(Spaces(n) \o t) = t
<1> DEFINE gap == Spaces(n)
           whole == gap \o t
<1>1. gap \in Seq(Char) /\ Len(gap) = n /\ \A k \in 1 .. n : gap[k] = Space
  BY SpacesType
<1> HIDE DEF gap
<1>2. /\ Len(whole) = n + Len(t) /\ Len(t) \in Nat
      /\ \A k \in 1 .. n : whole[k] = gap[k]
      /\ \A k \in 1 .. Len(t) : whole[n + k] = t[k]
  BY <1>1, Joined, SMTT(30)
<1>3. From(whole, n) = t
  BY <1>1, Parts
<1> HIDE DEF whole
<1>4. \A k \in 1 .. n : (whole[k] = Space) = TRUE
  BY <1>1, <1>2
<1>5. n < Len(whole) => (whole[n + 1] = Space) # TRUE
  <2>1. ASSUME n < Len(whole) PROVE whole[n + 1] # Space
    <3>1. Len(t) # 0 /\ 1 \in 1 .. Len(t)
      BY <1>2, <2>1
    <3>2. t # << >>
      BY <3>1, EmptySeq
    <3> QED
      BY <1>2, <3>1, <3>2
  <2> QED
    BY <2>1
<1>6. Len(whole) \in Nat /\ n \in 0 .. Len(whole)
  BY <1>2
<1>7. Span(whole, TRUE) = n
  BY <1>4, <1>5, <1>6, SpanIs
<1> QED
  BY <1>3, <1>7 DEF skip_spaces, gap, whole

\* The first word is what stands before the spaces and the text behind them.
LEMMA WordAndText ==
    ASSUME NEW word \in Seq(Char), \A k \in 1 .. Len(word) : word[k] # Space,
           NEW n \in Nat, NEW content \in Seq(Char),
           n = 0 => content = << >>, content # << >> => content[1] # Space
    PROVE  /\ Word(word \o (Spaces(n) \o content)) = word
           /\ Content(word \o (Spaces(n) \o content)) = content
<1> DEFINE gap == Spaces(n)
           tail == gap \o content
           whole == word \o tail
<1>1. gap \in Seq(Char) /\ Len(gap) = n /\ \A k \in 1 .. n : gap[k] = Space
  BY SpacesType
<1>2. skip_spaces(tail) = content
  BY Skipped
<1> HIDE DEF gap
<1>3. gap \in Seq(Char)
  BY <1>1
<1>4. tail = gap \o content
  OBVIOUS
<1> HIDE DEF tail
<1>5. /\ tail \in Seq(Char) /\ Len(tail) = Len(gap) + Len(content) /\ Len(content) \in Nat
       /\ \A k \in 1 .. Len(gap) : tail[k] = gap[k]
  BY ONLY <1>3, <1>4, content \in Seq(Char), Joined
<1>6. /\ tail \in Seq(Char) /\ Len(tail) = n + Len(content) /\ Len(content) \in Nat
      /\ \A k \in 1 .. n : tail[k] = gap[k]
  BY ONLY <1>1, <1>5
<1>7. whole = word \o tail
  OBVIOUS
<1> HIDE DEF whole
<1>8. tail \in Seq(Char)
  BY <1>5
<1>9. /\ Len(word) \in Nat /\ Len(whole) = Len(word) + Len(tail)
      /\ \A k \in 1 .. Len(word) : whole[k] = word[k]
      /\ \A k \in 1 .. Len(tail) : whole[Len(word) + k] = tail[k]
  BY ONLY <1>8, <1>7, word \in Seq(Char), Joined
<1>10. \A k \in 1 .. Len(word) : (whole[k] = Space) = FALSE
  BY <1>9
<1>11. Len(word) < Len(whole) => (whole[Len(word) + 1] = Space) # FALSE
  <2>1. ASSUME Len(word) < Len(whole) PROVE whole[Len(word) + 1] = Space
    <3>1. Len(tail) # 0
      BY <1>6, <1>9, <2>1
    <3>2. n # 0
      <4>1. ASSUME n = 0 PROVE FALSE
        <5>1. Len(content) = 0
          BY <4>1, EmptySeq
        <5> QED
          BY <1>6, <3>1, <4>1, <5>1
      <4> QED
        BY <4>1
    <3>3. 1 \in 1 .. n /\ 1 \in 1 .. Len(tail)
      BY <1>6, <3>2
    <3> QED
      BY <1>1, <1>6, <1>9, <3>3
  <2> QED
    BY <2>1
<1>12. Len(whole) \in Nat /\ Len(word) \in 0 .. Len(whole)
  BY <1>6, <1>9
<1>13. Span(whole, FALSE) = Len(word)
  BY <1>10, <1>11, <1>12, SpanIs
<1>14. From(whole, Len(word)) = tail /\ SubSeq(whole, 1, Len(word)) = word
  BY <1>6, <1>7, Parts
<1> QED
  BY <1>2, <1>13, <1>14 DEF Word, Content, whole, tail, gap

\* On every line the commands find the word and the content it was made of.
LEMMA ParsedLine ==
    ASSUME NEW line \in Lines, NEW path, path = skip_spaces(Characters(line))
    PROVE  /\ path \in Seq(Char)
           /\ copy_token(path) \in Seq(Char)
           /\ Len(line.word) < NAME_SIZE => copy_token(path) = line.word
           /\ Content(path) = line.text
<1> DEFINE word == line.word
           content == line.text
           lead == Spaces(line.lead)
           gap == Spaces(line.gap)
           tail == gap \o content
           rest == word \o tail
<1>1. /\ word \in Seq(Char) /\ content \in Seq(Char) /\ line.lead \in Nat /\ line.gap \in Nat
      /\ \A k \in 1 .. Len(word) : word[k] # Space
      /\ word = << >> => line.gap = 0
      /\ line.gap = 0 => content = << >>
      /\ content # << >> => content[1] # Space
  BY LinesAssumption
<1>2. lead \in Seq(Char) /\ gap \in Seq(Char) /\ Len(gap) = line.gap
  BY <1>1, SpacesType
<1>3. Characters(line) = ((lead \o word) \o gap) \o content
  BY DEF Characters
<1> HIDE DEF word, content, lead, gap
<1>4. word \in Seq(Char)
  BY <1>1
<1>5. content \in Seq(Char)
  BY <1>1
<1>6. lead \in Seq(Char)
  BY <1>2
<1>7. gap \in Seq(Char)
  BY <1>2
<1>8. tail \in Seq(Char) /\ Len(tail) = line.gap + Len(content) /\ Len(content) \in Nat
  BY <1>1, <1>2, Joined
<1>9. Characters(line) = lead \o rest
  <2>1. ((lead \o word) \o gap) \o content = lead \o (word \o (gap \o content))
    <3>1. \A a, b, c, d \in Seq(Char) : ((a \o b) \o c) \o d = a \o (b \o (c \o d))
      BY Regrouped
    <3>2. \A d \in Seq(Char) : ((lead \o word) \o gap) \o d = lead \o (word \o (gap \o d))
      BY ONLY ZenonT(30), <3>1, <1>4, <1>6, <1>7
    <3> QED
      BY ONLY Zenon, <3>2, <1>5
  <2> QED
    BY <1>3, <2>1
<1> HIDE DEF tail
<1>10. /\ rest \in Seq(Char) /\ Len(word) \in Nat /\ Len(rest) = Len(word) + Len(tail)
      /\ \A k \in 1 .. Len(word) : rest[k] = word[k]
  <2>1. tail \in Seq(Char)
    BY <1>8
  <2> DEFINE w == rest
  <2>2. w = word \o tail
    OBVIOUS
  <2> HIDE DEF w
  <2>3. /\ w \in Seq(Char) /\ Len(word) \in Nat /\ Len(w) = Len(word) + Len(tail)
        /\ \A k \in 1 .. Len(word) : w[k] = word[k]
    BY ONLY <1>4, <2>1, <2>2, Joined
  <2> QED
    BY <2>3 DEF w
<1>11. Word(rest) = word /\ Content(rest) = content
  <2>1. rest = word \o (Spaces(line.gap) \o content)
    BY DEF tail, gap
  <2>2. line.gap \in Nat
    BY <1>1
  <2>3. \A k \in 1 .. Len(word) : word[k] # Space
    BY <1>1
  <2>4. line.gap = 0 => content = << >>
    BY <1>1
  <2>5. content # << >> => content[1] # Space
    BY <1>1
  <2>6. Word(word \o (Spaces(line.gap) \o content)) = word
    BY ONLY <1>4, <1>5, <2>2, <2>3, <2>4, <2>5, WordAndText
  <2>7. Content(word \o (Spaces(line.gap) \o content)) = content
    BY ONLY <1>4, <1>5, <2>2, <2>3, <2>4, <2>5, WordAndText
  <2> QED
    BY <2>1, <2>6, <2>7
<1> HIDE DEF rest
<1>12. rest # << >> => rest[1] # Space
  <2>1. CASE word = << >>
    <3>1. Len(word) = 0 /\ Len(content) = 0 /\ line.gap = 0
      BY <1>1, <2>1, EmptySeq
    <3>2. Len(rest) = 0
      BY <1>8, <1>10, <3>1
    <3> QED
      BY <1>10, <3>2, EmptySeq
  <2>2. CASE word # << >>
    <3>1. Len(word) # 0
      BY <1>1, <2>2, EmptySeq
    <3>2. 1 \in 1 .. Len(word)
      BY <1>10, <3>1
    <3> QED
      BY <1>1, <1>10, <3>2
  <2> QED
    BY <2>1, <2>2
<1>13. path = rest
  BY <1>1, <1>9, <1>10, <1>12, Skipped DEF lead
<1>14. copy_token(rest) \in Seq(Char) /\ (Len(word) < NAME_SIZE => copy_token(rest) = word)
  <2> DEFINE n == IF Len(word) < NAME_SIZE THEN Len(word) ELSE NAME_SIZE - 1
  <2>1. n \in Int /\ \A k \in 1 .. n : k \in 1 .. Len(word)
    BY <1>10, ShellAssumption
  <2>2. copy_token(rest) = SubSeq(word, 1, n)
    BY <1>11 DEF copy_token
  <2>3. Len(word) < NAME_SIZE => n = Len(word)
    OBVIOUS
  <2> HIDE DEF n
  <2>4. \A k \in 1 .. n : word[k] \in Char
    BY <1>1, <2>1, ElementOfSeq
  <2>5. SubSeq(word, 1, n) \in Seq(Char)
    BY <2>1, <2>4, SubSeqProperties
  <2>6. SubSeq(word, 1, Len(word)) = word
    BY <1>1, SubSeqFull
  <2> QED
    BY <2>2, <2>3, <2>5, <2>6
<1> QED
  BY <1>11, <1>10, <1>13, <1>14 DEF word, content

-----------------------------------------------------------------------------
(***************************************************************************)
(* The files.  The shell's commands are calls of the file system, so that  *)
(* what module VfsProofs shows of the calls, for every path and every text *)
(* a string can be, holds of the commands.                                 *)
(***************************************************************************)
FS == INSTANCE VfsProofs WITH Paths <- Seq(Char), Texts <- Seq(Char) \ {NULLPTR}

\* What the theorems about the file system assume of its constants.
LEMMA FileSystem ==
    /\ MAX_FILES \in Nat \ {0}
    /\ NAME_SIZE \in Nat \ {0}
    /\ DATA_SIZE \in Nat \ {0}
    /\ Separator \subseteq Char
    /\ Dot \in Char
    /\ NUL \notin Char
    /\ Seq(Char) \subseteq Seq(Char)
    /\ Seq(Char) \ {NULLPTR} \subseteq Seq(Char)
    /\ NULLPTR \notin Seq(Char) \ {NULLPTR}
BY ShellAssumption

\* The two instances of the file system differ in the paths and the texts its
\* own next-state relation takes, and in nothing the calls depend on.
LEMMA SameState ==
    /\ V!Init <=> FS!Init
    /\ V!TypeOK <=> FS!TypeOK
    /\ V!StoredFiles = FS!StoredFiles
    /\ V!StoredFiles' = FS!StoredFiles'
    /\ V!Code("OK") = FS!Code("OK")
    /\ \A path : V!normalize_name(path) = FS!normalize_name(path)
<1>1. V!Init <=> FS!Init
  BY DEF V!Init, V!Slots, V!NoFile, V!Slot, V!Blank, V!Offsets, V!Code, V!Answer,
         FS!Init, FS!Slots, FS!NoFile, FS!Slot, FS!Blank, FS!Offsets, FS!Code, FS!Answer
<1>2. V!TypeOK <=> FS!TypeOK
  BY DEF V!TypeOK, V!File, V!Slots, V!Offsets, FS!TypeOK, FS!File, FS!Slots, FS!Offsets
<1>3. V!StoredFiles = FS!StoredFiles /\ V!StoredFiles' = FS!StoredFiles'
  BY DEF V!StoredFiles, V!Text, V!Slots, V!Offsets, FS!StoredFiles, FS!Text, FS!Slots, FS!Offsets
<1>4. /\ V!Code("OK") = FS!Code("OK")
      /\ \A path : V!normalize_name(path) = FS!normalize_name(path)
  BY DEF V!Code, V!Answer, V!normalize_name, V!Leading,
         FS!Code, FS!Answer, FS!normalize_name, FS!Leading
<1> QED
  BY <1>1, <1>2, <1>3, <1>4

LEMMA SameLookups ==
    ASSUME NEW path
    PROVE  /\ V!read(path) <=> FS!read(path)
           /\ V!stat(path, TRUE) <=> FS!stat(path, TRUE)
           /\ V!list <=> FS!list
<1> USE DEF V!normalize_name, V!Leading, V!Valid, V!IsName, V!Code, V!Answer, V!Found, V!Finds,
            V!Slots, V!Matches, V!Offsets, V!Text,
            FS!normalize_name, FS!Leading, FS!Valid, FS!IsName, FS!Code, FS!Answer, FS!Found,
            FS!Finds, FS!Slots, FS!Matches, FS!Offsets, FS!Text
<1>1. V!read(path) <=> FS!read(path)
  BY DEF V!read, FS!read
<1>2. V!stat(path, TRUE) <=> FS!stat(path, TRUE)
  BY DEF V!stat, FS!stat
<1>3. V!list <=> FS!list
  BY DEF V!list, FS!list
<1> QED
  BY <1>1, <1>2, <1>3

LEMMA SameChanges ==
    ASSUME NEW path, NEW content
    PROVE  /\ V!create(path) <=> FS!create(path)
           /\ V!remove(path) <=> FS!remove(path)
           /\ V!write(path, content) <=> FS!write(path, content)
           /\ V!append(path, content) <=> FS!append(path, content)
<1> USE DEF V!normalize_name, V!Leading, V!Valid, V!IsName, V!Fail, V!Code, V!Answer, V!Found,
            V!Finds, V!Slots, V!Matches, V!Slot, V!Blank, V!Offsets,
            FS!normalize_name, FS!Leading, FS!Valid, FS!IsName, FS!Fail, FS!Code, FS!Answer,
            FS!Found, FS!Finds, FS!Slots, FS!Matches, FS!Slot, FS!Blank, FS!Offsets
<1>1. V!create(path) <=> FS!create(path)
  BY DEF V!create, V!NewFile, V!HasRoom, FS!create, FS!NewFile, FS!HasRoom
<1>2. V!remove(path) <=> FS!remove(path)
  BY DEF V!remove, V!Removed, V!NoFile, FS!remove, FS!Removed, FS!NoFile
<1>3. V!write(path, content) <=> FS!write(path, content)
  BY DEF V!write, V!StoreInNew, V!Store, V!Copy, V!NewFile, V!HasRoom,
         FS!write, FS!StoreInNew, FS!Store, FS!Copy, FS!NewFile, FS!HasRoom
<1>4. V!append(path, content) <=> FS!append(path, content)
  BY DEF V!append, V!StoreInNew, V!Store, V!Copy, V!NewFile, V!HasRoom,
         FS!append, FS!StoreInNew, FS!Store, FS!Copy, FS!NewFile, FS!HasRoom
<1> QED
  BY <1>1, <1>2, <1>3, <1>4

-----------------------------------------------------------------------------
\* What execute_command hands to the file system are strings.
LEMMA ArgumentTypes ==
    ASSUME NEW args \in Args
    PROVE  /\ skip_spaces(args) \in Seq(Char)
           /\ copy_token(skip_spaces(args)) \in Seq(Char)
           /\ Content(skip_spaces(args)) \in Seq(Char) \ {NULLPTR}
<1>1. PICK line \in Lines : args = Characters(line)
  BY DEF Args
<1>2. line.text \in Seq(Char) \ {NULLPTR}
  BY LinesAssumption
<1> QED
  BY <1>1, <1>2, ParsedLine

\* A step that asks the file system nothing.
NoCall == UNCHANGED <<files, file_count>> /\ (UNCHANGED reply \/ reply' = FS!Code("OK"))

\* Every command is one call of the file system or none.
LEMMA CommandsAreCalls == [Next]_vars => FS!Next \/ NoCall
<1> SUFFICES ASSUME [Next]_vars PROVE FS!Next \/ NoCall
  OBVIOUS
<1>1. CASE register_builtin_apps \/ UNCHANGED vars
  BY <1>1 DEF register_builtin_apps, vars, NoCall
<1>2. CASE PrintOnly \/ lst
  BY <1>2, SameState, SameLookups DEF PrintOnly, lst, NoFileCall, NoCall, FS!Next
<1>3. ASSUME NEW args \in Args, touch(args) \/ rdf(args) \/ rm(args) \/ stat(args) PROVE FS!Next
  <2> DEFINE path == skip_spaces(args)
  <2>1. path \in Seq(Char)
    BY ArgumentTypes
  <2>2. V!create(path) \/ V!read(path) \/ V!remove(path) \/ V!stat(path, TRUE)
    BY <1>3 DEF touch, rdf, rm, stat
  <2> HIDE DEF path
  <2>3. FS!create(path) \/ FS!read(path) \/ FS!remove(path) \/ FS!stat(path, TRUE)
    BY <2>2, SameLookups, SameChanges
  <2> QED
    BY <2>1, <2>3 DEF FS!Next
<1>4. ASSUME NEW args \in Args, rec(args) \/ append(args) PROVE FS!Next \/ NoCall
  <2> DEFINE filename == copy_token(skip_spaces(args))
             content == Content(skip_spaces(args))
  <2>1. filename \in Seq(Char) /\ content \in Seq(Char) \ {NULLPTR}
    BY ArgumentTypes
  <2>2. NoFileCall \/ V!write(filename, content) \/ V!append(filename, content)
    BY <1>4 DEF rec, append
  <2> HIDE DEF filename, content
  <2>3. NoFileCall \/ FS!write(filename, content) \/ FS!append(filename, content)
    BY <2>2, SameChanges
  <2> QED
    BY <2>1, <2>3, SameState DEF FS!Next, NoFileCall, NoCall
<1>5. ASSUME NEW args \in Args, run(args) \/ lang(args) PROVE NoCall
  BY <1>5, SameState DEF run, lang, NoFileCall, NoCall
<1> QED
  BY <1>1, <1>2, <1>3, <1>4, <1>5 DEF Next, execute_command

\* The slots stay as the file system keeps them, and the answers are its own.
LEMMA FilesInvariant == Spec => []FS!IInv
<1>1. Init => FS!IInv
  <2>1. FS!Init => FS!IInv
    BY FileSystem, FS!InitIInv
  <2> QED
    BY <2>1, SameState DEF Init
<1>2. FS!IInv /\ [Next]_vars => FS!IInv'
  <2> SUFFICES ASSUME FS!IInv, [Next]_vars PROVE FS!IInv'
    OBVIOUS
  <2>1. CASE FS!Next
    <3>1. FS!IInv /\ FS!Next => FS!StepOK
      BY FileSystem, FS!NextOK
    <3> QED
      BY <2>1, <3>1 DEF FS!StepOK, FS!IInv
  <2>2. CASE NoCall
    BY <2>2 DEF NoCall, FS!IInv, FS!Codes, FS!Code, FS!Answer
  <2> QED
    BY <2>1, <2>2, CommandsAreCalls
<1> QED
  BY <1>1, <1>2, PTL DEF Spec

\* The step of the map from names to texts.
LEMMA CommandRef ==
    FS!IInv /\ FS!IInv' /\ [Next]_vars => [FS!F!Next]_<<FS!StoredFiles, reply>>
<1> SUFFICES ASSUME FS!IInv, FS!IInv', [Next]_vars
             PROVE  [FS!F!Next]_<<FS!StoredFiles, reply>>
  OBVIOUS
<1>1. CASE FS!Next
  <2>1. FS!IInv /\ FS!IInv' /\ [FS!Next]_FS!vars => [FS!F!Next]_<<FS!StoredFiles, reply>>
    BY FileSystem, FS!StepRef
  <2> QED
    BY <1>1, <2>1
<1>2. CASE NoCall
  <2>1. UNCHANGED FS!StoredFiles
    <3>1. UNCHANGED <<files, file_count>> => UNCHANGED FS!StoredFiles
      BY FileSystem, FS!SameStore
    <3> QED
      BY <1>2, <3>1 DEF NoCall
  <2>2. reply' = FS!Code("OK") => FS!F!Refuse
    BY <2>1 DEF FS!F!Refuse, FS!Code, FS!Answer, FS!F!Code, FS!F!Answer
  <2> QED
    BY <1>2, <2>1, <2>2 DEF NoCall, FS!F!Next
<1> QED
  BY <1>1, <1>2, CommandsAreCalls

\* To its user the shell is a bounded map from names to texts: every command
\* changes the map as one operation of FileStore does, or not at all, whatever
\* is on the lines.
THEOREM CommandsAreFileStore == Spec => FS!FileStoreSpec
<1>1. Init => FS!F!Init
  <2>1. FS!Init => FS!F!Init
    BY FileSystem, FS!InitRef
  <2> QED
    BY <2>1, SameState DEF Init
<1>2. FS!IInv /\ FS!IInv' /\ [Next]_vars => [FS!F!Next]_<<FS!StoredFiles, reply>>
  BY CommandRef
<1> QED
  BY <1>1, <1>2, FilesInvariant, PTL DEF Spec, FS!FileStoreSpec, FS!F!Spec

-----------------------------------------------------------------------------
\* An operation of the map leaves all names but one alone.
LEMMA OneNameChanges ==
    ASSUME [FS!F!Next]_<<FS!StoredFiles, reply>>
    PROVE  \E m : \A n :
              n # m => /\ n \in DOMAIN FS!StoredFiles <=> n \in DOMAIN FS!StoredFiles'
                       /\ n \in DOMAIN FS!StoredFiles => FS!StoredFiles[n] = FS!StoredFiles'[n]
<1>1. CASE UNCHANGED FS!StoredFiles
  BY <1>1
<1>2. ASSUME NEW m, NEW t, FS!StoredFiles' = FS!F!Put(m, t)
      PROVE  \A n : n # m => /\ n \in DOMAIN FS!StoredFiles <=> n \in DOMAIN FS!StoredFiles'
                             /\ n \in DOMAIN FS!StoredFiles =>
                                   FS!StoredFiles[n] = FS!StoredFiles'[n]
  BY <1>2 DEF FS!F!Put
<1>3. ASSUME NEW m, FS!F!Create(m) \/ FS!F!NoRoom(m) \/ FS!F!Ask(m)
      PROVE  UNCHANGED FS!StoredFiles \/ FS!StoredFiles' = FS!F!Put(m, << >>)
  BY <1>3 DEF FS!F!Create, FS!F!NoRoom, FS!F!Ask
<1>4. ASSUME NEW m, FS!F!Remove(m)
      PROVE  \A n : n # m => /\ n \in DOMAIN FS!StoredFiles <=> n \in DOMAIN FS!StoredFiles'
                             /\ n \in DOMAIN FS!StoredFiles =>
                                   FS!StoredFiles[n] = FS!StoredFiles'[n]
  BY <1>4 DEF FS!F!Remove
<1>5. ASSUME NEW m, NEW t, NEW before, FS!F!Store(m, t, before)
      PROVE  \E u : FS!StoredFiles' = FS!F!Put(m, u)
  BY <1>5 DEF FS!F!Store
<1>6. CASE FS!F!Refuse \/ FS!F!List
  BY <1>6 DEF FS!F!Refuse, FS!F!List
<1> QED
  BY <1>1, <1>2, <1>3, <1>4, <1>5, <1>6 DEF FS!F!Next

\* A command works on one file: every other keeps its text, for all tables and
\* all lines.
THEOREM CommandsTouchOneFile == Spec => OneFileAtATime
<1> DEFINE changed == {n \in DOMAIN Stored \cup DOMAIN Stored' :
                          \/ n \notin DOMAIN Stored \cap DOMAIN Stored'
                          \/ Stored[n] # Stored'[n]}
<1>1. ASSUME FS!IInv, FS!IInv', [Next]_vars PROVE Cardinality(changed) <= 1
  <2>1. [FS!F!Next]_<<FS!StoredFiles, reply>>
    BY <1>1, CommandRef
  <2>2. Stored = FS!StoredFiles /\ Stored' = FS!StoredFiles'
    BY SameState DEF Stored
  <2>3. PICK m : \A n :
           n # m => /\ n \in DOMAIN FS!StoredFiles <=> n \in DOMAIN FS!StoredFiles'
                    /\ n \in DOMAIN FS!StoredFiles => FS!StoredFiles[n] = FS!StoredFiles'[n]
    BY <2>1, OneNameChanges
  <2>4. changed \subseteq {m}
    BY <2>2, <2>3
  <2> HIDE DEF changed
  <2>5. IsFiniteSet({m}) /\ Cardinality({m}) = 1
    BY FS_Singleton
  <2>6. Cardinality(changed) <= Cardinality({m})
    BY <2>4, <2>5, FS_Subset
  <2> QED
    BY <2>5, <2>6
<1>2. FS!IInv /\ FS!IInv' /\ [Next]_vars => [Cardinality(changed) <= 1]_vars
  BY <1>1
<1> QED
  BY <1>2, FilesInvariant, PTL DEF Spec, OneFileAtATime

-----------------------------------------------------------------------------
\* What rec does to the map: nothing, or it stores its text, which is not the
\* empty one, under the name the first word gives.
LEMMA RecRef ==
    ASSUME FS!IInv, FS!IInv', NEW line \in Lines, rec(Characters(line))
    PROVE  LET name == FS!normalize_name(copy_token(skip_spaces(Characters(line))))
           IN  \/ UNCHANGED FS!StoredFiles /\ printed' # "MSG_FILE_WRITE_OK"
               \/ /\ line.text # << >>
                  /\ FS!F!Store(name, line.text, << >>)
                  /\ printed' = "MSG_FILE_WRITE_OK" => reply'.code = "OK"
<1> DEFINE path == skip_spaces(Characters(line))
           filename == copy_token(path)
           content == Content(path)
           name == FS!normalize_name(filename)
<1>1. filename \in Seq(Char) /\ content = line.text /\ line.text \in Seq(Char) \ {NULLPTR}
  BY ParsedLine, LinesAssumption
<1>2. UNCHANGED <<files, file_count>> => UNCHANGED FS!StoredFiles
  BY FileSystem, FS!SameStore
<1>3. CASE printed' = "MSG_USAGE_WRITE" /\ NoFileCall
  BY <1>2, <1>3 DEF NoFileCall
<1>4. CASE content # << >> /\ V!write(filename, content) /\ printed' = Result("MSG_FILE_WRITE_OK")
  <2> HIDE DEF filename, content
  <2>1. FS!write(filename, content)
    BY <1>4, SameChanges
  <2>2. \/ FS!F!Refuse /\ reply' = FS!Code("INVALID_NAME")
        \/ FS!F!NoRoom(name)
        \/ FS!F!Store(name, content, << >>)
    <3>1. \/ FS!F!Refuse /\ reply' = FS!Code("INVALID_NAME")
          \/ FS!F!NoRoom(name)
          \/ FS!F!Store(name, IF content = NULLPTR THEN << >> ELSE content, << >>)
      <4>1. content \in (Seq(Char) \ {NULLPTR}) \cup {NULLPTR}
        BY <1>1
      <4> QED
        BY <1>1, <2>1, <4>1, FileSystem, FS!WriteRef
    <3> QED
      BY <1>1, <3>1
  <2>3. CASE FS!F!Refuse /\ reply' = FS!Code("INVALID_NAME")
    <3>1. printed' = "INVALID_NAME"
      BY <1>4, <2>3 DEF Result, FS!Code, FS!Answer
    <3> QED
      BY <2>3, <3>1 DEF FS!F!Refuse
  <2>4. CASE FS!F!NoRoom(name)
    <3>1. printed' = "FULL"
      BY <1>4, <2>4 DEF Result, FS!F!NoRoom, FS!F!Code, FS!F!Answer
    <3> QED
      BY <2>4, <3>1 DEF FS!F!NoRoom
  <2>5. CASE FS!F!Store(name, content, << >>)
    <3>1. reply'.code \in {"OK", "TOO_LARGE"}
      BY <2>5 DEF FS!F!Store, FS!F!Code, FS!F!Answer
    <3>2. printed' = "MSG_FILE_WRITE_OK" => reply'.code = "OK"
      BY <1>4, <3>1 DEF Result
    <3> QED
      BY <1>1, <1>4, <2>5, <3>2 DEF filename, content
  <2> QED
    BY <2>2, <2>3, <2>4, <2>5
<1> QED
  BY <1>3, <1>4 DEF rec

\* "rec" never empties a file, whatever is on the line and in the files.
THEOREM RecEmptiesNoFile == Spec => RecNeverEmpties
<1> DEFINE empties == \E n \in DOMAIN Stored :
                         Stored[n] # << >> /\ (n \in DOMAIN Stored' => Stored'[n] = << >>)
<1>1. ASSUME FS!IInv, FS!IInv', NEW args \in Args, rec(args) PROVE ~empties
  <2>1. PICK line \in Lines : args = Characters(line)
    BY DEF Args
  <2>2. Stored = FS!StoredFiles /\ Stored' = FS!StoredFiles'
    BY SameState DEF Stored
  <2>3. PICK name : \/ UNCHANGED FS!StoredFiles
                    \/ line.text # << >> /\ FS!F!Store(name, line.text, << >>)
    BY <1>1, <2>1, RecRef
  <2>4. CASE UNCHANGED FS!StoredFiles
    BY <2>2, <2>4
  <2>5. CASE line.text # << >> /\ FS!F!Store(name, line.text, << >>)
    <3>1. << >> \o line.text = line.text
      BY LinesAssumption, ConcatEmptySeq
    <3>2. PICK t : /\ FS!StoredFiles' = FS!F!Put(name, t)
                   /\ t = line.text \/ t = FS!F!Old(name)
      BY <2>5, <3>1 DEF FS!F!Store
    <3>3. ASSUME NEW n \in DOMAIN FS!StoredFiles, FS!StoredFiles[n] # << >>
          PROVE  n \in DOMAIN FS!StoredFiles' /\ FS!StoredFiles'[n] # << >>
      BY <2>5, <3>2, <3>3 DEF FS!F!Put, FS!F!Old
    <3> QED
      BY <2>2, <3>3
  <2> QED
    BY <2>3, <2>4, <2>5
<1>2. FS!IInv /\ FS!IInv' /\ [Next]_vars => [empties => \A args \in Args : ~rec(args)]_vars
  <2> HIDE DEF empties
  <2> QED
    BY <1>1
<1> QED
  BY <1>2, FilesInvariant, PTL DEF Spec, RecNeverEmpties

\* "File written." is the truth: after it the file the first word names holds
\* exactly the text behind it, on every line and in every state of the files.
THEOREM RecTellsTheTruth == Spec => RecStoresText
<1>1. ASSUME FS!IInv, FS!IInv', NEW line \in Lines, Len(line.word) < NAME_SIZE PROVE KeepsWord(line)
  <2> SUFFICES ASSUME printed' = "MSG_FILE_WRITE_OK", rec(Characters(line))
               PROVE  /\ V!normalize_name(line.word) \in DOMAIN Stored'
                      /\ Stored'[V!normalize_name(line.word)] = line.text
    BY DEF KeepsWord
  <2> DEFINE name == FS!normalize_name(line.word)
  <2>1. copy_token(skip_spaces(Characters(line))) = line.word
    BY <1>1, ParsedLine
  <2>2. FS!F!Store(name, line.text, << >>) /\ reply'.code = "OK"
    BY <1>1, <2>1, RecRef
  <2>3. << >> \o line.text = line.text
    BY LinesAssumption, ConcatEmptySeq
  <2> HIDE DEF name
  <2>4. FS!StoredFiles' = FS!F!Put(name, line.text)
    BY <2>2, <2>3 DEF FS!F!Store, FS!F!Code, FS!F!Answer
  <2>5. name \in DOMAIN FS!StoredFiles' /\ FS!StoredFiles'[name] = line.text
    BY <2>4 DEF FS!F!Put
  <2> QED
    BY <2>5, SameState DEF Stored, name
<1>2. FS!IInv /\ FS!IInv' /\ [Next]_vars =>
         [\A line \in Lines : Len(line.word) < NAME_SIZE => KeepsWord(line)]_vars
  BY <1>1
<1> QED
  BY <1>2, FilesInvariant, PTL DEF Spec, RecStoresText

\* What append reports as done is a store behind the old text.
LEMMA AppendStores ==
    ASSUME FS!IInv, FS!IInv', NEW line \in Lines, append(Characters(line)),
           printed' = "MSG_FILE_WRITE_OK"
    PROVE  LET name == FS!normalize_name(copy_token(skip_spaces(Characters(line))))
           IN  FS!F!Store(name, line.text, FS!F!Old(name)) /\ reply'.code = "OK"
<1> DEFINE path == skip_spaces(Characters(line))
           filename == copy_token(path)
           content == Content(path)
           name == FS!normalize_name(filename)
<1>1. filename \in Seq(Char) /\ content = line.text /\ line.text \in Seq(Char) \ {NULLPTR}
  BY ParsedLine, LinesAssumption
<1>2. V!append(filename, content) /\ printed' = Result("MSG_FILE_WRITE_OK")
  BY DEF append
<1> HIDE DEF filename, content
<1>3. FS!append(filename, content)
  BY <1>2, SameChanges
<1>4. \/ FS!F!Refuse /\ reply' = FS!Code("INVALID_NAME")
      \/ FS!F!NoRoom(name)
      \/ FS!F!Store(name, content, FS!F!Old(name))
  <2>1. content \in (Seq(Char) \ {NULLPTR}) \cup {NULLPTR} /\ content # NULLPTR
    BY <1>1
  <2>2. \/ FS!F!Refuse /\ (reply' = FS!Code("INVALID_NAME") \/ content = NULLPTR)
        \/ FS!F!NoRoom(name)
        \/ /\ content # NULLPTR
           /\ FS!F!Store(name, content, FS!F!Old(name))
    BY <1>1, <1>3, <2>1, FileSystem, FS!AppendRef
  <2> QED
    BY <2>1, <2>2
<1>5. reply' # FS!Code("INVALID_NAME")
  BY <1>2 DEF Result, FS!Code, FS!Answer
<1>6. ~FS!F!NoRoom(name)
  BY <1>2 DEF Result, FS!F!NoRoom, FS!F!Code, FS!F!Answer
<1>7. FS!F!Store(name, content, FS!F!Old(name))
  BY <1>4, <1>5, <1>6
<1>8. reply'.code \in {"OK", "TOO_LARGE"}
  BY <1>7 DEF FS!F!Store, FS!F!Code, FS!F!Answer
<1> QED
  BY <1>1, <1>2, <1>7, <1>8 DEF Result, filename

\* "File written." is the truth of append too: the old text is still there and
\* the new one behind it, and a file that was not there has been created.
THEOREM AppendTellsTheTruth == Spec => AppendAddsText
<1>1. ASSUME FS!IInv, FS!IInv', NEW line \in Lines, Len(line.word) < NAME_SIZE PROVE AddsText(line)
  <2> DEFINE name == FS!normalize_name(line.word)
             old == IF name \in DOMAIN FS!StoredFiles THEN FS!StoredFiles[name] ELSE << >>
  <2> SUFFICES ASSUME printed' = "MSG_FILE_WRITE_OK", append(Characters(line))
               PROVE  /\ name \in DOMAIN FS!StoredFiles'
                      /\ FS!StoredFiles'[name] = old \o line.text
    BY SameState DEF AddsText, Stored
  <2>1. copy_token(skip_spaces(Characters(line))) = line.word
    BY <1>1, ParsedLine
  <2>2. FS!F!Store(name, line.text, FS!F!Old(name)) /\ reply'.code = "OK"
    BY <1>1, <2>1, AppendStores
  <2>3. old = FS!F!Old(name)
    BY DEF FS!F!Old
  <2> HIDE DEF name, old
  <2>4. FS!StoredFiles' = FS!F!Put(name, old \o line.text)
    BY <2>2, <2>3 DEF FS!F!Store, FS!F!Code, FS!F!Answer
  <2> QED
    BY <2>4 DEF FS!F!Put
<1>2. FS!IInv /\ FS!IInv' /\ [Next]_vars =>
         [\A line \in Lines : Len(line.word) < NAME_SIZE => AddsText(line)]_vars
  BY <1>1
<1> QED
  BY <1>2, FilesInvariant, PTL DEF Spec, AppendAddsText

-----------------------------------------------------------------------------
\* The variables of the applications, the language and the start keep their types.
Bundles == [manifest : {NULLPTR} \cup {Builtin[k].manifest : k \in DOMAIN Builtin},
            entry : {NULLPTR} \cup {Builtin[k].entry : k \in DOMAIN Builtin},
            is_used : BOOLEAN]

TablesTyped ==
    /\ apps \in [M!AppSlots -> Bundles]
    /\ app_count \in 0 .. MAX_APPS
    /\ pending \in 0 .. Len(Builtin)
    /\ current_language \in {"LANG_ZH_CN", "LANG_EN"}

\* Registration adds a bundle made of one of the built-in applications.
LEMMA RegisterTyped == TablesTyped /\ register_builtin_apps => TablesTyped'
<1> SUFFICES ASSUME TablesTyped, register_builtin_apps PROVE TablesTyped'
  OBVIOUS
<1> DEFINE manifest == Builtin[pending'].manifest
           entry == Builtin[pending'].entry
<1>1. /\ pending' \in 0 .. Len(Builtin) /\ pending' \in DOMAIN Builtin
      /\ current_language' = current_language
      /\ M!register_app(manifest, entry)
  BY ShellAssumption DEF TablesTyped, register_builtin_apps
<1>2. M!Bundle(manifest, entry, TRUE) \in Bundles
  BY <1>1 DEF M!Bundle, Bundles
<1> HIDE DEF manifest, entry
<1>3. CASE /\ app_count < MAX_APPS
           /\ apps' = [apps EXCEPT ![app_count] = M!Bundle(manifest, entry, TRUE)]
           /\ app_count' = app_count + 1
  <2>1. app_count + 1 \in 0 .. MAX_APPS
    BY <1>3, ShellAssumption DEF TablesTyped
  <2>2. apps' \in [M!AppSlots -> Bundles]
    BY <1>2, <1>3 DEF TablesTyped
  <2> QED
    BY <1>1, <1>3, <2>1, <2>2 DEF TablesTyped
<1>4. CASE UNCHANGED <<apps, app_count>>
  BY <1>1, <1>4 DEF TablesTyped
<1> QED
  BY <1>1, <1>3, <1>4 DEF M!register_app, M!appVars

\* Commands change only the language.
LEMMA CommandsTyped ==
    TablesTyped /\ execute_command /\ UNCHANGED pending => TablesTyped'
<1> SUFFICES ASSUME TablesTyped, execute_command, UNCHANGED pending PROVE TablesTyped'
  OBVIOUS
<1>1. UNCHANGED <<apps, app_count>>
  BY CommandsKeepApps
<1>2. current_language' \in {"LANG_ZH_CN", "LANG_EN"}
  <2>1. ASSUME NEW args, lang(args) PROVE current_language' \in {"LANG_ZH_CN", "LANG_EN"}
    BY <2>1 DEF lang, set_language_by_name, TablesTyped
  <2>2. ASSUME NEW args, touch(args) \/ rdf(args) \/ rec(args) \/ append(args)
                         \/ rm(args) \/ stat(args) \/ run(args)
        PROVE  current_language' = current_language
    BY <2>2 DEF touch, rdf, rec, append, rm, stat, run
  <2>3. PrintOnly \/ lst => current_language' = current_language
    BY DEF PrintOnly, lst
  <2> QED
    BY <2>1, <2>2, <2>3 DEF execute_command, TablesTyped
<1> QED
  BY <1>1, <1>2 DEF TablesTyped

\* The variables of the shell keep their types, the slots of the file system
\* and the table of applications among them.
THEOREM TypeCorrect == Spec => []TypeOK
<1>1. Init => TablesTyped
  <2>1. M!NoBundle \in Bundles
    BY DEF M!NoBundle, M!Bundle, Bundles
  <2> QED
    BY <2>1, ShellAssumption DEF Init, M!AppInit, TablesTyped
<1>2. TablesTyped /\ [Next]_vars => TablesTyped'
  <2>1. TablesTyped /\ UNCHANGED vars => TablesTyped'
    BY DEF TablesTyped, vars
  <2> QED
    BY <2>1, RegisterTyped, CommandsTyped DEF Next
<1>3. FS!IInv /\ TablesTyped => TypeOK
  <2>1. FS!IInv => FS!TypeOK
    BY FileSystem, FS!IInvParts
  <2> QED
    BY <2>1, SameState DEF TypeOK, TablesTyped, Bundles
<1> QED
  BY <1>1, <1>2, <1>3, FilesInvariant, PTL DEF Spec
=============================================================================
