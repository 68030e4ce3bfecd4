----------------------------- MODULE AppManager -----------------------------
(***************************************************************************)
(* The application manager, kernel/app/app.cpp: a table of registered      *)
(* applications and the launch of one of them in its sandbox.  Identifiers *)
(* are sequences of characters, sets of permission bits are sets.          *)
(***************************************************************************)
EXTENDS Naturals, Sequences

CONSTANTS MAX_APPS,        \* 16, the length of the table
          CONTAINER_SIZE,  \* 64, the size of container_path
          PREFIX,          \* the length of "/Applications/", 14
          Dot, Slash,      \* the characters '.' and '/'
          SafePermissions, \* the permissions that are granted when asked for
          NULLPTR

VARIABLES apps,      \* the table: index -> bundle
          app_count,
          launched   \* the context of the last entry called, NULLPTR at first

appVars == <<apps, app_count, launched>>

AppSlots == 0 .. (MAX_APPS - 1)

Bundle(manifest, entry, is_used) ==
    [manifest |-> manifest, entry |-> entry, is_used |-> is_used]

NoBundle == Bundle(NULLPTR, NULLPTR, FALSE)

AppInit ==
    /\ apps = [i \in AppSlots |-> NoBundle]
    /\ app_count = 0
    /\ launched = NULLPTR

-----------------------------------------------------------------------------
IsApp(i, identifier) ==
    /\ i < app_count
    /\ apps[i].is_used
    /\ apps[i].manifest.identifier = identifier

\* A mistake: the last registered application is not compared.
IsRegistered_NotLast(identifier) ==
    \E i \in AppSlots : i + 1 < app_count /\ IsApp(i, identifier)

IsRegistered(identifier) == \E i \in AppSlots : IsApp(i, identifier)

Complete(manifest, entry) ==
    /\ manifest # NULLPTR
    /\ manifest.identifier # NULLPTR
    /\ entry # NULLPTR

\* An incomplete or a second manifest, and one the table has no room for, are
\* refused and change nothing.
register_app(manifest, entry) ==
    IF /\ Complete(manifest, entry)
       /\ app_count < MAX_APPS
       /\ ~IsRegistered(manifest.identifier)
    THEN /\ apps' = [apps EXCEPT ![app_count] = Bundle(manifest, entry, TRUE)]
         /\ app_count' = app_count + 1
         /\ UNCHANGED launched
    ELSE UNCHANGED appVars

-----------------------------------------------------------------------------
\* The identifier as a path.
Path(identifier) ==
    [k \in 1 .. Len(identifier) |->
        IF identifier[k] = Dot THEN Slash ELSE identifier[k]]

\* A mistake: a byte more than the NUL takes is left free.
build_container_path_Short(identifier) ==
    LET room == CONTAINER_SIZE - 2 - PREFIX
        path == Path(identifier)
        kept == IF Len(path) <= room THEN Len(path) ELSE room
    IN  [path |-> SubSeq(path, 1, kept),
         suffix |-> PREFIX + kept + 5 < CONTAINER_SIZE]

\* build_container_path: the prefix, then as much of the path as leaves a byte
\* for the NUL, then the suffix ".app" if it fits behind it.
build_container_path(identifier) ==
    LET room == CONTAINER_SIZE - 1 - PREFIX
        path == Path(identifier)
        kept == IF Len(path) <= room THEN Len(path) ELSE room
    IN  [path |-> SubSeq(path, 1, kept),
         suffix |-> PREFIX + kept + 5 < CONTAINER_SIZE]

default_allowed_permissions(requested) == requested \cap SafePermissions

\* launch: the entry of the first application with the identifier is called.
launch(identifier) ==
    /\ \E i \in AppSlots :
          /\ IsApp(i, identifier)
          /\ \A k \in AppSlots : k < i => ~IsApp(k, identifier)
          /\ launched' =
                [manifest |-> apps[i].manifest,
                 granted |-> default_allowed_permissions(apps[i].manifest.requested),
                 container_path |-> build_container_path(identifier),
                 entry |-> apps[i].entry]
    /\ UNCHANGED <<apps, app_count>>

launch_fails(identifier) == ~IsRegistered(identifier) /\ UNCHANGED appVars

-----------------------------------------------------------------------------
\* No two applications have the same identifier: launch goes by the first
\* match, the second would never run.
IdentifiersUnique ==
    \A i, k \in AppSlots :
        /\ i < app_count
        /\ k < app_count
        /\ apps[i].manifest.identifier = apps[k].manifest.identifier
        => i = k

\* Applications have containers of their own, with the suffix or without it, if
\* their identifiers hold no slash and fit into the buffer up to its last byte:
\* dots become slashes, and what does not fit is cut off.
ContainersDistinct ==
    LET Plain(i) ==
            LET identifier == apps[i].manifest.identifier
            IN  /\ \A n \in 1 .. Len(identifier) : identifier[n] # Slash
                /\ PREFIX + Len(identifier) < CONTAINER_SIZE
    IN  \A i, k \in AppSlots :
            /\ i < app_count
            /\ k < app_count
            /\ Plain(i)
            /\ Plain(k)
            /\ build_container_path(apps[i].manifest.identifier)
                 = build_container_path(apps[k].manifest.identifier)
            => i = k
=============================================================================
