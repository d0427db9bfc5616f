----------------------------- MODULE Namespace -----------------------------
(***************************************************************************)
(* The directory tree of the metadata server: inode rows, the file rows    *)
(* that mirror them, the six operations of the service that change the     *)
(* tree, and the transactions they run in.                                 *)
(*                                                                         *)
(* A transaction reads at BeginTx and writes at Commit; the requests of    *)
(* several clients overlap between the two.  The stores differ in what the *)
(* writes land on (Base): the in-memory store puts back the snapshot the   *)
(* transaction has worked on, PostgreSQL (read committed) updates the rows *)
(* of the moment, which may have changed since they were read.  An error   *)
(* rolls the transaction back and changes nothing, so a request that is    *)
(* refused on its first reads is no step of this module.                   *)
(*                                                                         *)
(* A path is the sequence of its components and a name is a sequence too:  *)
(* the service refuses a blank name and nothing else, so a name may hold a *)
(* separator.  Every row is of status active (the service deletes rows, it *)
(* never marks them), and ids are drawn afresh, as the gateway does.        *)
(***************************************************************************)
EXTENDS Integers, FiniteSets, SequencesExt

CONSTANTS Inodes, Files, Names, Clients, Stores,
          Escaped,    \* the components with a backslash that LIKE takes for an escape
          Root,       \* metadata.RootInodeID
          None,       \* the empty id or name
          MaxOps      \* bound: transactions begun in a behaviour

ASSUME NamespaceAssumption ==
    /\ Root \in Inodes /\ None \notin Inodes \cup Files \cup Names
    /\ IsFiniteSet(Inodes)
    /\ \A n \in Names : Len(n) > 0
    /\ Stores \subseteq {"memory", "postgres"} /\ Stores # {}
    /\ MaxOps \in Nat

VARIABLES store,  \* which repository the process was started with
          db,     \* the committed rows: [inodes, files]
          tx,     \* client -> the request it has open and the rows it has read
          drawn,  \* the ids requests have asked for
          ops,    \* transactions begun
          stale   \* a PostgreSQL transaction has written over rows changed since it read them

vars == <<store, db, tx, drawn, ops, stale>>

NoRow == [type |-> "none"]
NoTx == [op |-> "none"]

-----------------------------------------------------------------------------
(* Rows and paths. *)

Present(d, i) == d.inodes[i] # NoRow
FilePresent(d, f) == d.files[f] # NoRow
IsDirectory(d, i) == i \in Inodes /\ Present(d, i) /\ d.inodes[i].type = "directory"

\* store.joinPath and the service's childPath; the root's empty name, should
\* it ever be joined, leaves an empty component.
joinPath(parentPath, name) == parentPath \o (IF name = None THEN <<None>> ELSE name)

\* The last component gives way to the new name; the path of the root stays "/".
replaceBaseName(path, name) ==
    IF path = <<>> THEN path ELSE joinPath(Front(path), name)

pathWithinPrefix(path, prefix) == IsPrefix(prefix, path)

\* The prefix filters of ListFiles and UpdateSubtreePaths.  PostgreSQL takes the
\* prefix for a LIKE pattern and nobody escapes it: below a path with a backslash
\* it finds nothing.  (What a wildcard in a name finds besides is dropped by
\* pathWithinPrefix, or is not below the directory.)
prefixFilter(path, prefix) ==
    /\ IsPrefix(prefix, path)
    /\ store = "postgres" => Range(prefix) \cap Escaped = {}

replacePathPrefix(path, old, new) ==
    new \o SubSeq(path, Len(old) + 1, Len(path))

\* The inodes met on the way up from i, i included.
Chain(d, i) ==
    LET above(S) == {d.inodes[j].parent : j \in {k \in S : Present(d, k)}} \ {None}
        up[n \in 0..Cardinality(Inodes)] ==
            IF n = 0 THEN {i} ELSE LET S == up[n - 1] IN S \cup above(S)
    IN up[Cardinality(Inodes)]

isDescendant(d, candidate, ancestor) ==
    \E j \in Chain(d, candidate) : Present(d, j) /\ d.inodes[j].parent = ancestor

nameTaken(d, parent, name, self) ==
    \E i \in Inodes \ {self} :
        Present(d, i) /\ d.inodes[i].parent = parent /\ d.inodes[i].name = name

listChildren(d, i) == {j \in Inodes : Present(d, j) /\ d.inodes[j].parent = i}

fileOfInode(d, i) == {f \in Files : FilePresent(d, f) /\ d.files[f].inode = i}

-----------------------------------------------------------------------------
(* What the stores do to the rows. *)

createInode(d, i, row) == [d EXCEPT !.inodes[i] = row]

createFile(d, f, row) == [d EXCEPT !.files[f] = row]

renameInode(d, i, name, path) ==
    [d EXCEPT !.inodes[i] = [@ EXCEPT !.name = name, !.path = path]]

moveInode(d, i, parent, name, path) ==
    [d EXCEPT !.inodes[i] = [@ EXCEPT !.parent = parent, !.name = name, !.path = path]]

deleteInode(d, inodes) ==
    [d EXCEPT !.inodes = [i \in Inodes |-> IF i \in inodes THEN NoRow ELSE @[i]]]

deleteFile(d, files) ==
    [d EXCEPT !.files = [f \in Files |-> IF f \in files THEN NoRow ELSE @[f]]]

\* The inodes below a directory.
subtree(d, i) == {j \in Inodes : Present(d, j) /\ isDescendant(d, j, i)}

\* deleteFileCascade for each of the files (their sessions and chunks are in
\* module Upload), deleteInode for each of the inodes.
deleteRows(d, inodes, files) == deleteInode(deleteFile(d, files), inodes)

\* The rows below the directory whose path has the old prefix.
cachedPaths(d, i, old) ==
    {j \in subtree(d, i) \ {i} : prefixFilter(d.inodes[j].path, old)}

\* (The recursive query of PostgreSQL does not end on a cycle; when two moves
\* have run their statements before either commits, neither query meets one.)
updateSubtreePaths(d, i, old, new) ==
    [d EXCEPT !.inodes = [j \in Inodes |->
        IF j \in cachedPaths(d, i, old)
        THEN [d.inodes[j] EXCEPT !.path = replacePathPrefix(@, old, new)]
        ELSE d.inodes[j]]]

\* File rows are found by their path alone.
listFiles(d, prefix) ==
    {f \in Files : FilePresent(d, f) /\ prefixFilter(d.files[f].path, prefix)}

\* The columns that a patch names are written, the others stay.
patchedFile(row, patch) == patch @@ row

updateFile(d, patch) ==
    [d EXCEPT !.files = [f \in Files |->
        IF f \in DOMAIN patch THEN patchedFile(d.files[f], patch[f]) ELSE d.files[f]]]

syncFilesUnderDirectoryPath(d, old, new) ==
    updateFile(d, [f \in {g \in listFiles(d, old) : pathWithinPrefix(d.files[g].path, old)} |->
                      [path |-> replacePathPrefix(d.files[f].path, old, new)]])

syncFileForInode(d, i) ==
    LET row == d.inodes[i] IN
    updateFile(d, [f \in fileOfInode(d, i) |->
                      [parent |-> row.parent, path |-> row.path, name |-> row.name]])

\* Mutant: the file rows below a directory are forgotten.
SyncWithoutFiles(d, i, old) ==
    IF d.inodes[i].type = "file" THEN syncFileForInode(d, i)
    ELSE updateSubtreePaths(d, i, old, d.inodes[i].path)

syncInodeMutation(d, i, old) ==
    LET new == d.inodes[i].path IN
    IF d.inodes[i].type = "file" THEN syncFileForInode(d, i)
    ELSE syncFilesUnderDirectoryPath(updateSubtreePaths(d, i, old, new), old, new)

-----------------------------------------------------------------------------
(* Transactions. *)

Init ==
    /\ store \in Stores
    /\ db = [inodes |-> [i \in Inodes |->
                            IF i = Root
                            THEN [type |-> "directory", parent |-> None, name |-> None,
                                  path |-> <<>>, file |-> None]
                            ELSE NoRow],
             files |-> [f \in Files |-> NoRow]]
    /\ tx = [c \in Clients |-> NoTx]
    /\ drawn = {Root}
    /\ ops = 0
    /\ stale = FALSE

BeginTx(c, request, ids) ==
    /\ tx[c] = NoTx /\ ops < MaxOps
    /\ tx' = [tx EXCEPT ![c] = request @@ [seen |-> db]]
    /\ drawn' = drawn \cup ids
    /\ ops' = ops + 1
    /\ UNCHANGED <<store, db, stale>>

CreateDirectory(c) ==
    \E i \in Inodes, p \in Inodes, n \in Names :
        /\ i \notin drawn /\ IsDirectory(db, p) /\ ~nameTaken(db, p, n, i)
        /\ BeginTx(c, [op |-> "CreateDirectory", inode |-> i, parent |-> p, name |-> n], {i})

CreateFile(c) ==
    \E i \in Inodes, p \in Inodes, n \in Names, f \in Files :
        /\ {i, f} \cap drawn = {}
        /\ IsDirectory(db, p) /\ ~nameTaken(db, p, n, i)
        /\ BeginTx(c, [op |-> "CreateFile", inode |-> i, parent |-> p, name |-> n, file |-> f],
                   {i, f})

\* The root is not excepted: it takes the name and keeps its path.
RenameInode(c) ==
    \E i \in Inodes, n \in Names :
        /\ Present(db, i) /\ ~nameTaken(db, db.inodes[i].parent, n, i)
        /\ BeginTx(c, [op |-> "RenameInode", inode |-> i, name |-> n], {})

\* Mutant: a directory may go below itself.
MoveAnywhere(c) ==
    \E i \in Inodes, p \in Inodes, new \in Names \cup {None} :
        LET n == IF new = None THEN db.inodes[i].name ELSE new IN
        /\ Present(db, i) /\ IsDirectory(db, p) /\ i # p
        /\ ~nameTaken(db, p, n, i)
        /\ BeginTx(c, [op |-> "MoveInode", inode |-> i, parent |-> p, name |-> n], {})

\* Mutant: an empty new name is taken as it is.
MoveToEmptyName(c) ==
    \E i \in Inodes, p \in Inodes, n \in Names \cup {None} :
        /\ Present(db, i) /\ IsDirectory(db, p) /\ i # p
        /\ IsDirectory(db, i) => ~isDescendant(db, p, i)
        /\ ~nameTaken(db, p, n, i)
        /\ BeginTx(c, [op |-> "MoveInode", inode |-> i, parent |-> p, name |-> n], {})

\* An empty new name keeps the name.
MoveInode(c) ==
    \E i \in Inodes, p \in Inodes, new \in Names \cup {None} :
        LET n == IF new = None THEN db.inodes[i].name ELSE new IN
        /\ Present(db, i) /\ IsDirectory(db, p) /\ i # p
        /\ IsDirectory(db, i) => ~isDescendant(db, p, i)
        /\ ~nameTaken(db, p, n, i)
        /\ BeginTx(c, [op |-> "MoveInode", inode |-> i, parent |-> p, name |-> n], {})

DeleteFile(c) ==
    \E f \in Files :
        /\ FilePresent(db, f)
        /\ Present(db, db.files[f].inode) /\ listChildren(db, db.files[f].inode) = {}
        /\ BeginTx(c, [op |-> "Delete", inodes |-> {db.files[f].inode}, files |-> {f}], {})

\* Mutant: the inodes of the files below go, their file rows stay.
DeleteOnlyInodes(c) ==
    \E i \in Inodes \ {Root}, recursive \in BOOLEAN :
        LET below == subtree(db, i) IN
        /\ IsDirectory(db, i)
        /\ recursive \/ below = {}
        /\ BeginTx(c, [op |-> "Delete", inodes |-> below \cup {i}, files |-> {}], {})

\* Without Recursive the directory must be empty; with it the children go
\* first, each file through its row.
DeleteDirectory(c) ==
    \E i \in Inodes \ {Root}, recursive \in BOOLEAN :
        LET below == subtree(db, i)
            leaves == {j \in below : db.inodes[j].type = "file"}
        IN
        /\ IsDirectory(db, i)
        /\ recursive \/ below = {}
        /\ \A j \in leaves : fileOfInode(db, j) # {}
        /\ BeginTx(c, [op |-> "Delete", inodes |-> below \cup {i},
                       files |-> UNION {fileOfInode(db, j) : j \in leaves}], {})

-----------------------------------------------------------------------------
(* The writes of an open transaction. *)

\* What the writes land on.
Base(t) == IF store = "memory" THEN t.seen ELSE db

\* A rename writes the name and a path computed from the one it read; a move
\* writes the parent too, and takes the path of the parent as it was read.
Renamed(t) ==
    LET old == t.seen.inodes[t.inode].path
    IN syncInodeMutation(renameInode(Base(t), t.inode, t.name, replaceBaseName(old, t.name)),
                         t.inode, old)

Moved(t) ==
    LET path == joinPath(t.seen.inodes[t.parent].path, t.name)
    IN syncInodeMutation(moveInode(Base(t), t.inode, t.parent, t.name, path), t.inode,
                         t.seen.inodes[t.inode].path)

NewInode(t, type, file) ==
    [type |-> type, parent |-> t.parent, name |-> t.name, file |-> file,
     path |-> joinPath(t.seen.inodes[t.parent].path, t.name)]

DirectoryCreated(t) == createInode(Base(t), t.inode, NewInode(t, "directory", None))

FileCreated(t) ==
    LET row == NewInode(t, "file", t.file) IN
    createFile(createInode(Base(t), t.inode, row), t.file,
               [type |-> "file", inode |-> t.inode, parent |-> t.parent,
                name |-> t.name, path |-> row.path])

Written(t) ==
    CASE t.op = "CreateDirectory" -> DirectoryCreated(t)
      [] t.op = "CreateFile" -> FileCreated(t)
      [] t.op = "RenameInode" -> Renamed(t)
      [] t.op = "MoveInode" -> Moved(t)
      [] t.op = "Delete" -> deleteRows(Base(t), t.inodes, t.files)

\* An update and a delete are followed or preceded by a read of the row, which
\* must still be there; the key of an insert is free, its id being new.
RowsAsNeeded(t) ==
    CASE t.op \in {"CreateDirectory", "CreateFile"} -> TRUE
      [] t.op = "Delete" -> \A i \in t.inodes : Present(Base(t), i)
      [] OTHER -> Present(Base(t), t.inode)

\* The constraints of 001_init_mds.sql: a path is unique, a name is unique in
\* its parent, the inode of a file row exists.  The in-memory store has none.
constraintsHold(d) ==
  /\ \A f \in Files : FilePresent(d, f) => Present(d, d.files[f].inode)
  /\ \A i, j \in Inodes :
        i # j /\ Present(d, i) /\ Present(d, j) =>
            /\ d.inodes[i].path # d.inodes[j].path
            /\ <<d.inodes[i].parent, d.inodes[i].name>> # <<d.inodes[j].parent, d.inodes[j].name>>

Commit(c) ==
    LET t == tx[c]
        d == Written(t)
    IN
    /\ t # NoTx /\ RowsAsNeeded(t)
    /\ store = "postgres" => constraintsHold(d)
    /\ db' = d
    /\ tx' = [tx EXCEPT ![c] = NoTx]
    /\ stale' = (stale \/ (store = "postgres" /\ t.seen # db))
    /\ UNCHANGED <<store, drawn, ops>>

\* The write was refused, or the client's context ended first.
Rollback(c) ==
    /\ store = "postgres" /\ tx[c] # NoTx
    /\ tx' = [tx EXCEPT ![c] = NoTx]
    /\ UNCHANGED <<store, db, drawn, ops, stale>>

Next ==
    \E c \in Clients :
        \/ CreateDirectory(c) \/ CreateFile(c) \/ RenameInode(c) \/ MoveInode(c)
        \/ DeleteFile(c) \/ DeleteDirectory(c) \/ Commit(c) \/ Rollback(c)

Spec == Init /\ [][Next]_vars

-----------------------------------------------------------------------------
(* Properties. *)

Components == UNION {Range(n) : n \in Names} \cup {None}

InodeRow == [type : {"directory", "file"}, parent : Inodes \cup {None}, name : Names \cup {None},
             path : Seq(Components), file : Files \cup {None}]
FileRow == [type : {"file"}, inode : Inodes, parent : Inodes, name : Names, path : Seq(Components)]

Database(d) ==
    /\ DOMAIN d = {"inodes", "files"}
    /\ DOMAIN d.inodes = Inodes
    /\ \A i \in Inodes : Present(d, i) => d.inodes[i] \in InodeRow
    /\ DOMAIN d.files = Files
    /\ \A f \in Files : FilePresent(d, f) => d.files[f] \in FileRow

\* Rows and snapshots have the shape of the tables.
TypeOK ==
    /\ store \in Stores
    /\ Database(db)
    /\ \A c \in Clients : tx[c] # NoTx => Database(tx[c].seen)
    /\ drawn \subseteq Inodes \cup Files
    /\ ops \in 0..MaxOps /\ stale \in BOOLEAN

\* docs/architecture/mds-invariants.md, parents: the root keeps its place, and
\* every other inode hangs
\* below the root through directories that exist, whatever creations, moves and
\* recursive deletes overlapped.  In PostgreSQL only as long as no transaction
\* wrote over rows that had changed since it read them.
TreeIsRooted ==
    ~stale =>
        /\ IsDirectory(db, Root) /\ db.inodes[Root].parent = None /\ db.inodes[Root].path = <<>>
        /\ \A i \in Inodes \ {Root} : Present(db, i) =>
              /\ IsDirectory(db, db.inodes[i].parent)
              /\ Root \in Chain(db, i)

\* A path through a directory whose name LIKE takes for something else.
Misread(path) == store = "postgres" /\ Range(Front(path)) \cap Escaped # {}

\* mds-invariants.md, paths, files and inodes: when names have no separator, the
\* path stored in a row is the path of its parent and its name, after any renames
\* and moves of the directories above it, and the path of a file row is that of
\* its inode row, though the file rows below a directory are found by path and
\* not by id.  The exception is of PostgreSQL: rows whose own path leads through a
\* name with a backslash, which a rename or a move of that directory leaves behind.
PathsFollowTree ==
    (\A n \in Names : Len(n) = 1) /\ ~stale =>
        /\ \A i \in Inodes \ {Root} : Present(db, i) =>
              LET row == db.inodes[i] IN
              row.path = joinPath(db.inodes[row.parent].path, row.name) \/ Misread(row.path)
        /\ \A f \in Files : FilePresent(db, f) =>
              LET row == db.files[f] IN
              row.path = db.inodes[row.inode].path \/ Misread(row.path)

\* Even when transactions overlap, in either store: no two children of a
\* directory share a name, and file rows and inodes of type file come in pairs
\* that name each other and have the same parent and name, after any renames and
\* moves of the file that were read before and written after one another.
RowsPair ==
    /\ \A i, j \in Inodes : i # j /\ Present(db, i) /\ Present(db, j) =>
            <<db.inodes[i].parent, db.inodes[i].name>> # <<db.inodes[j].parent, db.inodes[j].name>>
    /\ \A f \in Files : FilePresent(db, f) =>
            LET row == db.inodes[db.files[f].inode] IN
            /\ Present(db, db.files[f].inode) /\ row.file = f
            /\ row.parent = db.files[f].parent /\ row.name = db.files[f].name
    /\ \A i \in Inodes : Present(db, i) /\ db.inodes[i].type = "file" =>
            db.inodes[i].file \in fileOfInode(db, i)

\* mds-invariants.md:47: a directory is never moved below itself.
NoDirectoryBelowItself == \A i \in Inodes : Present(db, i) => ~isDescendant(db, i, i)

=============================================================================
