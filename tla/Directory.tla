------------------------------ MODULE Directory ------------------------------
(***************************************************************************)
(* The directory table of filesys/directory.cc as operators on values: a   *)
(* table is a sequence of entries, and so is the directory file on disk    *)
(* (one entry per sizeof(DirectoryEntry) bytes).  An entry keeps its      *)
(* isDirectory flag (directory_entry.hh:36) as isDir.                      *)
(***************************************************************************)
EXTENDS Naturals, Sequences
LOCAL Seqs == INSTANCE SequencesExt

CONSTANTS Names, NoSector

Entry(Sectors) == [inUse : BOOLEAN, name : Names, sector : Sectors \cup {NoSector},
                   isDir : BOOLEAN]

\* An entry the constructor (directory.cc:38-47) marked free and not a
\* directory.  Its name and sector bytes are uninitialised; they are never
\* read while inUse is false, so one fixed value stands for them.
FreeEntry == [inUse |-> FALSE, name |-> CHOOSE n \in Names : TRUE,
              sector |-> NoSector, isDir |-> FALSE]

\* Directory::FetchFrom (directory.cc:57-71) into a new Directory(size):
\* OpenFile::Read from offset 0 (open_file.cc:115-118) returns the first
\* min(size, length) entries of the file; the others stay free.
FetchFrom(file, size) ==
    [i \in 1..size |-> IF i <= Len(file) THEN file[i] ELSE FreeEntry]

\* Directory::WriteBack (directory.cc:76-86): OpenFile::Write of the whole
\* table from offset 0 (open_file.cc:168-171).  A longer file keeps the
\* entries past the table.
WriteBack(file, table) ==
    table \o SubSeq(file, Len(table) + 1, Len(file))

\* FindIndex (directory.cc:95-105): the first in-use entry with the name,
\* or 0 (the code's -1).
FindIndex(table, name) ==
    Seqs!SelectInSeq(table, LAMBDA e : e.inUse /\ e.name = name)

\* Find (directory.cc:113-122): the entry's header sector, or NoSector.
Find(table, name) ==
    IF FindIndex(table, name) = 0 THEN NoSector
    ELSE table[FindIndex(table, name)].sector

\* FindDir (directory.cc:124-134): an in-use entry with the name whose
\* isDirectory flag is set.
FindDir(table, name) ==
    \E i \in DOMAIN table : table[i].inUse /\ table[i].name = name /\ table[i].isDir

\* Add (directory.cc:143-185): a name already present leaves the table as
\* it is (false); otherwise the first free entry is taken, and a full
\* table grows by exactly one slot.  The flag is set only when isDirectory
\* is true: a reused slot keeps its own flag, which Remove and the
\* constructor cleared; a grown slot is a fresh `new DirectoryEntry[]`
\* element whose flag is uninitialised, so `junk` is the value the heap
\* happens to hold there.  The caller sees the growth as a longer table
\* and records it with SetDirectorySize.
Add(table, name, sector, isDirectory, junk) ==
    LET free == Seqs!SelectInSeq(table, LAMBDA e : ~e.inUse)
        new(old) == [inUse |-> TRUE, name |-> name, sector |-> sector,
                     isDir |-> isDirectory \/ old]
    IN  IF FindIndex(table, name) # 0 THEN table
        ELSE IF free # 0 THEN [table EXCEPT ![free] = new(@.isDir)]
        ELSE Append(table, new(junk))

\* Remove (directory.cc:193-206): the entry is marked free and not a
\* directory; its name and sector stay in the table.
Remove(table, name) ==
    IF FindIndex(table, name) = 0 THEN table
    ELSE [table EXCEPT ![FindIndex(table, name)].inUse = FALSE,
                        ![FindIndex(table, name)].isDir = FALSE]

=============================================================================
