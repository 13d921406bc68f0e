------------------------------ MODULE TagsIndex ------------------------------
(***************************************************************************)
(* coq/clients/tags and coq/tags/parse.py: the index of ctags.             *)
(*                                                                         *)
(* A poll lists the files that are open or indexed, takes their mtimes,     *)
(* runs ctags on those that are newer than their rows and writes what has   *)
(* come of it, a statement at a time: the connection is in autocommit       *)
(* mode.  A keystroke aborts the statement that runs, and cancels the poll  *)
(* where it awaits.  There is a database for each working directory.        *)
(*                                                                         *)
(* The content of a file is its version, which is its mtime as well; a       *)
(* version has the tags TagNames, or none.                                  *)
(***************************************************************************)
EXTENDS Integers, FiniteSets

CONSTANTS
  TagFiles,     \* files
  TagNames,     \* the tags of a file that has any
  MaxVersion    \* bound: versions of a file

ASSUME TagsAssumption == IsFiniteSet(TagFiles) /\ IsFiniteSet(TagNames) /\ MaxVersion \in Nat \ {0}

VARIABLES
  tagDisk,      \* the version of each file, and if it is there and has tags
  tagOpen,      \* listed buffers
  tagDb,        \* the database of each directory: rows, by their mtime, and tags
  tagCwd,       \* the directory
  tagPoll,      \* CTags' poll
  tagTorn       \* history: rows whose tags have been lost to an interrupt

tagsVars == <<tagDisk, tagOpen, tagDb, tagCwd, tagPoll, tagTorn>>

TagDirs == {1, 2}
TagVersions == 0 .. MaxVersion
TagTuples == [file : TagFiles, name : TagNames, of : TagVersions]

TagsAt == {"idle", "ls", "stat", "ctags", "delete", "insert", "tags"}

NoTagsPoll == [at |-> "idle", left |-> {}, existing |-> <<>>, mtimes |-> <<>>, found |-> {}]

TagsTypeOK ==
  /\ tagDisk \in [TagFiles -> [v : TagVersions, there : BOOLEAN, some : BOOLEAN]]
  /\ tagOpen \subseteq TagFiles
  /\ \A d \in TagDirs :
       /\ DOMAIN tagDb[d].rows \subseteq TagFiles
       /\ tagDb[d].tags \subseteq TagTuples
       /\ \A t \in tagDb[d].tags : t.file \in DOMAIN tagDb[d].rows
       /\ \A t, u \in tagDb[d].tags : t.file = u.file /\ t.name = u.name => t = u
  /\ tagCwd \in TagDirs /\ tagPoll.at \in TagsAt

TagsInit ==
  /\ tagDisk = [f \in TagFiles |-> [v |-> 1, there |-> TRUE, some |-> TRUE]]
  /\ tagOpen = TagFiles
  /\ tagDb = [d \in TagDirs |-> [rows |-> <<>>, tags |-> {}]]
  /\ tagCwd = 1
  /\ tagPoll = [NoTagsPoll EXCEPT !.at = "ls"]
  /\ tagTorn = {}

-----------------------------------------------------------------------------
(* Files, buffers and the directory.                                          *)

TagsSave(f) ==
  /\ tagDisk[f].v < MaxVersion
  /\ \E some \in BOOLEAN : tagDisk' = [tagDisk EXCEPT ![f] = [v |-> @.v + 1, there |-> TRUE, some |-> some]]
  /\ UNCHANGED <<tagOpen, tagDb, tagCwd, tagPoll, tagTorn>>

TagsClose(f) ==
  /\ f \in tagOpen
  /\ tagOpen' = tagOpen \ {f}
  /\ UNCHANGED <<tagDisk, tagDb, tagCwd, tagPoll, tagTorn>>

TagsRemove(f) ==
  /\ tagDisk[f].there /\ f \notin tagOpen
  /\ tagDisk' = [tagDisk EXCEPT ![f].there = FALSE]
  /\ UNCHANGED <<tagOpen, tagDb, tagCwd, tagPoll, tagTorn>>

TagsWriting == tagPoll.at \in {"delete", "insert", "tags"}

\* the statements of one poll run without an await: swap comes before or after them
TagsSwap ==
  /\ ~TagsWriting
  /\ tagCwd' = 3 - tagCwd
  /\ UNCHANGED <<tagDisk, tagOpen, tagDb, tagPoll, tagTorn>>

-----------------------------------------------------------------------------
(* The poll.                                                                  *)

tagsOutside == <<tagDisk, tagOpen, tagCwd>>

TagsIdle ==
  /\ tagPoll.at = "idle"
  /\ tagPoll' = [NoTagsPoll EXCEPT !.at = "ls"]
  /\ UNCHANGED <<tagsOutside, tagDb, tagTorn>>

\* _ls, and the rows that there are: none when that is interrupted
TagsLs ==
  /\ tagPoll.at = "ls"
  /\ \E existing \in {tagDb[tagCwd].rows, <<>>} :
       tagPoll' = [tagPoll EXCEPT !.at = "stat", !.existing = existing,
                                  !.left = tagOpen \union DOMAIN existing]
  /\ UNCHANGED <<tagsOutside, tagDb, tagTorn>>

\* _mtimes, a file at a time
TagsStat(f) ==
  /\ tagPoll.at = "stat" /\ f \in tagPoll.left
  /\ tagPoll' = [tagPoll EXCEPT !.left = @ \ {f},
       !.mtimes = IF ~tagDisk[f].there THEN @
                  ELSE [g \in DOMAIN @ \union {f} |-> IF g = f THEN tagDisk[f].v ELSE @[g]]]
  /\ UNCHANGED <<tagsOutside, tagDb, tagTorn>>

MtimeIn(rows, f) == IF f \in DOMAIN rows THEN rows[f] ELSE 0

TagsQuery ==
  /\ tagPoll.at = "stat" /\ tagPoll.left = {}
  /\ LET m == tagPoll.mtimes IN
       tagPoll' = [tagPoll EXCEPT !.at = "ctags",
                     !.left = {f \in DOMAIN m : m[f] > MtimeIn(tagPoll.existing, f)}]
  /\ UNCHANGED <<tagsOutside, tagDb, tagTorn>>

\* ctags reads a file as it is by then
TagsCtags(f) ==
  /\ tagPoll.at = "ctags" /\ f \in tagPoll.left
  /\ tagPoll' = [tagPoll EXCEPT !.left = @ \ {f},
       !.found = IF tagDisk[f].there /\ tagDisk[f].some
                 THEN @ \union [file : {f}, name : TagNames, of : {tagDisk[f].v}]
                 ELSE @]
  /\ UNCHANGED <<tagsOutside, tagDb, tagTorn>>

\* parse: new has the files that have tags
TagsNew == {t.file : t \in tagPoll.found}
TagsDead == DOMAIN tagPoll.existing \ DOMAIN tagPoll.mtimes

TagsParse ==
  /\ tagPoll.at = "ctags" /\ tagPoll.left = {}
  /\ tagPoll' = [tagPoll EXCEPT !.at = "delete"]
  /\ UNCHANGED <<tagsOutside, tagDb, tagTorn>>

\* Mutant: the tags stay when their row goes
TagsDeleteRows(db, fs) == [db EXCEPT !.rows = [g \in DOMAIN @ \ fs |-> @[g]]]

\* reconciliate: what each executemany makes of a database, for some of its rows; the tags of
\* a file go with its row
TagsDelete(db, fs) ==
  [rows |-> [g \in DOMAIN db.rows \ fs |-> db.rows[g]], tags |-> {t \in db.tags : t.file \notin fs}]

\* Mutant: the mtime is that of the time of writing
TagsInsertLate(db, fs) ==
  [db EXCEPT !.rows = [g \in DOMAIN @ \union fs |-> IF g \in fs THEN tagDisk[g].v ELSE @[g]]]

TagsInsert(db, fs) ==
  [db EXCEPT !.rows = [g \in DOMAIN @ \union fs |-> IF g \in fs THEN tagPoll.mtimes[g] ELSE @[g]]]

TagsReplace(db, ts) ==
  [db EXCEPT !.tags = {u \in @ : \A t \in ts : u.file # t.file \/ u.name # t.name} \union ts]

TagsTodo == CASE tagPoll.at = "delete" -> TagsDead \union TagsNew
              [] tagPoll.at = "insert" -> TagsNew
              [] tagPoll.at = "tags"   -> tagPoll.found

TagsDone(db, some) == CASE tagPoll.at = "delete" -> TagsDelete(db, some)
                        [] tagPoll.at = "insert" -> TagsInsert(db, some)
                        [] tagPoll.at = "tags"   -> TagsReplace(db, some)

TagsStatement ==
  /\ TagsWriting
  /\ tagDb' = [tagDb EXCEPT ![tagCwd] = TagsDone(@, TagsTodo)]
  /\ tagTorn' = IF tagPoll.at = "delete" THEN tagTorn \ ({tagCwd} \X TagsTodo) ELSE tagTorn
  /\ tagPoll' = CASE tagPoll.at = "delete" -> [tagPoll EXCEPT !.at = "insert"]
                  [] tagPoll.at = "insert" -> [tagPoll EXCEPT !.at = "tags"]
                  [] tagPoll.at = "tags"   -> NoTagsPoll
  /\ UNCHANGED tagsOutside

\* a keystroke: the poll is cancelled where it awaits
TagsCancel ==
  /\ tagPoll.at \in {"ls", "stat", "ctags"}
  /\ tagPoll' = NoTagsPoll
  /\ UNCHANGED <<tagsOutside, tagDb, tagTorn>>

\* or its statement is aborted after some rows, and the rest of the statements with it
TagsAbort ==
  /\ TagsWriting
  /\ \E some \in SUBSET TagsTodo :
       /\ tagDb' = [tagDb EXCEPT ![tagCwd] = TagsDone(@, some)]
       /\ tagTorn' =
            IF tagPoll.at = "delete" THEN tagTorn \ ({tagCwd} \X some)
            ELSE tagTorn \union ({tagCwd} \X IF tagPoll.at = "insert" THEN some ELSE TagsNew)
  /\ tagPoll' = NoTagsPoll
  /\ UNCHANGED tagsOutside

TagsFile(f) == \/ TagsSave(f) \/ TagsClose(f) \/ TagsRemove(f)
               \/ TagsStat(f) \/ TagsCtags(f)

TagsNext ==
  \/ \E f \in TagFiles : TagsFile(f)
  \/ TagsSwap \/ TagsIdle \/ TagsLs \/ TagsQuery \/ TagsParse \/ TagsStatement
  \/ TagsCancel \/ TagsAbort

TagsSpec == TagsInit /\ [][TagsNext]_tagsVars

-----------------------------------------------------------------------------

\* what select has to offer of a file
TagsOf(d, f) == {t \in tagDb[d].tags : t.file = f}

Writing(d, f) == d = tagCwd /\ tagPoll.at \in {"insert", "tags"} /\ f \in TagsNew

\* A row has all the tags of its file, of a version that is not older than its mtime: however
\* saves, other directories and keystrokes cut in, a file that is not indexed as it is will be
\* seen to be newer.  The exception is a write that is aborted between the row and its tags
\* (worker.py:166, :172, database.py:78-83).
TagsAreOfTheRow ==
  \A d \in TagDirs : \A f \in DOMAIN tagDb[d].rows :
    \/ Writing(d, f) \/ <<d, f>> \in tagTorn
    \/ /\ {t.name : t \in TagsOf(d, f)} = TagNames
       /\ \A t \in TagsOf(d, f) : t.of >= tagDb[d].rows[f]

=============================================================================
