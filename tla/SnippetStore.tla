----------------------------- MODULE SnippetStore -----------------------------
(***************************************************************************)
(* server/registrants/snippets.py and coq/clients/snippet: how the snippet  *)
(* files of the user are compiled, and how what is compiled, or bundled,     *)
(* comes into the database.                                                 *)
(*                                                                         *)
(* Both the compiled file, with the mtimes it is of, and the database are    *)
(* shared by all instances of nvim.  A file is replaced as a whole; the      *)
(* database is in autocommit mode.  An instance can die between any two of   *)
(* these writes.                                                            *)
(*                                                                         *)
(* A file of the user is its version, which is its mtime as well.  A source  *)
(* is what is loaded into the database: a set of pairs of a file and its     *)
(* version.  A snippet is known by what it says, and stored once: where two  *)
(* sources have the same one, it is of the source that was loaded first.     *)
(***************************************************************************)
EXTENDS Integers, FiniteSets

CONSTANTS
  SnInstances,   \* instances of nvim
  SnFiles,       \* snippet files of the user
  SnBundled,     \* the snippets of the plugin; a file of the user can have one of them as well
  MaxSnVersion,  \* bound: versions of a file
  MaxSnDumps     \* bound: times that the compiled file is written

ASSUME SnAssumption ==
  IsFiniteSet(SnInstances) /\ IsFiniteSet(SnFiles) /\ IsFiniteSet(SnBundled) /\ MaxSnVersion \in Nat \ {0} /\ MaxSnDumps \in Nat \ {0}

VARIABLES
  snUser,    \* the user's files: their versions
  snMeta,    \* meta.json: the mtimes that have been compiled
  snDisk,    \* the compiled file and the bundled one: mtime, 0 if there is none, and snippets
  snRows,    \* the sources of the database: mtime, and whose row it is
  snStored,  \* the snippets of the database
  snJob,     \* what each instance does
  snTorn,    \* history: sources that an instance has died in the middle of
  snOlder    \* history: an instance has written an older compilation over a newer one

snVars == <<snUser, snMeta, snDisk, snRows, snStored, snJob, snTorn, snOlder>>

Sources == {"user", "bundled"}
SnVersions == 0 .. MaxSnVersion
SnAt == {"idle", "see", "slurp", "read", "load", "row", "snips", "stat", "parse", "compiled", "meta"}

NoJob == [at |-> "idle", first |-> FALSE, seen |-> {}, disk |-> <<>>, rows |-> <<>>,
          todo |-> {}, loaded |-> <<>>, left |-> {}, mtimes |-> <<>>]

SnTypeOK ==
  /\ snUser \in [SnFiles -> SnVersions]
  /\ snMeta \in [SnFiles -> SnVersions]
  /\ \A s \in Sources : snDisk[s].mtime \in 0 .. MaxSnDumps /\ IsFiniteSet(snDisk[s].of)
  /\ DOMAIN snRows \subseteq Sources /\ snTorn \subseteq Sources
  /\ DOMAIN snStored = Sources /\ \A s \in Sources \ DOMAIN snRows : snStored[s] = {}
  /\ \A i \in SnInstances : snJob[i].at \in SnAt

\* the bundled snippets have been loaded before, by an instance that is gone
SnInit ==
  /\ snUser = [f \in SnFiles |-> 1]
  /\ snMeta = [f \in SnFiles |-> 0]
  /\ snDisk = [user |-> [mtime |-> 0, of |-> {}],
               bundled |-> [mtime |-> 1, of |-> SnBundled]]
  /\ snRows = [s \in {"bundled"} |-> [mtime |-> 1, by |-> "before"]]
  /\ snStored = [s \in Sources |-> snDisk[s].of]
  /\ snJob = [i \in SnInstances |-> NoJob]
  /\ snTorn = {} /\ snOlder = FALSE

-----------------------------------------------------------------------------
(* The user.                                                                  *)

SnSave(f) ==
  /\ snUser[f] < MaxSnVersion
  /\ snUser' = [snUser EXCEPT ![f] = @ + 1]
  /\ UNCHANGED <<snMeta, snDisk, snRows, snStored, snJob, snTorn, snOlder>>

\* the snippets of the plugin are taken away
SnUninstall ==
  /\ snDisk["bundled"].mtime > 0
  /\ snDisk' = [snDisk EXCEPT !["bundled"] = [mtime |-> 0, of |-> {}]]
  /\ UNCHANGED <<snUser, snMeta, snRows, snStored, snJob, snTorn, snOlder>>

snFiles == <<snUser, snMeta, snDisk>>
snDb == <<snRows, snStored>>

SetJob(i, job) == snJob' = [snJob EXCEPT ![i] = job]

\* nvim starts
SnLoadSnips(i) ==
  /\ snJob[i].at = "idle"
  /\ SetJob(i, [NoJob EXCEPT !.at = "see", !.first = TRUE])
  /\ UNCHANGED <<snFiles, snDb, snTorn, snOlder>>

\* :COQsnips compile, or the evaluation of a snippet file
SnCompile(i) ==
  /\ snJob[i].at = "idle"
  /\ SetJob(i, [NoJob EXCEPT !.at = "stat"])
  /\ UNCHANGED <<snFiles, snDb, snTorn, snOlder>>

-----------------------------------------------------------------------------
(* slurp_compiled.                                                            *)

Present == {s \in Sources : snDisk[s].mtime > 0}
DiskTimes == [s \in Present |-> snDisk[s].mtime]
RowTimes == [s \in DOMAIN snRows |-> snRows[s].mtime]
NewerThanMeta == {f \in SnFiles : snUser[f] > snMeta[f]}

\* what it gathers, which is taken to be of one moment; it can be out of date when it is used
SnSee(i) ==
  /\ snJob[i].at = "see"
  /\ SetJob(i, [snJob[i] EXCEPT !.at = "slurp", !.disk = DiskTimes, !.rows = RowTimes,
                  !.left = IF snJob[i].first THEN NewerThanMeta ELSE {}])
  /\ UNCHANGED <<snFiles, snDb, snTorn, snOlder>>

Without(s) ==
  /\ snRows' = [r \in DOMAIN snRows \ s |-> snRows[r]]
  /\ snStored' = [r \in Sources |-> IF r \in s THEN {} ELSE snStored[r]]
  /\ snTorn' = snTorn \ s

\* a source that is gone is cleaned; one that is newer than its row is loaded
SnSlurp(i) ==
  /\ snJob[i].at = "slurp"
  /\ Without(DOMAIN snJob[i].rows \ DOMAIN snJob[i].disk)
  /\ LET job == snJob[i]
         new == {s \in DOMAIN job.disk : s \in DOMAIN job.rows => job.disk[s] > job.rows[s]} IN
       SetJob(i, [job EXCEPT !.at = "read", !.rows = <<>>, !.todo = new,
                             !.disk = [s \in new |-> job.disk[s]]])
  /\ UNCHANGED <<snFiles, snOlder>>

\* _load_compiled, of each at once: a file that is gone is left alone
SnLoad(i) ==
  /\ snJob[i].at = "read"
  /\ LET there == snJob[i].todo \intersect Present IN
       SetJob(i, [snJob[i] EXCEPT !.at = "load", !.todo = there, !.loaded = [s \in there |-> snDisk[s].of]])
  /\ UNCHANGED <<snFiles, snDb, snTorn, snOlder>>

\* populate, whose statements those of another instance can come between; seen has the source
SnDelete(i, s) ==
  /\ snJob[i].at = "load" /\ s \in snJob[i].todo
  /\ Without({s})
  /\ SetJob(i, [snJob[i] EXCEPT !.at = "row", !.seen = {s}])
  /\ UNCHANGED <<snFiles, snOlder>>

AddRow(i, s, mtime) ==
  snRows' = [r \in DOMAIN snRows \union {s} |->
               IF r = s THEN [mtime |-> mtime, by |-> i] ELSE snRows[r]]

\* the name of a source is unique: the row of another instance is an error
SnRow(i, s) ==
  /\ snJob[i].at = "row" /\ snJob[i].seen = {s}
  /\ IF s \in DOMAIN snRows
     THEN SetJob(i, NoJob) /\ UNCHANGED snRows
     ELSE AddRow(i, s, snJob[i].disk[s]) /\ SetJob(i, [snJob[i] EXCEPT !.at = "snips"])
  /\ UNCHANGED <<snFiles, snStored, snTorn, snOlder>>

Owns(i, s) == s \in DOMAIN snRows /\ snRows[s].by = i

\* _key: a snippet that another source has is ignored
Fresh(s, snippets) == {p \in snippets : \A r \in Sources \ {s} : p \notin snStored[r]}

\* and so is a snippet whose source another instance has deleted
SnStore(i, s) ==
  /\ snJob[i].at = "snips" /\ snJob[i].seen = {s}
  /\ IF Owns(i, s)
     THEN /\ snStored' = [snStored EXCEPT ![s] = Fresh(s, snJob[i].loaded[s])]
          /\ SetJob(i, [snJob[i] EXCEPT !.at = "load", !.seen = {}, !.todo = @ \ {s},
                          !.loaded = [r \in DOMAIN @ \ {s} |-> @[r]]])
     ELSE SetJob(i, NoJob) /\ UNCHANGED snStored
  /\ UNCHANGED <<snFiles, snRows, snTorn, snOlder>>

\* _load_snips: at the start of nvim, what is newer than meta is compiled
SnSlurped(i) ==
  /\ snJob[i].at = "load" /\ snJob[i].todo = {}
  /\ SetJob(i, IF snJob[i].left # {} THEN [NoJob EXCEPT !.at = "stat"] ELSE NoJob)
  /\ UNCHANGED <<snFiles, snDb, snTorn, snOlder>>

-----------------------------------------------------------------------------
(* compile_user_snippets.                                                     *)

SnStat(i) ==
  /\ snJob[i].at = "stat"
  /\ SetJob(i, [NoJob EXCEPT !.at = "parse", !.mtimes = snUser, !.left = SnFiles])
  /\ UNCHANGED <<snFiles, snDb, snTorn, snOlder>>

\* load_direct, a file at a time
SnParse(i, f) ==
  /\ snJob[i].at = "parse" /\ f \in snJob[i].left
  /\ SetJob(i, [snJob[i] EXCEPT !.left = @ \ {f}, !.todo = @ \union {<<f, snUser[f]>>}])
  /\ UNCHANGED <<snFiles, snDb, snTorn, snOlder>>

\* a file with an error is the end of it
SnInvalid(i) ==
  /\ snJob[i].at = "parse"
  /\ SetJob(i, NoJob)
  /\ UNCHANGED <<snFiles, snDb, snTorn, snOlder>>

VersionIn(of, f) == IF \E p \in of : p[1] = f THEN (CHOOSE p \in of : p[1] = f)[2] ELSE 0

\* _dump_compiled: the snippets
SnDumpSnippets(i) ==
  /\ snJob[i].at = "parse" /\ snJob[i].left = {} /\ snDisk["user"].mtime < MaxSnDumps
  /\ LET of == snJob[i].todo IN
       /\ snDisk' = [snDisk EXCEPT !["user"] = [mtime |-> @.mtime + 1, of |-> of]]
       /\ snOlder' = (snOlder \/ \E f \in SnFiles : VersionIn(of, f) < VersionIn(snDisk["user"].of, f))
  /\ SetJob(i, [snJob[i] EXCEPT !.at = "meta", !.todo = {}])
  /\ UNCHANGED <<snUser, snMeta, snDb, snTorn>>

\* Mutant: the mtimes are those of the files by now
SnDumpMetaLate(i) ==
  /\ snJob[i].at = "meta"
  /\ snMeta' = snUser
  /\ SetJob(i, [NoJob EXCEPT !.at = "see"])
  /\ UNCHANGED <<snUser, snDisk, snDb, snTorn, snOlder>>

\* and then the mtimes that had been read before them
SnDumpMeta(i) ==
  /\ snJob[i].at = "meta"
  /\ snMeta' = snJob[i].mtimes
  /\ SetJob(i, [NoJob EXCEPT !.at = "see"])
  /\ UNCHANGED <<snUser, snDisk, snDb, snTorn, snOlder>>

\* a dump that fails is reported, and what there is is loaded
SnDumpFails(i) ==
  /\ snJob[i].at \in {"meta", "parse"} /\ snJob[i].left = {}
  /\ SetJob(i, [NoJob EXCEPT !.at = "see"])
  /\ UNCHANGED <<snFiles, snDb, snTorn, snOlder>>

-----------------------------------------------------------------------------

\* nvim ends, or dies: the snippets of a row may have been stored in part
SnCrash(i) ==
  /\ snJob[i].at # "idle"
  /\ SetJob(i, NoJob)
  /\ IF snJob[i].at = "snips" /\ \E s \in snJob[i].seen : Owns(i, s)
     THEN LET s == CHOOSE s \in snJob[i].seen : TRUE IN
            /\ \E some \in SUBSET Fresh(s, snJob[i].loaded[s]) : snStored' = [snStored EXCEPT ![s] = some]
            /\ snTorn' = snTorn \union {s}
     ELSE UNCHANGED <<snStored, snTorn>>
  /\ UNCHANGED <<snFiles, snRows, snOlder>>

SnSource(i, s) == SnDelete(i, s) \/ SnRow(i, s) \/ SnStore(i, s)
SnInstance(i) ==
  \/ SnLoadSnips(i) \/ SnCompile(i) \/ SnSee(i) \/ SnSlurp(i) \/ SnLoad(i)
  \/ SnSlurped(i) \/ SnStat(i) \/ SnInvalid(i) \/ SnCrash(i)
  \/ SnDumpSnippets(i) \/ SnDumpMeta(i) \/ SnDumpFails(i)
  \/ \E s \in Sources : SnSource(i, s)
  \/ \E f \in SnFiles : SnParse(i, f)

SnNext ==
  \/ \E i \in SnInstances : SnInstance(i)
  \/ \E f \in SnFiles : SnSave(f)
  \/ SnUninstall

SnSpec == SnInit /\ [][SnNext]_snVars

-----------------------------------------------------------------------------

\* A snippet file that is not newer than meta.json says has been compiled as it is, wherever an
\* instance has died: it would not be compiled again (snippets.py:263-267, :191).  It is not so
\* once an instance has written snippets that are older than those it found.
NotNewerIsCompiled ==
  \A f \in SnFiles :
    snUser[f] <= snMeta[f] /\ ~snOlder => <<f, snUser[f]>> \in snDisk["user"].of

\* what the plugin has as well as the user
Shared == {p \in SnBundled : p[1] \in SnFiles}

\* A source that is not newer than its row is stored as it is, however the instances that load
\* it cross: it would not be loaded again (snippets.py:258-261).  It is not so for a source
\* whose row an instance has written and then died (database.py:58-62), nor of a snippet that two
\* sources have: it goes with the one that was loaded first (load.py:25, snippet.sql:1).
NotNewerIsStored ==
  \A s \in DOMAIN snRows \ snTorn :
    \/ snDisk[s].mtime = 0 \/ snDisk[s].mtime > snRows[s].mtime
    \/ snStored[s] \ Shared = snDisk[s].of \ Shared
    \/ \E i \in SnInstances : snJob[i].at = "snips" /\ snJob[i].seen = {s} /\ Owns(i, s)

\* Both, wherever an instance dies and however instances cross.
NotNewerIsDone == NotNewerIsCompiled /\ NotNewerIsStored

=============================================================================
