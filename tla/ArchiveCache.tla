---------------------------- MODULE ArchiveCache ----------------------------
(***************************************************************************)
(* The archive cache (cache_archive in src/src/discover.rs) and the        *)
(* derived cache of parsed observations (src/src/derived_cache.rs), as     *)
(* process_one_update_file in src/src/orchestrate.rs uses them, for one    *)
(* archive of one collector and one target set.                            *)
(*                                                                         *)
(* The cache directory is shared by every process that runs an analysis;   *)
(* temporary names are the same for all of them and there is no lock.      *)
(* Files are modelled as the file system keeps them: a name refers to a    *)
(* file, opening a name for writing truncates that file in place, writing  *)
(* goes to the file and renaming moves the name.  A process may die        *)
(* between any two steps and a download or a file operation may fail.      *)
(*                                                                         *)
(* A body is identified with its SHA-256.                                  *)
(***************************************************************************)
EXTENDS Naturals, FiniteSets

CONSTANTS Procs,      \* processes
          Bodies,     \* what the source may serve for the archive's URL
          MaxRuns,    \* bound on analyses
          MaxCrashes, \* bound on process deaths
          Empty,      \* content: truncated, nothing or only a part written
          Torn,       \* content: two writers' bytes
          Short,      \* observations of a file that was not complete
          NoFile

ASSUME BoundsAssumption == MaxRuns \in Nat /\ MaxCrashes \in Nat
ASSUME ContentAssumption == Empty \notin Bodies /\ Torn \notin Bodies /\ Short \notin Bodies

\* Names: the archive, its checksum sidecar and their .part twins; the derived
\* entry of each archive checksum and its .part twin.
update_cache_key(sha) == <<"derived", sha>>
update_cache_tmp(sha) == <<"derived.part", sha>>
Part == <<"part", NoFile>>
PartSidecar == <<"part.sha256", NoFile>>
Final == <<"final", NoFile>>
Sidecar == <<"final.sha256", NoFile>>
Names == {Part, PartSidecar, Final, Sidecar}
           \cup {update_cache_key(b) : b \in Bodies}
           \cup {update_cache_tmp(b) : b \in Bodies}

\* Files are numbered; more than the names and open handles need.
Files == 1 .. (Cardinality(Names) + Cardinality(Procs))

\* A derived entry records the archive it was computed from.
Entries == [source : Bodies, obs : Bodies \cup {Short}]
Contents == Bodies \cup {Empty, Torn} \cup Entries

\* None of the special values is a file, an entry or observations.
ASSUME NullsAssumption ==
  /\ NoFile \notin Files /\ NoFile \notin Bodies /\ NoFile # Short
  /\ Empty \notin Entries /\ Torn \notin Entries /\ NoFile \notin Entries

VARIABLES
  name,     \* [Names -> Files \cup {NoFile}]
  data,     \* [Files -> Contents]
  pc,       \* the process's next step
  handle,   \* the file it has open for writing
  body,     \* checksum computed from the cached file, or of the download
  obs,      \* the observations it has
  mode,     \* the CacheControl flags it was given
  \* History:
  met,      \* processes whose run was not alone all the time
  apart,    \* no two runs have overlapped so far
  runs, crashes

fileVars == <<name, data>>
procVars == <<pc, handle, body, obs, mode>>
vars == <<fileVars, procVars, met, apart, runs, crashes>>

Steps == {"idle", "hash", "compare", "download", "open_part", "write_part",
          "open_sidecar", "write_sidecar", "rename_part", "rename_sidecar",
          "load", "read", "open_entry", "write_entry", "rename_entry", "use"}
CacheControl == {"rebuild_derived_cache", "no_derived_cache", "offline"}

Init ==
  /\ name = [n \in Names |-> NoFile]
  /\ data = [f \in Files |-> Empty]
  /\ pc = [p \in Procs |-> "idle"]
  /\ handle = [p \in Procs |-> NoFile]
  /\ body = [p \in Procs |-> NoFile]
  /\ obs = [p \in Procs |-> NoFile]
  /\ mode = [p \in Procs |-> {}]
  /\ met = {}
  /\ apart = TRUE
  /\ runs = 0
  /\ crashes = 0

-----------------------------------------------------------------------------
(* The file system                                                         *)

Exists(n) == name[n] # NoFile
Content(n) == IF Exists(n) THEN data[name[n]] ELSE NoFile

Unused == {f \in Files : /\ \A n \in Names : name[n] # f
                         /\ \A p \in Procs : handle[p] # f}

\* open for writing: the file the name refers to is truncated, or a new file
\* gets the name.
OpenFile(p, n) ==
  \E f \in Files :
    /\ IF Exists(n) THEN f = name[n]
                    ELSE f \in Unused /\ \A g \in Unused : f <= g
    /\ name' = [name EXCEPT ![n] = f]
    /\ data' = [data EXCEPT ![f] = Empty]
    /\ handle' = [handle EXCEPT ![p] = f]

\* write_all to the open file, wherever it has been renamed to.  Over the bytes
\* of another writer the result is this content or a mixture.
WriteFile(p, c) ==
  LET f == handle[p] IN
  /\ \E r \in (IF data[f] \in {Empty, c} THEN {c} ELSE {c, Torn}) :
       data' = [data EXCEPT ![f] = r]
  /\ handle' = [handle EXCEPT ![p] = NoFile]
  /\ UNCHANGED name

RenameFile(from, to) ==
  /\ Exists(from)
  /\ name' = [name EXCEPT ![to] = name[from], ![from] = NoFile]
  /\ UNCHANGED data

-----------------------------------------------------------------------------
(* Steps of a process                                                      *)

Goto(p, l) == pc' = [pc EXCEPT ![p] = l]
Keep == UNCHANGED <<body, obs, mode, met, apart, runs, crashes>>

\* The process is done with the archive, or has given up on it, or died.
Leave(p) ==
  /\ Goto(p, "idle")
  /\ handle' = [handle EXCEPT ![p] = NoFile]
  /\ body' = [body EXCEPT ![p] = NoFile]
  /\ obs' = [obs EXCEPT ![p] = NoFile]
  /\ mode' = [mode EXCEPT ![p] = {}]
  /\ met' = met \ {p}
  /\ UNCHANGED <<fileVars, apart>>

Active == {p \in Procs : pc[p] # "idle"}

Start(p, flags) ==
  /\ pc[p] = "idle"
  /\ runs < MaxRuns
  /\ Goto(p, "hash")
  /\ mode' = [mode EXCEPT ![p] = flags]
  /\ met' = IF Active = {} THEN met ELSE Active \cup {p}
  /\ apart' = (apart /\ Active = {})
  /\ runs' = runs + 1
  /\ UNCHANGED <<fileVars, handle, body, obs, crashes>>

\* compute_sha256 of the cached file, if there is one.
HashFinal(p) ==
  /\ pc[p] = "hash"
  /\ \/ /\ Exists(Final)
        /\ body' = [body EXCEPT ![p] = Content(Final)]
        /\ Goto(p, "compare")
     \/ ~Exists(Final) /\ Goto(p, "download") /\ UNCHANGED body
  /\ UNCHANGED <<fileVars, handle, obs, mode, met, apart, runs, crashes>>

\* Mutant: the sidecar's checksum is believed.
CompareSidecar_trusted(p) ==
  /\ pc[p] = "compare"
  /\ IF Content(Sidecar) \in Bodies
     THEN Goto(p, "load") /\ body' = [body EXCEPT ![p] = Content(Sidecar)]
     ELSE Goto(p, "download") /\ UNCHANGED body
  /\ UNCHANGED <<fileVars, handle, obs, mode, met, apart, runs, crashes>>

\* A hit when the sidecar holds the checksum just computed.
CompareSidecar(p) ==
  /\ pc[p] = "compare"
  /\ IF body[p] \in Bodies /\ Content(Sidecar) = body[p]
     THEN Goto(p, "load")
     ELSE Goto(p, "download")
  /\ UNCHANGED <<fileVars, handle>> /\ Keep

\* A miss is an error offline; otherwise the source answers with some body, or
\* not at all.  A size other than the reported one is only a warning.
Download(p) ==
  /\ pc[p] = "download"
  /\ \/ /\ "offline" \notin mode[p]
        /\ \E b \in Bodies : body' = [body EXCEPT ![p] = b]
        /\ Goto(p, "open_part")
        /\ UNCHANGED <<fileVars, handle, obs, mode, met, apart>>
     \/ Leave(p)
  /\ UNCHANGED <<runs, crashes>>

OpenPart(p) ==
  /\ pc[p] = "open_part" /\ OpenFile(p, Part) /\ Goto(p, "write_part") /\ Keep

WritePart(p) ==
  /\ pc[p] = "write_part" /\ WriteFile(p, body[p]) /\ Goto(p, "open_sidecar") /\ Keep

OpenPartSidecar(p) ==
  /\ pc[p] = "open_sidecar" /\ OpenFile(p, PartSidecar)
  /\ Goto(p, "write_sidecar") /\ Keep

WritePartSidecar(p) ==
  /\ pc[p] = "write_sidecar" /\ WriteFile(p, body[p])
  /\ Goto(p, "rename_part") /\ Keep

RenamePart(p) ==
  /\ pc[p] = "rename_part" /\ RenameFile(Part, Final)
  /\ Goto(p, "rename_sidecar") /\ Keep /\ UNCHANGED handle

RenamePartSidecar(p) ==
  /\ pc[p] = "rename_sidecar" /\ RenameFile(PartSidecar, Sidecar)
  /\ Goto(p, "load") /\ Keep /\ UNCHANGED handle

\* A file operation of cache_archive fails: renaming a name that is gone, a
\* full disk.  The error is returned.
CacheError(p) ==
  /\ pc[p] \in {"open_part", "write_part", "open_sidecar", "write_sidecar",
                "rename_part", "rename_sidecar"}
  /\ Leave(p)
  /\ UNCHANGED <<runs, crashes>>

\* load_update_cache: an entry that decodes and whose count and checksum match
\* is a hit.  One that does not decode is a miss, one that fails the checks is a
\* miss and removed.  The entry's source is part of its key.
LoadEntry(p) ==
  LET key == update_cache_key(body[p])
      looks == mode[p] \cap {"rebuild_derived_cache", "no_derived_cache"} = {}
  IN
  /\ pc[p] = "load"
  /\ \/ /\ looks /\ Content(key) \in Entries
        /\ obs' = [obs EXCEPT ![p] = Content(key).obs]
        /\ Goto(p, "use")
        /\ UNCHANGED name
     \/ /\ ~(looks /\ Content(key) \in Entries)
        /\ \E f \in {name[key]} \cup (IF looks /\ Content(key) = Torn THEN {NoFile} ELSE {}) :
             name' = [name EXCEPT ![key] = f]
        /\ Goto(p, "read")
        /\ UNCHANGED obs
  /\ UNCHANGED <<data, handle, body, mode, met, apart, runs, crashes>>

\* Mutant: what an archive that cannot be opened gives is saved as well.
ReadArchive_saves_nothing_read(p) ==
  /\ pc[p] = "read"
  /\ \E o \in {Short, IF Content(Final) \in Bodies THEN Content(Final) ELSE Short} :
       obs' = [obs EXCEPT ![p] = o]
  /\ Goto(p, IF "no_derived_cache" \in mode[p] THEN "use" ELSE "open_entry")
  /\ UNCHANGED <<fileVars, handle, body, mode, met, apart, runs, crashes>>

\* The archive is opened by name and parsed; what is not a whole body gives
\* fewer observations.  A file that cannot be opened gives none and no entry.
ReadArchive(p) ==
  /\ pc[p] = "read"
  /\ \/ /\ Exists(Final)
        /\ obs' = [obs EXCEPT ![p] = IF Content(Final) \in Bodies
                                     THEN Content(Final) ELSE Short]
        /\ Goto(p, IF "no_derived_cache" \in mode[p] THEN "use" ELSE "open_entry")
     \/ /\ obs' = [obs EXCEPT ![p] = Short]
        /\ Goto(p, "use")
  /\ UNCHANGED <<fileVars, handle, body, mode, met, apart, runs, crashes>>

\* save_update_cache.
OpenEntry(p) ==
  /\ pc[p] = "open_entry" /\ OpenFile(p, update_cache_tmp(body[p]))
  /\ Goto(p, "write_entry") /\ Keep

WriteEntry(p) ==
  /\ pc[p] = "write_entry"
  /\ WriteFile(p, [source |-> body[p], obs |-> obs[p]])
  /\ Goto(p, "rename_entry") /\ Keep

RenameEntry(p) ==
  /\ pc[p] = "rename_entry"
  /\ RenameFile(update_cache_tmp(body[p]), update_cache_key(body[p]))
  /\ Goto(p, "use") /\ Keep /\ UNCHANGED handle

\* A failed save is a warning.
SaveFails(p) ==
  /\ pc[p] \in {"open_entry", "write_entry", "rename_entry"}
  /\ Goto(p, "use")
  /\ handle' = [handle EXCEPT ![p] = NoFile]
  /\ Keep /\ UNCHANGED fileVars

Finish(p) ==
  /\ pc[p] = "use"
  /\ Leave(p)
  /\ UNCHANGED <<runs, crashes>>

Crash(p) ==
  /\ pc[p] # "idle"
  /\ crashes < MaxCrashes
  /\ crashes' = crashes + 1
  /\ Leave(p)
  /\ UNCHANGED runs

Step(p) ==
  \/ HashFinal(p) \/ CompareSidecar(p) \/ Download(p)
  \/ OpenPart(p) \/ WritePart(p) \/ OpenPartSidecar(p) \/ WritePartSidecar(p)
  \/ RenamePart(p) \/ RenamePartSidecar(p) \/ CacheError(p)
  \/ LoadEntry(p) \/ ReadArchive(p)
  \/ OpenEntry(p) \/ WriteEntry(p) \/ RenameEntry(p) \/ SaveFails(p)
  \/ Finish(p)

Next ==
  \E p \in Procs :
    \/ \E flags \in SUBSET CacheControl : Start(p, flags)
    \/ Step(p)
    \/ Crash(p)

Spec == Init /\ [][Next]_vars

-----------------------------------------------------------------------------
(* Properties                                                              *)

\* Every variable keeps its type; a name never refers to a file that another
\* name refers to.
TypeOK ==
  /\ name \in [Names -> Files \cup {NoFile}]
  /\ data \in [Files -> Contents]
  /\ pc \in [Procs -> Steps]
  /\ handle \in [Procs -> Files \cup {NoFile}]
  /\ body \in [Procs -> Bodies \cup {Empty, Torn, NoFile}]
  /\ obs \in [Procs -> Bodies \cup {Short, NoFile}]
  /\ mode \in [Procs -> SUBSET CacheControl]
  /\ met \in SUBSET Procs
  /\ apart \in BOOLEAN
  /\ runs \in 0 .. MaxRuns
  /\ crashes \in 0 .. MaxCrashes
  /\ \A m, n \in Names : Exists(m) /\ name[m] = name[n] => m = n

\* The cache heals: whatever overlapping runs, failures and deaths have left in
\* the directory (a truncated archive, a sidecar of another body, files of a
\* run that died between the two renames), a run that is alone has the content
\* whose checksum it was given.
SoloRunsAreExact ==
  \A p \in Procs \ met :
    pc[p] \in {"load", "read"} => Content(Final) = body[p]

\* "reproducible from source archives": a derived entry that would be accepted
\* holds the observations of the archive it is filed under, so a later run that
\* hits the cache computes what a run without cache would.
EntriesMatchSource ==
  \A b \in Bodies :
    LET e == Content(update_cache_key(b)) IN
    e \in Entries => e.source = b /\ e.obs = b

\* The same for processes that never run at the same time, wherever they fail
\* or die and whatever the source serves next: an overlap is needed to put the
\* observations of something else under an archive's checksum.
ApartEntriesMatchSource == apart => EntriesMatchSource

\* The names of archives and sidecars, and those of entries.
Plain == {Part, PartSidecar, Final, Sidecar}
Derived == Names \ Plain

\* Archives and entries never share a file, whoever has it open; only a process
\* that is about to write has one open; a checksum is that of a body from the
\* download or the hit on.
FilesApart ==
  /\ \A n \in Plain : Exists(n) => Content(n) \in Bodies \cup {Empty, Torn}
  /\ \A n \in Derived : Exists(n) => Content(n) \in Entries \cup {Empty, Torn}
  /\ \A p \in Procs :
       /\ pc[p] \in {"write_part", "write_sidecar"} =>
            handle[p] \in Files /\ \A n \in Derived : name[n] # handle[p]
       /\ pc[p] = "write_entry" =>
            handle[p] \in Files /\ \A n \in Plain : name[n] # handle[p]
       /\ pc[p] \notin {"write_part", "write_sidecar", "write_entry"} => handle[p] = NoFile
       /\ pc[p] \notin {"idle", "hash", "compare", "download"} => body[p] \in Bodies
       /\ pc[p] \in {"open_entry", "write_entry", "rename_entry"} => obs[p] # NoFile

\* Two runs that overlap have met.
RunsMeet ==
  /\ met \subseteq Active
  /\ \A p, q \in Active : p # q => p \in met

\* What a process that has met no other knows of the files.
Alone(p) ==
  /\ pc[p] \in {"compare", "rename_sidecar", "load", "read"} => Content(Final) = body[p]
  /\ pc[p] = "write_part" => name[Part] = handle[p] /\ data[handle[p]] = Empty
  /\ pc[p] \in {"open_sidecar", "write_sidecar", "rename_part"} => Content(Part) = body[p]
  /\ pc[p] = "write_sidecar" => name[Part] # handle[p]
  /\ pc[p] \in {"open_entry", "write_entry", "rename_entry"} => obs[p] = body[p]
  /\ pc[p] = "write_entry" =>
       name[update_cache_tmp(body[p])] = handle[p] /\ data[handle[p]] = Empty

\* Without overlaps entries, finished or left behind, match their source.
ApartAreClean ==
  apart =>
    /\ met = {}
    /\ \A b \in Bodies : \A n \in {update_cache_key(b), update_cache_tmp(b)} :
         Content(n) \in Entries => Content(n) = [source |-> b, obs |-> b]

\* The types, the cache heals for a run that is alone, and what makes it so
\* (cache_archive, load_update_cache, save_update_cache).
Inv ==
  /\ TypeOK /\ SoloRunsAreExact
  /\ FilesApart /\ RunsMeet /\ ApartAreClean
  /\ \A p \in Active \ met : Alone(p)

=============================================================================
