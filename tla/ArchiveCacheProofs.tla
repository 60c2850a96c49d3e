------------------------- MODULE ArchiveCacheProofs -------------------------
(***************************************************************************)
(* Proofs about ArchiveCache, for any numbers of processes and bodies and  *)
(* any bounds.                                                             *)
(*                                                                         *)
(* The argument has three layers.  Archives and derived entries never      *)
(* share a file (FilesApart), although every process uses the same names.  *)
(* Two runs that overlap have met (RunsMeet), so what a run that has met   *)
(* no other knows of the files (Alone) is disturbed by its own steps only. *)
(* And as long as no two runs have overlapped, whatever an entry holds was *)
(* written by a run that was alone (ApartAreClean).                        *)
(***************************************************************************)
EXTENDS ArchiveCache, TLAPS

\* The names are distinct, and those of entries belong to one checksum.
LEMMA NamesAreDistinct ==
  /\ Part # PartSidecar /\ Part # Final /\ Part # Sidecar
  /\ PartSidecar # Final /\ PartSidecar # Sidecar /\ Final # Sidecar
  /\ Part \in Plain /\ PartSidecar \in Plain /\ Final \in Plain /\ Sidecar \in Plain
  /\ Plain \cap Derived = {} /\ Names = Plain \cup Derived
  /\ \A b \in Bodies : update_cache_key(b) \in Derived /\ update_cache_tmp(b) \in Derived
  /\ \A b, c \in Bodies :
       /\ update_cache_key(b) # update_cache_tmp(c)
       /\ update_cache_key(b) = update_cache_key(c) => b = c
       /\ update_cache_tmp(b) = update_cache_tmp(c) => b = c
<1>1. /\ Part # PartSidecar /\ Part # Final /\ Part # Sidecar
      /\ PartSidecar # Final /\ PartSidecar # Sidecar /\ Final # Sidecar
  BY DEF Part, PartSidecar, Final, Sidecar
<1>2. ASSUME NEW b, NEW c
      PROVE  /\ update_cache_key(b) # update_cache_tmp(c)
             /\ update_cache_key(b) = update_cache_key(c) => b = c
             /\ update_cache_tmp(b) = update_cache_tmp(c) => b = c
             /\ update_cache_key(b) \notin Plain /\ update_cache_tmp(b) \notin Plain
  BY DEF update_cache_key, update_cache_tmp, Plain, Part, PartSidecar, Final, Sidecar
<1>3. \A b \in Bodies : update_cache_key(b) \in Derived /\ update_cache_tmp(b) \in Derived
  BY <1>2 DEF Derived, Names
<1>4. /\ Part \in Plain /\ PartSidecar \in Plain /\ Final \in Plain /\ Sidecar \in Plain
      /\ Plain \cap Derived = {} /\ Names = Plain \cup Derived
  BY DEF Plain, Derived, Names
<1>. QED  BY <1>1, <1>2, <1>3, <1>4

-----------------------------------------------------------------------------
(* The file system                                                         *)

\* The part of TypeOK that is about files.
FilesOK ==
  /\ name \in [Names -> Files \cup {NoFile}]
  /\ data \in [Files -> Contents]
  /\ handle \in [Procs -> Files \cup {NoFile}]
  /\ \A m, n \in Names : Exists(m) /\ name[m] = name[n] => m = n

\* What a process has open belongs to no name of the other kind, and what it
\* carries to the next step is complete.
ProcessOK(p) ==
  /\ pc[p] \in {"write_part", "write_sidecar"} =>
       handle[p] \in Files /\ \A n \in Derived : name[n] # handle[p]
  /\ pc[p] = "write_entry" =>
       handle[p] \in Files /\ \A n \in Plain : name[n] # handle[p]
  /\ pc[p] \notin {"write_part", "write_sidecar", "write_entry"} => handle[p] = NoFile
  /\ pc[p] \notin {"idle", "hash", "compare", "download"} => body[p] \in Bodies
  /\ pc[p] \in {"open_entry", "write_entry", "rename_entry"} => obs[p] # NoFile

ContentsOK ==
  /\ \A n \in Plain : Exists(n) => Content(n) \in Bodies \cup {Empty, Torn}
  /\ \A n \in Derived : Exists(n) => Content(n) \in Entries \cup {Empty, Torn}

LEMMA FilesApartParts == FilesApart <=> ContentsOK /\ \A p \in Procs : ProcessOK(p)
BY DEF FilesApart, ContentsOK, ProcessOK

\* Opening a name truncates the file of that name and of no other; a new file is
\* nobody's.
LEMMA OpenEffect ==
  ASSUME FilesOK, NEW p \in Procs, NEW n \in Names, OpenFile(p, n)
  PROVE  \E f \in Files :
           /\ name' = [name EXCEPT ![n] = f]
           /\ data' = [data EXCEPT ![f] = Empty]
           /\ handle' = [handle EXCEPT ![p] = f]
           /\ \A m \in Names : name[m] = f => m = n
           /\ \A q \in Procs : handle[q] = f => name[n] = f
<1>1. PICK f \in Files :
        /\ IF Exists(n) THEN f = name[n]
                        ELSE f \in Unused /\ \A g \in Unused : f <= g
        /\ name' = [name EXCEPT ![n] = f]
        /\ data' = [data EXCEPT ![f] = Empty]
        /\ handle' = [handle EXCEPT ![p] = f]
  BY DEF OpenFile
<1>2. /\ \A m \in Names : name[m] = f => m = n
      /\ \A q \in Procs : handle[q] = f => name[n] = f
  <2>1. CASE Exists(n)
    BY <1>1, <2>1, NullsAssumption DEF FilesOK, Exists
  <2>2. CASE ~Exists(n)
    BY <1>1, <2>2 DEF Unused
  <2>. QED  BY <2>1, <2>2
<1>. QED  BY <1>1, <1>2

LEMMA OpenKeepsFiles ==
  ASSUME FilesOK, NEW p \in Procs, NEW n \in Names, OpenFile(p, n)
  PROVE  FilesOK'
<1>1. PICK f \in Files :
        /\ name' = [name EXCEPT ![n] = f]
        /\ data' = [data EXCEPT ![f] = Empty]
        /\ handle' = [handle EXCEPT ![p] = f]
        /\ \A m \in Names : name[m] = f => m = n
        /\ \A q \in Procs : handle[q] = f => name[n] = f
  BY OpenEffect
<1>2. Empty \in Contents
  BY DEF Contents
<1>3. /\ name' \in [Names -> Files \cup {NoFile}]
      /\ data' \in [Files -> Contents]
      /\ handle' \in [Procs -> Files \cup {NoFile}]
  BY <1>1, <1>2 DEF FilesOK
<1>4. \A m, k \in Names : Exists(m)' /\ name'[m] = name'[k] => m = k
  BY <1>1 DEF FilesOK, Exists
<1>. QED  BY <1>3, <1>4 DEF FilesOK

LEMMA WriteEffect ==
  ASSUME FilesOK, NEW p \in Procs, NEW c \in Contents, handle[p] \in Files, WriteFile(p, c)
  PROVE  /\ \E r \in {c, Torn} :
              /\ data' = [data EXCEPT ![handle[p]] = r]
              /\ data[handle[p]] = Empty => r = c
         /\ handle' = [handle EXCEPT ![p] = NoFile]
         /\ name' = name
         /\ FilesOK'
<1>1. /\ \E r \in {c, Torn} :
           /\ data' = [data EXCEPT ![handle[p]] = r]
           /\ data[handle[p]] = Empty => r = c
      /\ handle' = [handle EXCEPT ![p] = NoFile]
      /\ name' = name
  BY DEF WriteFile
<1>2. Torn \in Contents
  BY DEF Contents
<1>3. FilesOK'
  BY <1>1, <1>2 DEF FilesOK, Exists
<1>. QED  BY <1>1, <1>3

LEMMA RenameKeepsFiles ==
  ASSUME FilesOK, NEW from \in Names, NEW to \in Names, from # to, RenameFile(from, to),
         UNCHANGED handle
  PROVE  FilesOK'
<1>1. name' = [name EXCEPT ![to] = name[from], ![from] = NoFile] /\ data' = data
  BY DEF RenameFile
<1>2. name' \in [Names -> Files \cup {NoFile}]
  BY <1>1 DEF FilesOK
<1>3. \A m, k \in Names : Exists(m)' /\ name'[m] = name'[k] => m = k
  BY <1>1 DEF FilesOK, Exists
<1>. QED  BY <1>1, <1>2, <1>3 DEF FilesOK

-----------------------------------------------------------------------------
(* Archives and entries never share a file                                 *)

\* A process opens a name of an archive, or of an entry.
LEMMA OpenKeepsApart ==
  ASSUME FilesOK, FilesApart, NEW p \in Procs, NEW n, NEW l, OpenFile(p, n), Goto(p, l),
         \/ n \in Plain /\ l \in {"write_part", "write_sidecar"}
         \/ n \in Derived /\ l = "write_entry" /\ obs[p] # NoFile,
         pc \in [Procs -> Steps], UNCHANGED <<body, obs>>, body[p] \in Bodies
  PROVE  FilesApart'
<1>1. n \in Names
  BY NamesAreDistinct
<1>2. PICK f \in Files :
        /\ name' = [name EXCEPT ![n] = f]
        /\ data' = [data EXCEPT ![f] = Empty]
        /\ handle' = [handle EXCEPT ![p] = f]
        /\ \A m \in Names : name[m] = f => m = n
        /\ \A q \in Procs : handle[q] = f => name[n] = f
  BY <1>1, OpenEffect
<1>3. /\ name \in [Names -> Files \cup {NoFile}] /\ data \in [Files -> Contents]
      /\ handle \in [Procs -> Files \cup {NoFile}]
      /\ \A m \in Names : m \in Plain \/ m \in Derived
      /\ \A m \in Plain : m \in Names /\ m \notin Derived
      /\ \A m \in Derived : m \in Names /\ m \notin Plain
  BY NamesAreDistinct DEF FilesOK
<1>4. \A m \in Names : m # n => name'[m] = name[m] /\ name'[m] # f /\ Content(m)' = Content(m)
  <2>. SUFFICES ASSUME NEW m \in Names, m # n
                PROVE  name'[m] = name[m] /\ name'[m] # f /\ Content(m)' = Content(m)
    OBVIOUS
  <2>1. name'[m] = name[m] /\ name[m] # f
    BY <1>2, <1>3
  <2>2. CASE name[m] = NoFile
    BY <2>1, <2>2 DEF Content, Exists
  <2>3. CASE name[m] # NoFile
    <3>1. name[m] \in Files
      BY <2>3, <1>3
    <3>2. data'[name[m]] = data[name[m]]
      BY <3>1, <2>1, <1>2, <1>3
    <3>. QED  BY <2>1, <2>3, <3>2 DEF Content, Exists
  <2>. QED  BY <2>1, <2>2, <2>3
<1>5. Content(n)' = Empty /\ name'[n] = f
  BY <1>1, <1>2, <1>3, NullsAssumption DEF Content, Exists
<1>6. ContentsOK'
  BY <1>3, <1>4, <1>5, FilesApartParts DEF ContentsOK, Exists
<1>7. ASSUME NEW q \in Procs
      PROVE  ProcessOK(q)'
  <2>0. ProcessOK(q)
    BY FilesApartParts
  <2>1. CASE q = p
    <3>1. pc'[p] = l /\ handle'[p] = f /\ body'[p] = body[p] /\ obs'[p] = obs[p]
      BY <1>2, <1>3 DEF Goto
    <3>. QED  BY <2>1, <3>1, <1>3, <1>4 DEF ProcessOK
  <2>2. CASE q # p
    <3>1. pc'[q] = pc[q] /\ handle'[q] = handle[q] /\ body'[q] = body[q] /\ obs'[q] = obs[q]
      BY <2>2, <1>2, <1>3 DEF Goto
    <3>2. \A m \in Names : name'[m] = name[m] \/ (m = n /\ name'[m] = f)
      BY <1>4, <1>5
    <3>. QED  BY <2>0, <3>1, <3>2, <1>2, <1>3 DEF ProcessOK
  <2>. QED  BY <2>1, <2>2
<1>. QED  BY <1>6, <1>7 DEF FilesApart, ContentsOK, ProcessOK

\* A process writes what it has open: a body, or an entry.
LEMMA WriteKeepsApart ==
  ASSUME FilesOK, FilesApart, NEW p \in Procs, NEW c, NEW l, WriteFile(p, c), Goto(p, l),
         \/ /\ pc[p] \in {"write_part", "write_sidecar"} /\ c \in Bodies
            /\ l \in {"open_sidecar", "rename_part"}
         \/ pc[p] = "write_entry" /\ c \in Entries /\ l = "rename_entry",
         pc \in [Procs -> Steps], UNCHANGED <<body, obs>>
  PROVE  FilesApart' /\ FilesOK'
<1>1. ProcessOK(p) /\ ContentsOK
  BY FilesApartParts
<1>2. handle[p] \in Files /\ c \in Contents
  BY <1>1 DEF ProcessOK, Contents
<1>3. /\ handle' = [handle EXCEPT ![p] = NoFile] /\ name' = name /\ FilesOK'
      /\ \E r \in {c, Torn} : data' = [data EXCEPT ![handle[p]] = r]
  BY <1>2, WriteEffect
<1>4. PICK r \in {c, Torn} : data' = [data EXCEPT ![handle[p]] = r]
  BY <1>3
<1>5. /\ name \in [Names -> Files \cup {NoFile}] /\ data \in [Files -> Contents]
      /\ handle \in [Procs -> Files \cup {NoFile}]
      /\ \A m \in Plain : m \in Names /\ m \notin Derived
      /\ \A m \in Derived : m \in Names /\ m \notin Plain
  BY NamesAreDistinct DEF FilesOK
<1>6. \A m \in Names : Exists(m) => Content(m)' = (IF name[m] = handle[p] THEN r ELSE Content(m))
  BY <1>2, <1>3, <1>4, <1>5 DEF Exists, Content
<1>7. ContentsOK'
  <2>1. CASE pc[p] \in {"write_part", "write_sidecar"} /\ c \in Bodies
    BY <2>1, <1>1, <1>3, <1>5, <1>6 DEF ContentsOK, ProcessOK, Exists
  <2>2. CASE pc[p] = "write_entry" /\ c \in Entries
    BY <2>2, <1>1, <1>3, <1>5, <1>6 DEF ContentsOK, ProcessOK, Exists
  <2>. QED  BY <2>1, <2>2
<1>8. ASSUME NEW q \in Procs
      PROVE  ProcessOK(q)'
  <2>0. ProcessOK(q)
    BY FilesApartParts
  <2>1. CASE q = p
    <3>1. pc'[p] = l /\ handle'[p] = NoFile /\ body'[p] = body[p] /\ obs'[p] = obs[p]
      BY <1>3, <1>5 DEF Goto
    <3>. QED  BY <2>1, <3>1, <1>1 DEF ProcessOK
  <2>2. CASE q # p
    <3>1. pc'[q] = pc[q] /\ handle'[q] = handle[q] /\ body'[q] = body[q] /\ obs'[q] = obs[q]
      BY <2>2, <1>3, <1>5 DEF Goto
    <3>. QED  BY <2>0, <3>1, <1>3 DEF ProcessOK
  <2>. QED  BY <2>1, <2>2
<1>. QED  BY <1>3, <1>7, <1>8 DEF FilesApart, ContentsOK, ProcessOK

\* Names move within their kind, or go.
LEMMA RenameKeepsApart ==
  ASSUME FilesOK, FilesApart, NEW p \in Procs, NEW from, NEW to, NEW l,
         RenameFile(from, to), Goto(p, l), from # to,
         \/ from \in Plain /\ to \in Plain
         \/ from \in Derived /\ to \in Derived,
         pc[p] \in {"rename_part", "rename_sidecar", "rename_entry"},
         l \in {"rename_sidecar", "load", "use"},
         pc \in [Procs -> Steps], UNCHANGED <<handle, body, obs>>
  PROVE  FilesApart'
<1>1. name' = [name EXCEPT ![to] = name[from], ![from] = NoFile] /\ data' = data
  BY DEF RenameFile
<1>2. /\ name \in [Names -> Files \cup {NoFile}]
      /\ handle \in [Procs -> Files \cup {NoFile}]
      /\ \A m \in Plain : m \in Names /\ m \notin Derived
      /\ \A m \in Derived : m \in Names /\ m \notin Plain
  BY NamesAreDistinct DEF FilesOK
<1>3. /\ name'[from] = NoFile /\ name'[to] = name[from]
      /\ \A m \in Names : m # from /\ m # to => name'[m] = name[m]
  BY <1>1, <1>2
<1>4. ContentsOK'
  BY <1>1, <1>2, <1>3, FilesApartParts DEF ContentsOK, Content, Exists
<1>5. ASSUME NEW q \in Procs
      PROVE  ProcessOK(q)'
  <2>1. ProcessOK(q)
    BY FilesApartParts
  <2>2. q # p => pc'[q] = pc[q]
    BY DEF Goto
  <2>3. pc'[p] = l
    BY DEF Goto
  <2>. QED  BY <2>1, <2>2, <2>3, <1>2, <1>3, NullsAssumption DEF ProcessOK
<1>. QED  BY <1>4, <1>5 DEF FilesApart, ContentsOK, ProcessOK

\* A step that writes no file; it may remove a name.
LEMMA QuietKeepsApart ==
  ASSUME FilesOK, FilesApart, NEW p \in Procs, NEW l, Goto(p, l), pc \in [Procs -> Steps],
         data' = data, name' \in [Names -> Files \cup {NoFile}],
         \A n \in Names : name'[n] = name[n] \/ name'[n] = NoFile,
         \/ handle' = handle /\ pc[p] \notin {"write_part", "write_sidecar", "write_entry"}
         \/ handle' = [handle EXCEPT ![p] = NoFile],
         \A q \in Procs \ {p} : body'[q] = body[q] /\ obs'[q] = obs[q],
         l \notin {"write_part", "write_sidecar", "write_entry", "rename_entry"},
         l \notin {"idle", "hash", "compare", "download"} => body'[p] \in Bodies,
         l = "open_entry" => obs'[p] # NoFile
  PROVE  FilesApart' /\ FilesOK'
<1>1. /\ name \in [Names -> Files \cup {NoFile}]
      /\ handle \in [Procs -> Files \cup {NoFile}]
      /\ \A m \in Plain : m \in Names /\ m \notin Derived
      /\ \A m \in Derived : m \in Names /\ m \notin Plain
  BY NamesAreDistinct DEF FilesOK
<1>2. ContentsOK /\ \A q \in Procs : ProcessOK(q)
  BY FilesApartParts
<1>3. handle' \in [Procs -> Files \cup {NoFile}] /\ handle'[p] = NoFile
      /\ \A q \in Procs \ {p} : handle'[q] = handle[q]
  BY <1>1, <1>2 DEF ProcessOK
<1>4. pc'[p] = l /\ \A q \in Procs \ {p} : pc'[q] = pc[q]
  BY DEF Goto
<1>5. FilesOK'
  BY <1>3 DEF FilesOK, Exists
<1>6. ContentsOK'
  BY <1>1, <1>2 DEF ContentsOK, Content, Exists
<1>7. ASSUME NEW q \in Procs
      PROVE  ProcessOK(q)'
  <2>1. CASE q = p
    BY <2>1, <1>3, <1>4 DEF ProcessOK
  <2>2. CASE q # p
    <3>1. \A n \in Names : name[n] # handle[q] /\ handle[q] \in Files => name'[n] # handle[q]
      BY NullsAssumption
    <3>. QED  BY <2>2, <3>1, <1>1, <1>2, <1>3, <1>4 DEF ProcessOK
  <2>. QED  BY <2>1, <2>2
<1>. QED  BY <1>5, <1>6, <1>7 DEF FilesApart, ContentsOK, ProcessOK

\* The types of the files and of the processes.
ProcsOK ==
  /\ pc \in [Procs -> Steps]
  /\ body \in [Procs -> Bodies \cup {Empty, Torn, NoFile}]
  /\ obs \in [Procs -> Bodies \cup {Short, NoFile}]
  /\ mode \in [Procs -> SUBSET CacheControl]
  /\ met \in SUBSET Procs
  /\ apart \in BOOLEAN
  /\ runs \in 0 .. MaxRuns
  /\ crashes \in 0 .. MaxCrashes

LEMMA TypeParts == TypeOK <=> FilesOK /\ ProcsOK
BY DEF TypeOK, FilesOK, ProcsOK

LEMMA TypePartsNext == FilesOK' /\ ProcsOK' => TypeOK'
BY DEF TypeOK, FilesOK, ProcsOK

LEMMA LeaveKeeps ==
  ASSUME TypeOK, FilesApart, NEW p \in Procs, Leave(p), runs' = runs,
         crashes' = crashes \/ (crashes < MaxCrashes /\ crashes' = crashes + 1)
  PROVE  TypeOK' /\ FilesApart'
<1>1. FilesOK /\ ProcsOK
  BY TypeParts
<1>2. ProcsOK'
  BY <1>1, BoundsAssumption DEF ProcsOK, Leave, Goto, Steps, CacheControl
<1>3. FilesApart' /\ FilesOK'
  <2>1. \A q \in Procs \ {p} : body'[q] = body[q] /\ obs'[q] = obs[q]
    BY <1>1 DEF Leave, ProcsOK
  <2>2. Goto(p, "idle") /\ handle' = [handle EXCEPT ![p] = NoFile] /\ data' = data /\ name' = name
    BY DEF Leave, fileVars
  <2>3. name \in [Names -> Files \cup {NoFile}] /\ pc \in [Procs -> Steps]
    BY <1>1 DEF FilesOK, ProcsOK
  <2>. HIDE DEF Goto, Leave
  <2>. QED  BY <1>1, <2>1, <2>2, <2>3, QuietKeepsApart
<1>. QED  BY <1>2, <1>3, TypePartsNext

\* A run begins.
LEMMA StartKeeps ==
  ASSUME TypeOK, FilesApart, NEW p \in Procs, NEW flags \in SUBSET CacheControl, Start(p, flags)
  PROVE  TypeOK' /\ FilesApart'
<1>1. FilesOK /\ ProcsOK
  BY TypeParts
<1>2. met' \in SUBSET Procs /\ apart' \in BOOLEAN
  <2>1. met' \in SUBSET Procs
    BY <1>1 DEF ProcsOK, Start, Active
  <2>2. apart' = (apart /\ Active = {})
    BY Zenon DEF Start
  <2>3. apart' \in BOOLEAN
    BY <2>2, Zenon
  <2>. QED  BY <2>1, <2>3
<1>3. ProcsOK'
  BY <1>1, <1>2, BoundsAssumption DEF ProcsOK, Start, Goto, Steps
<1>4. FilesApart' /\ FilesOK'
  <2>1. /\ Goto(p, "hash") /\ handle' = handle /\ data' = data /\ name' = name
        /\ body' = body /\ obs' = obs /\ pc[p] = "idle"
    BY DEF Start, fileVars
  <2>2. name \in [Names -> Files \cup {NoFile}] /\ pc \in [Procs -> Steps]
    BY <1>1 DEF FilesOK, ProcsOK
  <2>. QED  BY <1>1, <2>1, <2>2, QuietKeepsApart
<1>. QED  BY <1>3, <1>4, TypePartsNext

\* Every step of a run keeps the types, and archives and entries apart.
LEMMA StepKeepsFiles ==
  ASSUME TypeOK, FilesApart, NEW p \in Procs, Step(p)
  PROVE  TypeOK' /\ FilesApart'
<1>1. /\ FilesOK /\ ProcsOK /\ ProcessOK(p) /\ ContentsOK
      /\ name \in [Names -> Files \cup {NoFile}] /\ pc \in [Procs -> Steps]
      /\ body \in [Procs -> Bodies \cup {Empty, Torn, NoFile}]
      /\ obs \in [Procs -> Bodies \cup {Short, NoFile}]
  BY TypeParts, FilesApartParts DEF FilesOK, ProcsOK
<1>2. Exists(Final) => Content(Final) \in Bodies \cup {Empty, Torn}
  BY <1>1, NamesAreDistinct DEF ContentsOK
<1>3. ASSUME NEW l \in Steps, Goto(p, l), Keep
      PROVE  ProcsOK' /\ body' = body /\ obs' = obs
  BY <1>1, <1>3 DEF ProcsOK, Keep, Goto
<1>4. CASE HashFinal(p)
  <2>1. PICK l \in {"compare", "download"} : Goto(p, l)
    BY <1>4 DEF HashFinal
  <2>2. /\ body' \in [Procs -> Bodies \cup {Empty, Torn, NoFile}]
        /\ \A q \in Procs \ {p} : body'[q] = body[q]
    BY <1>1, <1>2, <1>4 DEF HashFinal
  <2>3. /\ pc[p] = "hash" /\ name' = name /\ data' = data /\ handle' = handle /\ obs' = obs
    BY <1>4 DEF HashFinal, fileVars
  <2>4. ProcsOK'
    BY <1>1, <1>4, <2>1, <2>2 DEF HashFinal, ProcsOK, Goto, Steps
  <2>5. FilesApart' /\ FilesOK'
    BY <1>1, <2>1, <2>2, <2>3, QuietKeepsApart
  <2>. QED  BY <2>4, <2>5, TypePartsNext
<1>5. CASE CompareSidecar(p)
  <2>1. PICK l \in {"load", "download"} : Goto(p, l) /\ (l = "load" => body[p] \in Bodies)
    BY <1>5 DEF CompareSidecar
  <2>2. pc[p] = "compare" /\ name' = name /\ data' = data /\ handle' = handle /\ Keep
    BY <1>5 DEF CompareSidecar, fileVars
  <2>3. ProcsOK' /\ body' = body /\ obs' = obs
    BY <2>1, <2>2, <1>3 DEF Steps
  <2>4. FilesApart' /\ FilesOK'
    BY <1>1, <2>1, <2>2, <2>3, QuietKeepsApart
  <2>. QED  BY <2>3, <2>4, TypePartsNext
<1>6. CASE Download(p)
  <2>1. CASE Leave(p)
    BY <1>6, <2>1, LeaveKeeps DEF Download
  <2>2. CASE ~Leave(p)
    <3>1. PICK b \in Bodies : body' = [body EXCEPT ![p] = b]
      BY <1>6, <2>2 DEF Download
    <3>2. /\ Goto(p, "open_part") /\ pc[p] = "download" /\ name' = name /\ data' = data
          /\ UNCHANGED <<handle, obs, mode, met, apart, runs, crashes>>
      BY <1>6, <2>2 DEF Download, fileVars
    <3>3. ProcsOK'
      BY <1>1, <3>1, <3>2 DEF ProcsOK, Goto, Steps
    <3>4. body'[p] \in Bodies /\ \A q \in Procs \ {p} : body'[q] = body[q]
      BY <1>1, <3>1
    <3>5. FilesApart' /\ FilesOK'
      BY <1>1, <3>2, <3>4, QuietKeepsApart
    <3>. QED  BY <3>3, <3>5, TypePartsNext
  <2>. QED  BY <2>1, <2>2
<1>7. CASE OpenPart(p)
  <2>1. ProcsOK' /\ body' = body /\ obs' = obs
    BY <1>3, <1>7 DEF OpenPart, Steps
  <2>2. body[p] \in Bodies
    BY <1>1, <1>7 DEF OpenPart, ProcessOK
  <2>. QED  BY <1>1, <1>7, <2>1, <2>2, OpenKeepsApart, OpenKeepsFiles, NamesAreDistinct, TypePartsNext
            DEF OpenPart
<1>8. CASE WritePart(p)
  <2>1. ProcsOK' /\ body' = body /\ obs' = obs
    BY <1>3, <1>8 DEF WritePart, Steps
  <2>2. body[p] \in Bodies
    BY <1>1, <1>8 DEF WritePart, ProcessOK
  <2>. QED  BY <1>1, <1>8, <2>1, <2>2, WriteKeepsApart, TypePartsNext DEF WritePart
<1>9. CASE OpenPartSidecar(p)
  <2>1. ProcsOK' /\ body' = body /\ obs' = obs
    BY <1>3, <1>9 DEF OpenPartSidecar, Steps
  <2>2. body[p] \in Bodies
    BY <1>1, <1>9 DEF OpenPartSidecar, ProcessOK
  <2>. QED  BY <1>1, <1>9, <2>1, <2>2, OpenKeepsApart, OpenKeepsFiles, NamesAreDistinct, TypePartsNext
            DEF OpenPartSidecar
<1>10. CASE WritePartSidecar(p)
  <2>1. ProcsOK' /\ body' = body /\ obs' = obs
    BY <1>3, <1>10 DEF WritePartSidecar, Steps
  <2>2. body[p] \in Bodies
    BY <1>1, <1>10 DEF WritePartSidecar, ProcessOK
  <2>. QED  BY <1>1, <1>10, <2>1, <2>2, WriteKeepsApart, TypePartsNext DEF WritePartSidecar
<1>11. CASE RenamePart(p)
  <2>1. ProcsOK' /\ body' = body /\ obs' = obs
    BY <1>3, <1>11 DEF RenamePart, Steps
  <2>2. /\ RenameFile(Part, Final) /\ Goto(p, "rename_sidecar") /\ handle' = handle
        /\ pc[p] = "rename_part"
    BY <1>11 DEF RenamePart
  <2>3. /\ Part # Final /\ Part \in Plain /\ Final \in Plain
        /\ Part \in Names /\ Final \in Names
    BY NamesAreDistinct
  <2>4. FilesOK'
    BY <1>1, <2>2, <2>3, RenameKeepsFiles
  <2>5. FilesApart'
    BY <1>1, <2>1, <2>2, <2>3, RenameKeepsApart
  <2>. QED  BY <2>1, <2>4, <2>5, TypePartsNext
<1>12. CASE RenamePartSidecar(p)
  <2>1. ProcsOK' /\ body' = body /\ obs' = obs
    BY <1>3, <1>12 DEF RenamePartSidecar, Steps
  <2>2. /\ RenameFile(PartSidecar, Sidecar) /\ Goto(p, "load") /\ handle' = handle
        /\ pc[p] = "rename_sidecar"
    BY <1>12 DEF RenamePartSidecar
  <2>3. /\ PartSidecar # Sidecar /\ PartSidecar \in Plain /\ Sidecar \in Plain
        /\ PartSidecar \in Names /\ Sidecar \in Names
    BY NamesAreDistinct
  <2>4. FilesOK'
    BY <1>1, <2>2, <2>3, RenameKeepsFiles
  <2>5. FilesApart'
    BY <1>1, <2>1, <2>2, <2>3, RenameKeepsApart
  <2>. QED  BY <2>1, <2>4, <2>5, TypePartsNext
<1>13. CASE CacheError(p)
  BY <1>13, LeaveKeeps DEF CacheError
<1>14. CASE LoadEntry(p)
  <2> DEFINE key == update_cache_key(body[p])
  <2>1. body[p] \in Bodies /\ key \in Derived /\ key \in Names /\ pc[p] = "load"
    BY <1>1, <1>14, NamesAreDistinct DEF ProcessOK, LoadEntry
  <2>2. PICK l \in {"use", "read"} : Goto(p, l)
    BY <1>14 DEF LoadEntry
  <2>3. /\ name' \in [Names -> Files \cup {NoFile}]
        /\ \A n \in Names : name'[n] = name[n] \/ name'[n] = NoFile
    BY <1>1, <1>14, <2>1 DEF LoadEntry
  <2>4. /\ obs' \in [Procs -> Bodies \cup {Short, NoFile}]
        /\ \A q \in Procs \ {p} : obs'[q] = obs[q]
    BY <1>1, <1>14 DEF LoadEntry, Entries
  <2>5. data' = data /\ handle' = handle /\ UNCHANGED <<body, mode, met, apart, runs, crashes>>
    BY <1>14 DEF LoadEntry
  <2>6. ProcsOK'
    BY <1>1, <2>2, <2>4, <2>5 DEF ProcsOK, Goto, Steps
  <2>7. FilesApart' /\ FilesOK'
    BY <1>1, <2>1, <2>2, <2>3, <2>4, <2>5, QuietKeepsApart
  <2>. QED  BY <2>6, <2>7, TypePartsNext
<1>15. CASE ReadArchive(p)
  <2>1. PICK l \in {"use", "open_entry"} : Goto(p, l)
    BY <1>15 DEF ReadArchive
  <2>2. PICK o \in Bodies \cup {Short} : obs' = [obs EXCEPT ![p] = o]
    BY <1>2, <1>15 DEF ReadArchive
  <2>3. /\ pc[p] = "read" /\ name' = name /\ data' = data
        /\ UNCHANGED <<handle, body, mode, met, apart, runs, crashes>>
    BY <1>15 DEF ReadArchive, fileVars
  <2>4. o # NoFile /\ body[p] \in Bodies
    BY <1>1, <2>3, NullsAssumption DEF ProcessOK
  <2>5. ProcsOK'
    BY <1>1, <2>1, <2>2, <2>3 DEF ProcsOK, Goto, Steps
  <2>6. obs'[p] = o /\ \A q \in Procs \ {p} : obs'[q] = obs[q]
    BY <1>1, <2>2
  <2>7. FilesApart' /\ FilesOK'
    BY <1>1, <2>1, <2>3, <2>4, <2>6, QuietKeepsApart
  <2>. QED  BY <2>5, <2>7, TypePartsNext
<1>16. CASE OpenEntry(p)
  <2>1. ProcsOK' /\ body' = body /\ obs' = obs
    BY <1>3, <1>16 DEF OpenEntry, Steps
  <2>2. /\ body[p] \in Bodies /\ obs[p] # NoFile
        /\ update_cache_tmp(body[p]) \in Derived /\ update_cache_tmp(body[p]) \in Names
    BY <1>1, <1>16, NamesAreDistinct DEF OpenEntry, ProcessOK
  <2>. QED  BY <1>1, <1>16, <2>1, <2>2, OpenKeepsApart, OpenKeepsFiles, TypePartsNext DEF OpenEntry
<1>17. CASE WriteEntry(p)
  <2>1. ProcsOK' /\ body' = body /\ obs' = obs
    BY <1>3, <1>17 DEF WriteEntry, Steps
  <2>2. [source |-> body[p], obs |-> obs[p]] \in Entries
    BY <1>1, <1>17 DEF WriteEntry, ProcessOK, Entries
  <2>. QED  BY <1>1, <1>17, <2>1, <2>2, WriteKeepsApart, TypePartsNext DEF WriteEntry
<1>18. CASE RenameEntry(p)
  <2>1. ProcsOK' /\ body' = body /\ obs' = obs
    BY <1>3, <1>18 DEF RenameEntry, Steps
  <2>2. body[p] \in Bodies
    BY <1>1, <1>18 DEF RenameEntry, ProcessOK
  <2>3. /\ update_cache_tmp(body[p]) \in Derived /\ update_cache_tmp(body[p]) \in Names
        /\ update_cache_key(body[p]) \in Derived /\ update_cache_key(body[p]) \in Names
        /\ update_cache_tmp(body[p]) # update_cache_key(body[p])
    BY <2>2, NamesAreDistinct
  <2>. QED  BY <1>1, <1>18, <2>1, <2>3, RenameKeepsApart, RenameKeepsFiles, TypePartsNext DEF RenameEntry
<1>19. CASE SaveFails(p)
  <2>1. ProcsOK' /\ body' = body /\ obs' = obs
    BY <1>3, <1>19 DEF SaveFails, Steps
  <2>2. /\ Goto(p, "use") /\ handle' = [handle EXCEPT ![p] = NoFile] /\ name' = name
        /\ data' = data /\ body[p] \in Bodies
    BY <1>1, <1>19 DEF SaveFails, fileVars, ProcessOK
  <2>3. FilesApart' /\ FilesOK'
    BY <1>1, <2>1, <2>2, QuietKeepsApart
  <2>. QED  BY <2>1, <2>3, TypePartsNext
<1>20. CASE Finish(p)
  BY <1>20, LeaveKeeps DEF Finish
<1>. QED
  BY <1>4, <1>5, <1>6, <1>7, <1>8, <1>9, <1>10, <1>11, <1>12, <1>13, <1>14, <1>15, <1>16, <1>17,
     <1>18, <1>19, <1>20 DEF Step

-----------------------------------------------------------------------------
(* Runs that overlap have met                                              *)

\* A step ends the run, or moves it on and leaves the history alone.
LEMMA StepMoves ==
  ASSUME TypeOK, NEW p \in Procs, Step(p)
  PROVE  /\ pc[p] # "idle"
         /\ \/ Leave(p)
            \/ pc'[p] # "idle" /\ met' = met /\ apart' = apart
               /\ \A q \in Procs \ {p} : pc'[q] = pc[q]
<1>. pc \in [Procs -> Steps]
  BY DEF TypeOK
<1>1. CASE HashFinal(p)
  BY <1>1 DEF HashFinal, Goto
<1>2. CASE CompareSidecar(p)
  BY <1>2 DEF CompareSidecar, Goto, Keep
<1>3. CASE Download(p)
  BY <1>3 DEF Download, Goto
<1>4. CASE OpenPart(p) \/ WritePart(p) \/ OpenPartSidecar(p) \/ WritePartSidecar(p)
  BY <1>4 DEF OpenPart, WritePart, OpenPartSidecar, WritePartSidecar, Goto, Keep
<1>5. CASE RenamePart(p) \/ RenamePartSidecar(p)
  BY <1>5 DEF RenamePart, RenamePartSidecar, Goto, Keep
<1>6. CASE CacheError(p)
  BY <1>6 DEF CacheError
<1>7. CASE LoadEntry(p)
  BY <1>7 DEF LoadEntry, Goto
<1>8. CASE ReadArchive(p)
  BY <1>8 DEF ReadArchive, Goto
<1>9. CASE OpenEntry(p) \/ WriteEntry(p) \/ RenameEntry(p)
  BY <1>9 DEF OpenEntry, WriteEntry, RenameEntry, Goto, Keep
<1>10. CASE SaveFails(p)
  BY <1>10 DEF SaveFails, Goto, Keep
<1>11. CASE Finish(p)
  BY <1>11 DEF Finish
<1>. QED
  BY <1>1, <1>2, <1>3, <1>4, <1>5, <1>6, <1>7, <1>8, <1>9, <1>10, <1>11 DEF Step

\* Overlapping runs have met, and a run that has met no other runs alone.
LEMMA StartKeepsMeet ==
  ASSUME TypeOK, RunsMeet, NEW p \in Procs, NEW flags, Start(p, flags)
  PROVE  /\ RunsMeet'
         /\ (Active \ met)' \subseteq {p}
         /\ apart' => apart /\ met' = met
<1>1. /\ pc \in [Procs -> Steps] /\ pc[p] = "idle" /\ pc'[p] = "hash"
      /\ \A q \in Procs \ {p} : pc'[q] = pc[q]
  BY DEF TypeOK, Start, Goto
<1>2. Active' = Active \cup {p}
  BY <1>1 DEF Active
<1>3. apart' => apart /\ Active = {}
  BY Zenon DEF Start
<1>4. CASE Active = {}
  <2>1. met' = met /\ met = {}
    BY <1>4 DEF Start, RunsMeet
  <2>. QED  BY <1>2, <1>3, <1>4, <2>1 DEF RunsMeet
<1>5. CASE Active # {}
  <2>1. met' = Active'
    BY <1>2, <1>5 DEF Start
  <2>. QED  BY <1>3, <1>5, <2>1 DEF RunsMeet
<1>. QED  BY <1>4, <1>5

LEMMA LeaveKeepsMeet ==
  ASSUME TypeOK, RunsMeet, NEW p \in Procs, pc[p] # "idle", Leave(p)
  PROVE  /\ RunsMeet'
         /\ (Active \ met)' = {}
         /\ apart' = apart /\ met' = met \ {p}
<1>1. /\ pc \in [Procs -> Steps] /\ pc'[p] = "idle"
      /\ \A q \in Procs \ {p} : pc'[q] = pc[q]
      /\ apart' = apart /\ met' = met \ {p}
  BY DEF TypeOK, Leave, Goto
<1>2. Active' = Active \ {p} /\ p \in Active
  BY <1>1 DEF Active
<1>3. \A q \in Active \ {p} : q \in met
  BY <1>2 DEF RunsMeet
<1>. QED  BY <1>1, <1>2, <1>3 DEF RunsMeet

LEMMA MoveKeepsMeet ==
  ASSUME TypeOK, RunsMeet, NEW p \in Procs, pc[p] # "idle", pc'[p] # "idle", met' = met,
         \A q \in Procs \ {p} : pc'[q] = pc[q]
  PROVE  /\ RunsMeet'
         /\ (Active \ met)' \subseteq {p}
         /\ p \in (Active \ met)' => p \in Active \ met
<1>1. Active' = Active /\ p \in Active
  BY DEF Active
<1>2. \A q \in Active \ {p} : q \in met
  BY <1>1 DEF RunsMeet
<1>. QED  BY <1>1, <1>2 DEF RunsMeet

-----------------------------------------------------------------------------
(* What a file operation leaves under each name                            *)

LEMMA OpenContents ==
  ASSUME FilesOK, NEW p \in Procs, NEW n \in Names, OpenFile(p, n)
  PROVE  /\ Content(n)' = Empty /\ name'[n] = handle'[p] /\ data'[handle'[p]] = Empty
         /\ \A m \in Names \ {n} : Content(m)' = Content(m) /\ name'[m] # handle'[p]
<1>1. PICK f \in Files :
        /\ name' = [name EXCEPT ![n] = f]
        /\ data' = [data EXCEPT ![f] = Empty]
        /\ handle' = [handle EXCEPT ![p] = f]
        /\ \A m \in Names : name[m] = f => m = n
        /\ \A q \in Procs : handle[q] = f => name[n] = f
  BY OpenEffect
<1>2. /\ name \in [Names -> Files \cup {NoFile}] /\ data \in [Files -> Contents]
      /\ handle \in [Procs -> Files \cup {NoFile}]
  BY DEF FilesOK
<1>3. name'[n] = f /\ handle'[p] = f /\ data'[f] = Empty /\ f # NoFile
  BY <1>1, <1>2, NullsAssumption
<1>4. ASSUME NEW m \in Names \ {n}
      PROVE  Content(m)' = Content(m) /\ name'[m] # handle'[p]
  <2>1. name'[m] = name[m] /\ name[m] # f
    BY <1>1, <1>2
  <2>2. name[m] \in Files => data'[name[m]] = data[name[m]]
    BY <2>1, <1>1, <1>2
  <2>3. name[m] # NoFile => name[m] \in Files
    BY <1>2
  <2>. QED  BY <2>1, <2>2, <2>3, <1>3 DEF Content, Exists
<1>5. Content(n)' = Empty
  BY <1>3 DEF Content, Exists
<1>. QED  BY <1>3, <1>4, <1>5

LEMMA WriteContents ==
  ASSUME FilesOK, NEW p \in Procs, NEW c \in Contents, handle[p] \in Files, WriteFile(p, c)
  PROVE  /\ \A m \in Names : name[m] # handle[p] => Content(m)' = Content(m)
         /\ \A m \in Names : name[m] = handle[p] /\ data[handle[p]] = Empty => Content(m)' = c
<1>1. /\ \E r \in {c, Torn} :
           /\ data' = [data EXCEPT ![handle[p]] = r]
           /\ data[handle[p]] = Empty => r = c
      /\ name' = name
  BY WriteEffect
<1>2. PICK r \in {c, Torn} : /\ data' = [data EXCEPT ![handle[p]] = r]
                             /\ data[handle[p]] = Empty => r = c
  BY <1>1
<1>3. name \in [Names -> Files \cup {NoFile}] /\ data \in [Files -> Contents]
  BY DEF FilesOK
<1>4. ASSUME NEW m \in Names, name[m] # handle[p]
      PROVE  Content(m)' = Content(m)
  <2>1. name[m] # NoFile => data'[name[m]] = data[name[m]]
    BY <1>2, <1>3, <1>4
  <2>. QED  BY <2>1, <1>1 DEF Content, Exists
<1>5. ASSUME NEW m \in Names, name[m] = handle[p], data[handle[p]] = Empty
      PROVE  Content(m)' = c
  BY <1>1, <1>2, <1>3, <1>5, NullsAssumption DEF Content, Exists
<1>. QED  BY <1>4, <1>5

LEMMA RenameContents ==
  ASSUME FilesOK, NEW from \in Names, NEW to \in Names, from # to, RenameFile(from, to)
  PROVE  /\ Content(to)' = Content(from) /\ Content(from)' = NoFile
         /\ \A m \in Names \ {from, to} : Content(m)' = Content(m)
<1>1. name' = [name EXCEPT ![to] = name[from], ![from] = NoFile] /\ data' = data /\ Exists(from)
  BY DEF RenameFile
<1>2. /\ name'[from] = NoFile /\ name'[to] = name[from]
      /\ \A m \in Names \ {from, to} : name'[m] = name[m]
  BY <1>1 DEF FilesOK
<1>3. data' = data
  BY <1>1
<1>4. Content(to)' = Content(from) /\ Content(from)' = NoFile
  BY <1>2, <1>3 DEF Content, Exists
<1>5. \A m \in Names \ {from, to} : Content(m)' = Content(m)
  BY <1>2, <1>3 DEF Content, Exists
<1>. QED  BY <1>4, <1>5

\* Entries stay clean when their contents stay, are truncated or go.
Clean == \A b \in Bodies : \A n \in {update_cache_key(b), update_cache_tmp(b)} :
           Content(n) \in Entries => Content(n) = [source |-> b, obs |-> b]

LEMMA StaysClean ==
  ASSUME \A n \in Derived : Content(n)' = Content(n) \/ Content(n)' \in {Empty, NoFile}
  PROVE  Clean => Clean'
<1>. SUFFICES ASSUME Clean, NEW b \in Bodies, NEW n \in {update_cache_key(b), update_cache_tmp(b)},
                     Content(n)' \in Entries
              PROVE  Content(n)' = [source |-> b, obs |-> b]
  BY DEF Clean
<1>1. n \in Derived
  BY NamesAreDistinct
<1>2. Content(n)' = Content(n)
  BY <1>1, NullsAssumption
<1>. QED  BY <1>2 DEF Clean

-----------------------------------------------------------------------------
(* A run alone                                                             *)

\* What the steps of a run that has met no other leave, for the run itself and
\* for the entries.
LEMMA AloneStep ==
  ASSUME TypeOK, FilesApart, NEW p \in Procs, Alone(p), Step(p)
  PROVE  (Leave(p) \/ Alone(p)') /\ (Clean => Clean')
<1>1. /\ FilesOK /\ ProcessOK(p)
      /\ name \in [Names -> Files \cup {NoFile}] /\ pc \in [Procs -> Steps]
      /\ body \in [Procs -> Bodies \cup {Empty, Torn, NoFile}]
      /\ obs \in [Procs -> Bodies \cup {Short, NoFile}]
  BY TypeParts, FilesApartParts DEF FilesOK, ProcsOK
<1>2. ASSUME name' = name, data' = data
      PROVE  (Clean => Clean') /\ \A n \in Names : Content(n)' = Content(n)
  <2>1. \A n \in Names : Content(n)' = Content(n)
    BY <1>2 DEF Content, Exists
  <2>. QED  BY <2>1, NamesAreDistinct, StaysClean
<1>3. ASSUME NEW l, Goto(p, l) PROVE pc'[p] = l
  BY <1>1, <1>3 DEF Goto
<1>4. Final \in Names /\ Part \in Names /\ PartSidecar \in Names /\ Sidecar \in Names
  BY NamesAreDistinct
<1>5. CASE HashFinal(p)
  <2>1. name' = name /\ data' = data
    BY <1>5 DEF HashFinal, fileVars
  <2>2. (Clean => Clean') /\ Content(Final)' = Content(Final)
    BY <1>2, <1>4, <2>1
  <2>3. pc'[p] \in {"compare", "download"}
    BY <1>5, <1>3 DEF HashFinal
  <2>4. pc'[p] = "compare" => body'[p] = Content(Final)
    BY <1>1, <1>3, <1>5 DEF HashFinal
  <2>. QED  BY <2>2, <2>3, <2>4 DEF Alone
<1>6. CASE CompareSidecar(p)
  <2>1. name' = name /\ data' = data /\ body' = body /\ pc[p] = "compare"
    BY <1>6 DEF CompareSidecar, fileVars, Keep
  <2>2. (Clean => Clean') /\ Content(Final)' = Content(Final)
    BY <1>2, <1>4, <2>1
  <2>3. pc'[p] \in {"load", "download"}
    BY <1>6, <1>3 DEF CompareSidecar
  <2>. QED  BY <2>1, <2>2, <2>3 DEF Alone
<1>7. CASE Download(p)
  <2>1. name' = name /\ data' = data
    BY <1>7 DEF Download, fileVars, Leave
  <2>2. Leave(p) \/ pc'[p] = "open_part"
    BY <1>7, <1>3 DEF Download
  <2>. QED  BY <1>2, <2>1, <2>2 DEF Alone
<1>8. CASE OpenPart(p)
  <2>1. body' = body /\ obs' = obs /\ pc'[p] = "write_part" /\ OpenFile(p, Part)
    BY <1>3, <1>8 DEF OpenPart, Keep
  <2>2. /\ Content(Part)' = Empty /\ name'[Part] = handle'[p] /\ data'[handle'[p]] = Empty
        /\ \A m \in Names \ {Part} : Content(m)' = Content(m)
    BY <1>1, <1>4, <2>1, OpenContents
  <2>3. Clean => Clean'
    BY <2>2, NamesAreDistinct, StaysClean
  <2>. QED  BY <2>1, <2>2, <2>3 DEF Alone
<1>9. CASE WritePart(p)
  <2>1. body' = body /\ obs' = obs /\ pc'[p] = "open_sidecar" /\ WriteFile(p, body[p])
        /\ pc[p] = "write_part"
    BY <1>3, <1>9 DEF WritePart, Keep
  <2>2. body[p] \in Contents /\ handle[p] \in Files /\ \A n \in Derived : name[n] # handle[p]
    BY <1>1, <2>1 DEF ProcessOK, Contents
  <2>3. name[Part] = handle[p] /\ data[handle[p]] = Empty
    BY <2>1 DEF Alone
  <2>4. Content(Part)' = body[p] /\ \A m \in Names : name[m] # handle[p] => Content(m)' = Content(m)
    BY <1>1, <1>4, <2>1, <2>2, <2>3, WriteContents
  <2>5. Clean => Clean'
    BY <2>2, <2>4, NamesAreDistinct, StaysClean
  <2>. QED  BY <2>1, <2>4, <2>5 DEF Alone
<1>10. CASE OpenPartSidecar(p)
  <2>1. body' = body /\ obs' = obs /\ pc'[p] = "write_sidecar" /\ OpenFile(p, PartSidecar)
        /\ pc[p] = "open_sidecar"
    BY <1>3, <1>10 DEF OpenPartSidecar, Keep
  <2>2. /\ Content(PartSidecar)' = Empty
        /\ \A m \in Names \ {PartSidecar} : Content(m)' = Content(m) /\ name'[m] # handle'[p]
    BY <1>1, <1>4, <2>1, OpenContents
  <2>3. Clean => Clean'
    BY <2>2, NamesAreDistinct, StaysClean
  <2>4. Content(Part)' = Content(Part) /\ name'[Part] # handle'[p]
    BY <1>4, <2>2, NamesAreDistinct
  <2>. QED  BY <2>1, <2>3, <2>4 DEF Alone
<1>11. CASE WritePartSidecar(p)
  <2>1. body' = body /\ obs' = obs /\ pc'[p] = "rename_part" /\ WriteFile(p, body[p])
        /\ pc[p] = "write_sidecar"
    BY <1>3, <1>11 DEF WritePartSidecar, Keep
  <2>2. body[p] \in Contents /\ handle[p] \in Files /\ \A n \in Derived : name[n] # handle[p]
    BY <1>1, <2>1 DEF ProcessOK, Contents
  <2>3. name[Part] # handle[p] /\ Content(Part) = body[p]
    BY <2>1 DEF Alone
  <2>4. \A m \in Names : name[m] # handle[p] => Content(m)' = Content(m)
    BY <1>1, <2>1, <2>2, WriteContents
  <2>5. Clean => Clean'
    BY <2>2, <2>4, NamesAreDistinct, StaysClean
  <2>. QED  BY <1>4, <2>1, <2>3, <2>4, <2>5 DEF Alone
<1>12. CASE RenamePart(p)
  <2>1. body' = body /\ obs' = obs /\ pc'[p] = "rename_sidecar" /\ RenameFile(Part, Final)
        /\ pc[p] = "rename_part"
    BY <1>3, <1>12 DEF RenamePart, Keep
  <2>2. /\ Content(Final)' = Content(Part)
        /\ \A m \in Names \ {Part, Final} : Content(m)' = Content(m)
    BY <1>1, <1>4, <2>1, RenameContents, NamesAreDistinct
  <2>3. Clean => Clean'
    BY <2>2, NamesAreDistinct, StaysClean
  <2>. QED  BY <2>1, <2>2, <2>3 DEF Alone
<1>13. CASE RenamePartSidecar(p)
  <2>1. body' = body /\ obs' = obs /\ pc'[p] = "load" /\ RenameFile(PartSidecar, Sidecar)
        /\ pc[p] = "rename_sidecar"
    BY <1>3, <1>13 DEF RenamePartSidecar, Keep
  <2>2. \A m \in Names \ {PartSidecar, Sidecar} : Content(m)' = Content(m)
    BY <1>1, <1>4, <2>1, RenameContents, NamesAreDistinct
  <2>3. Clean => Clean'
    BY <2>2, NamesAreDistinct, StaysClean
  <2>4. Content(Final)' = Content(Final)
    BY <1>4, <2>2, NamesAreDistinct
  <2>. QED  BY <2>1, <2>3, <2>4 DEF Alone
<1>14. CASE CacheError(p)
  BY <1>2, <1>14 DEF CacheError, Leave, fileVars
<1>15. CASE LoadEntry(p)
  <2>1. body' = body /\ data' = data /\ pc'[p] \in {"use", "read"} /\ pc[p] = "load"
    BY <1>3, <1>15 DEF LoadEntry
  <2>2. PICK key \in Derived : key = update_cache_key(body[p]) /\ key # Final
    BY <1>1, <2>1, NamesAreDistinct DEF ProcessOK
  <2>3. /\ name'[key] = name[key] \/ name'[key] = NoFile
        /\ \A n \in Names \ {key} : name'[n] = name[n]
    BY <1>1, <1>15, <2>2 DEF LoadEntry
  <2>4. /\ \A n \in Names \ {key} : Content(n)' = Content(n)
        /\ Content(key)' = Content(key) \/ Content(key)' = NoFile
    BY <2>1, <2>3 DEF Content, Exists
  <2>5. Clean => Clean'
    BY <2>4, NamesAreDistinct, StaysClean
  <2>6. Content(Final)' = Content(Final)
    BY <1>4, <2>2, <2>4
  <2>. QED  BY <2>1, <2>5, <2>6 DEF Alone
<1>16. CASE ReadArchive(p)
  <2>1. name' = name /\ data' = data /\ body' = body /\ pc[p] = "read"
    BY <1>16 DEF ReadArchive, fileVars
  <2>2. Content(Final) = body[p] /\ body[p] \in Bodies
    BY <1>1, <2>1 DEF Alone, ProcessOK
  <2>3. pc'[p] = "use" \/ (pc'[p] = "open_entry" /\ obs'[p] = body[p])
    BY <1>1, <1>3, <1>16, <2>2 DEF ReadArchive
  <2>. QED  BY <1>2, <2>1, <2>3 DEF Alone
<1>17. CASE OpenEntry(p)
  <2>1. body' = body /\ obs' = obs /\ pc'[p] = "write_entry" /\ pc[p] = "open_entry"
        /\ OpenFile(p, update_cache_tmp(body[p]))
    BY <1>3, <1>17 DEF OpenEntry, Keep
  <2>2. PICK tmp \in Names : tmp = update_cache_tmp(body[p])
    BY <1>1, <2>1, NamesAreDistinct DEF ProcessOK
  <2>3. /\ Content(tmp)' = Empty /\ name'[tmp] = handle'[p] /\ data'[handle'[p]] = Empty
        /\ \A m \in Names \ {tmp} : Content(m)' = Content(m)
    BY <1>1, <2>1, <2>2, OpenContents
  <2>4. Clean => Clean'
    BY <2>3, NamesAreDistinct, StaysClean
  <2>5. obs[p] = body[p]
    BY <2>1 DEF Alone
  <2>6. name'[update_cache_tmp(body'[p])] = handle'[p]
    BY <2>1, <2>2, <2>3
  <2>. QED  BY <2>1, <2>3, <2>4, <2>5, <2>6 DEF Alone
<1>18. CASE WriteEntry(p)
  <2>0. PICK b \in Bodies : b = body[p]
    BY <1>1, <1>18 DEF ProcessOK, WriteEntry
  <2> DEFINE e == [source |-> b, obs |-> b]
  <2>1. body' = body /\ obs' = obs /\ pc'[p] = "rename_entry" /\ pc[p] = "write_entry"
        /\ WriteFile(p, [source |-> body[p], obs |-> obs[p]])
    BY <1>3, <1>18 DEF WriteEntry, Keep
  <2>2. /\ obs[p] = b /\ name[update_cache_tmp(b)] = handle[p] /\ data[handle[p]] = Empty
    BY <2>0, <2>1 DEF Alone
  <2>3. handle[p] \in Files /\ update_cache_tmp(b) \in Names
    BY <1>1, <2>1, NamesAreDistinct DEF ProcessOK
  <2>4. e \in Contents /\ WriteFile(p, e)
    BY <2>0, <2>1, <2>2 DEF Contents, Entries
  <2>5. /\ \A m \in Names : name[m] # handle[p] => Content(m)' = Content(m)
        /\ Content(update_cache_tmp(b))' = e
    <3>. HIDE DEF e
    <3>. QED  BY <1>1, <2>2, <2>3, <2>4, WriteContents
  <2>6. \A m \in Names \ {update_cache_tmp(b)} : name[m] # handle[p]
    BY <1>1, <2>2, <2>3, NullsAssumption DEF FilesOK, Exists
  <2>7. ASSUME Clean, NEW c \in Bodies, NEW n \in {update_cache_key(c), update_cache_tmp(c)},
               Content(n)' \in Entries
        PROVE  Content(n)' = [source |-> c, obs |-> c]
    <3>1. CASE n = update_cache_tmp(b)
      <4>1. c = b
        BY <2>3, <2>7, <3>1, NamesAreDistinct
      <4>. QED  BY <2>5, <3>1, <4>1
    <3>2. CASE n # update_cache_tmp(b)
      <4>1. Content(n)' = Content(n)
        BY <2>5, <2>6, <2>7, <3>2, NamesAreDistinct
      <4>. QED  BY <2>7, <4>1 DEF Clean
    <3>. QED  BY <3>1, <3>2
  <2>8. Clean => Clean'
    BY <2>7 DEF Clean
  <2>. QED  BY <2>0, <2>1, <2>2, <2>8 DEF Alone
<1>19. CASE RenameEntry(p)
  <2>0. PICK b \in Bodies : b = body[p]
    BY <1>1, <1>19 DEF ProcessOK, RenameEntry
  <2> DEFINE key == update_cache_key(b)
             tmp == update_cache_tmp(b)
  <2>1. pc'[p] = "use" /\ pc[p] = "rename_entry" /\ RenameFile(tmp, key)
    BY <1>3, <1>19, <2>0 DEF RenameEntry
  <2>2. tmp \in Names /\ key \in Names /\ tmp # key
    BY <1>1, <2>1, NamesAreDistinct DEF ProcessOK
  <2>3. /\ Content(key)' = Content(tmp) /\ Content(tmp)' = NoFile
        /\ \A m \in Names \ {tmp, key} : Content(m)' = Content(m)
    BY <1>1, <2>1, <2>2, RenameContents
  <2>4. ASSUME Clean, NEW c \in Bodies, NEW n \in {update_cache_key(c), update_cache_tmp(c)},
               Content(n)' \in Entries
        PROVE  Content(n)' = [source |-> c, obs |-> c]
    <3>1. CASE n = key
      <4>1. c = b
        BY <2>2, <2>4, <3>1, NamesAreDistinct
      <4>. QED  BY <2>2, <2>3, <2>4, <3>1, <4>1 DEF Clean
    <3>2. CASE n = tmp
      BY <2>3, <2>4, <3>2, NullsAssumption
    <3>3. CASE n # key /\ n # tmp
      <4>1. Content(n)' = Content(n)
        BY <2>3, <2>4, <3>3, NamesAreDistinct
      <4>. QED  BY <2>4, <4>1 DEF Clean
    <3>. QED  BY <3>1, <3>2, <3>3
  <2>5. Clean => Clean'
    BY <2>4 DEF Clean
  <2>. QED  BY <2>1, <2>5 DEF Alone
<1>20. CASE SaveFails(p)
  <2>1. name' = name /\ data' = data /\ pc'[p] = "use"
    BY <1>3, <1>20 DEF SaveFails, fileVars
  <2>. QED  BY <1>2, <2>1 DEF Alone
<1>21. CASE Finish(p)
  BY <1>2, <1>21 DEF Finish, Leave, fileVars
<1>. QED
  BY <1>5, <1>6, <1>7, <1>8, <1>9, <1>10, <1>11, <1>12, <1>13, <1>14, <1>15, <1>16, <1>17,
     <1>18, <1>19, <1>20, <1>21 DEF Step

-----------------------------------------------------------------------------
(* The theorems                                                            *)

LEMMA ApartParts == ApartAreClean <=> (apart => met = {} /\ Clean)
BY DEF ApartAreClean, Clean

LEMMA NextKeepsInv ==
  ASSUME Inv, [Next]_vars
  PROVE  Inv'
<1>0. /\ TypeOK /\ FilesApart /\ RunsMeet /\ (apart => met = {} /\ Clean)
      /\ \A p \in Active \ met : Alone(p)
  BY ApartParts DEF Inv
<1>1. ASSUME TypeOK', FilesApart', RunsMeet', apart' => met' = {} /\ Clean',
             \A p \in (Active \ met)' : Alone(p)'
      PROVE  Inv'
  <2>1. ApartAreClean'
    BY <1>1 DEF ApartAreClean, Clean
  <2>2. SoloRunsAreExact'
    BY <1>1 DEF SoloRunsAreExact, Alone, Active
  <2>. QED  BY <1>1, <2>1, <2>2 DEF Inv
<1>2. ASSUME NEW p \in Procs, Step(p)
      PROVE  Inv'
  <2>1. TypeOK' /\ FilesApart'
    BY <1>0, <1>2, StepKeepsFiles
  <2>2. pc[p] # "idle" /\ p \in Active
    BY <1>0, <1>2, StepMoves DEF Active
  <2>3. p \in Active \ met => (Leave(p) \/ Alone(p)') /\ (Clean => Clean')
    BY <1>0, <1>2, AloneStep
  <2>4. CASE Leave(p)
    <3>1. RunsMeet' /\ (Active \ met)' = {} /\ apart' = apart /\ met' = met \ {p}
      BY <1>0, <2>2, <2>4, LeaveKeepsMeet
    <3>. QED  BY <1>0, <1>1, <2>1, <2>2, <2>3, <3>1
  <2>5. CASE ~Leave(p)
    <3>1. /\ pc'[p] # "idle" /\ met' = met /\ apart' = apart
          /\ \A q \in Procs \ {p} : pc'[q] = pc[q]
      BY <1>0, <1>2, <2>5, StepMoves
    <3>2. /\ RunsMeet' /\ (Active \ met)' \subseteq {p}
          /\ p \in (Active \ met)' => p \in Active \ met
      BY <1>0, <2>2, <3>1, MoveKeepsMeet
    <3>3. apart' => met' = {} /\ Clean'
      BY <1>0, <2>2, <2>3, <3>1
    <3>4. \A q \in (Active \ met)' : Alone(q)'
      BY <2>3, <2>5, <3>2
    <3>. QED  BY <1>1, <2>1, <3>2, <3>3, <3>4
  <2>. QED  BY <2>4, <2>5
<1>3. ASSUME name' = name, data' = data
      PROVE  Clean => Clean'
  BY <1>3, StaysClean DEF Content, Exists
<1>4. ASSUME NEW p \in Procs, NEW flags \in SUBSET CacheControl, Start(p, flags)
      PROVE  Inv'
  <2>1. TypeOK' /\ FilesApart'
    BY <1>0, <1>4, StartKeeps
  <2>2. RunsMeet' /\ (Active \ met)' \subseteq {p} /\ (apart' => apart /\ met' = met)
    BY <1>0, <1>4, StartKeepsMeet
  <2>3. Clean => Clean'
    BY <1>3, <1>4 DEF Start, fileVars
  <2>4. pc'[p] = "hash"
    BY <1>0, <1>4 DEF Start, Goto, TypeOK
  <2>5. Alone(p)'
    BY <2>4 DEF Alone
  <2>. QED  BY <1>0, <1>1, <2>1, <2>2, <2>3, <2>5
<1>5. ASSUME NEW p \in Procs, Crash(p)
      PROVE  Inv'
  <2>1. Leave(p) /\ pc[p] # "idle" /\ runs' = runs /\ crashes < MaxCrashes /\ crashes' = crashes + 1
    BY <1>5 DEF Crash
  <2>2. TypeOK' /\ FilesApart'
    BY <1>0, <2>1, LeaveKeeps
  <2>3. RunsMeet' /\ (Active \ met)' = {} /\ apart' = apart /\ met' = met \ {p}
    BY <1>0, <2>1, LeaveKeepsMeet
  <2>4. Clean => Clean'
    BY <1>3, <2>1 DEF Leave, fileVars
  <2>. QED  BY <1>0, <1>1, <2>2, <2>3, <2>4
<1>6. CASE UNCHANGED vars
  <2>1. UNCHANGED <<name, data, pc, handle, body, obs, mode, met, apart, runs, crashes>>
    BY <1>6 DEF vars, fileVars, procVars
  <2>. QED
    BY <2>1 DEF Inv, TypeOK, SoloRunsAreExact, FilesApart, RunsMeet, ApartAreClean, Alone, Active,
                Content, Exists
<1>. QED  BY <1>2, <1>4, <1>5, <1>6 DEF Next

LEMMA InitSatisfiesInv ==
  ASSUME Init
  PROVE  Inv
<1>1. Active = {}
  BY DEF Init, Active
<1>2. \A n \in Names : ~Exists(n) /\ Content(n) = NoFile
  BY DEF Init, Exists, Content
<1>3. TypeOK
  <2>1. apart \in BOOLEAN
    BY DEF Init
  <2>2. Empty \in Contents
    BY DEF Contents
  <2>3. runs \in 0 .. MaxRuns /\ crashes \in 0 .. MaxCrashes
    BY BoundsAssumption DEF Init
  <2>. QED  BY <1>2, <2>1, <2>2, <2>3 DEF Init, TypeOK, Steps
<1>4. FilesApart
  BY <1>2, NamesAreDistinct DEF Init, FilesApart
<1>5. ApartAreClean
  BY <1>2, NamesAreDistinct, NullsAssumption DEF Init, ApartAreClean
<1>. QED  BY <1>1, <1>3, <1>4, <1>5 DEF Inv, Init, SoloRunsAreExact, RunsMeet

\* The cache heals, for any number of processes, runs, deaths and failures of
\* file operations: whatever is in the shared directory, a run that has met no
\* other holds the body whose checksum cache_archive gave it.
THEOREM CacheHeals == Spec => []Inv
<1>1. Init => Inv
  BY InitSatisfiesInv
<1>2. Inv /\ [Next]_vars => Inv'
  BY NextKeepsInv
<1>. QED  BY <1>1, <1>2, PTL DEF Spec

\* As long as no two runs have overlapped, an entry that load_update_cache would
\* accept holds the observations of the archive it is filed under, wherever runs
\* have failed or died and whatever the source served in between.
THEOREM EntriesAreReproducible == Spec => []ApartEntriesMatchSource
<1>1. Inv => ApartEntriesMatchSource
  BY DEF Inv, ApartAreClean, ApartEntriesMatchSource, EntriesMatchSource
<1>. QED  BY <1>1, CacheHeals, PTL

=============================================================================
