------------------------------- MODULE Caches -------------------------------
(* The compiler's persistent caches: the project snapshot with its manifest, *)
(* the parsed-syntax cache, the compiler database and the runtime artifact.  *)
(* One build at a time goes through them (prepare_compiled_executable) while *)
(* the sources are edited; a build may die between any two file operations,  *)
(* and a write may fail.  An interrupted fs::write leaves a torn file;        *)
(* write_atomic leaves the old file or the new one.                          *)
EXTENDS Naturals, Sequences, FiniteSets, FiniteSetsExt

CONSTANTS
    NFiles,      \* source files of the project, in include order
    Contents,    \* what a file can hold: [procs : name -> body, decls]
    Defines,     \* sets of -D defines a build may be given
    MaxEdits,    \* bound on the edits
    MaxEngine,   \* bound on the releases of the compiler
    MaxBuilds,   \* bound on the builds
    Absent,      \* no such file, section or value
    Torn         \* a file cut off by a crash: no decoder accepts it

ASSUME CachesAssumption ==
    /\ NFiles \in Nat \ {0}
    /\ MaxEdits \in Nat
    /\ MaxEngine \in Nat
    /\ MaxBuilds \in Nat
    \* the names of the procedures, numbered in tree order
    /\ \A c \in Contents : DOMAIN c.procs \subseteq Nat /\ IsFiniteSet(DOMAIN c.procs)

VARIABLES
    disk,        \* contents of the source files
    stamp,       \* length and modification time of each file
    edits,       \* edits so far; the next fresh modification time
    engine,      \* semantics of the installed compiler
    builds,      \* builds so far
    snap,        \* project cache file
    manifest,    \* its sidecar
    syn,         \* parsed-syntax cache
    db,          \* compiler database
    artifact,    \* .d64 file
    pc,          \* where the build is
    job,         \* the build's local values
    seen,        \* history: contents of each file since the build began
    raced        \* history: a restored timestamp, or an edit during a load

files == <<disk, stamp, edits>>
caches == <<snap, manifest, syn, db, artifact>>
vars == <<files, engine, builds, caches, pc, job, seen, raced>>

File == 1..NFiles

-----------------------------------------------------------------------------
(* Front end and lowering, as functions of what they read.                   *)

(* compiler_text of a file: its contents preprocessed under the defines.     *)
Text(project, defines, i) == <<project[i], defines>>

Compile(project, defines, syntax) ==
    [project |-> project, defines |-> defines, syntax |-> syntax, engine |-> engine]

Fresh(project, defines) ==
    Compile(project, defines, [i \in File |-> Text(project, defines, i)])

(* Procedure definitions of a compilation, and their names.                  *)
Definitions(compilation) ==
    UNION {{<<n, compilation.syntax[i][1].procs[n]>> :
               n \in DOMAIN compilation.syntax[i][1].procs} : i \in File}

Names(compilation) == {d[1] : d \in Definitions(compilation)}

(* Stable ids: a name of the prior database keeps its id; the others get the *)
(* next ones in tree order.                                                  *)
NextId(ids) ==
    IF DOMAIN ids = {} THEN 0 ELSE Max({ids[n] : n \in DOMAIN ids}) + 1

AssignedInOrder(prior, names) ==
    [n \in names |-> Cardinality({m \in names : m < n})]

Assigned(prior, names) ==
    LET new == names \ DOMAIN prior
    IN  [n \in names |->
            IF n \in new THEN NextId(prior) + Cardinality({m \in new : m < n})
            ELSE prior[n]]

(* The registry numbers procedures densely in the order of their stable ids. *)
Index(ids, name) == Cardinality({m \in DOMAIN ids : ids[m] < ids[name]})

(* persistent_semantic_digest: the procedures in registry order, with their  *)
(* definitions.  Declarations of variables and types are not part of it.     *)
DigestUnordered(compilation, ids) == Definitions(compilation)

Digest(compilation, ids) ==
    {<<Index(ids, d[1]), d>> : d \in Definitions(compilation)}

(* Lowering resolves identifiers against the declared fields and globals.    *)
Lower(compilation, ids) ==
    [procs  |-> {<<Index(ids, d[1]), d>> : d \in Definitions(compilation)},
     decls  |-> [i \in File |-> compilation.syntax[i][1].decls],
     engine |-> engine]

-----------------------------------------------------------------------------
NoneSeen == [i \in File |-> {}]

NoJob == [strict |-> FALSE, allow |-> FALSE, defines |-> Absent, hit |-> FALSE,
          project |-> <<>>, compilation |-> Absent, ids |-> <<>>,
          code |-> Absent]

Init ==
    /\ disk \in [File -> Contents]
    /\ stamp = [i \in File |-> 0]
    /\ edits = 0
    /\ engine = 0
    /\ builds = 0
    /\ snap = Absent /\ manifest = Absent /\ syn = Absent
    /\ db = Absent /\ artifact = Absent
    /\ pc = "idle"
    /\ job = NoJob
    /\ seen = NoneSeen
    /\ raced = FALSE

(* The end of a build, whichever way: its local values are gone.             *)
Ended ==
    /\ job' = NoJob
    /\ seen' = NoneSeen
    /\ pc' = "idle"
    /\ UNCHANGED <<files, engine, builds, raced>>

Present(file) == file \notin {Absent, Torn}

(* A metadata hit: every recorded length and time is current, the cache file *)
(* is whole, and it was made under the same defines.  Whole encodings of     *)
(* different projects may have the same length.                              *)
Hit(defines) ==
    /\ Present(manifest)
    /\ manifest = stamp
    /\ Present(snap)
    /\ snap.defines = defines

(* load_cached_with_defines up to the decision.                              *)
Begin(strict, defines, allow) ==
    /\ pc = "idle"
    /\ builds < MaxBuilds
    /\ builds' = builds + 1
    /\ job' = [NoJob EXCEPT !.strict = strict, !.defines = defines, !.allow = allow,
                            !.hit = Hit(defines),
                            !.project = IF Hit(defines) THEN snap.project ELSE <<>>]
    /\ pc' = IF ~Hit(defines) THEN "load" ELSE IF strict THEN "verify" ELSE "select"
    /\ seen' = [i \in File |-> {disk[i]}]
    /\ UNCHANGED <<files, engine, caches, raced>>

(* current_filesystem_content_fingerprint against the cached contents.       *)
SameBytesTrusted(project) == TRUE

SameBytes(project) == project = [i \in File |-> disk[i]]

Verify ==
    /\ pc = "verify"
    /\ IF SameBytes(job.project)
       THEN pc' = "select" /\ UNCHANGED job
       ELSE /\ pc' = "load"
            /\ job' = [job EXCEPT !.hit = FALSE, !.project = <<>>]
    /\ UNCHANGED <<files, engine, builds, caches, seen, raced>>

(* Loader: the files are read one after the other.                           *)
ReadFile ==
    /\ pc = "load"
    /\ LET i == Len(job.project) + 1
       IN  /\ job' = [job EXCEPT !.project = Append(@, disk[i])]
           /\ pc' = IF i = NFiles THEN "snapshot" ELSE "load"
    /\ UNCHANGED <<files, engine, builds, caches, seen, raced>>

(* write_cached_project_best_effort: the cache file, then the manifest with  *)
(* the lengths and times the files have by then.                             *)
WriteSnapshot ==
    /\ pc = "snapshot"
    /\ snap' = [project |-> job.project, defines |-> job.defines]
    /\ pc' = "manifest"
    /\ UNCHANGED <<files, engine, builds, manifest, syn, db, artifact, job, seen, raced>>

WriteManifest ==
    /\ pc = "manifest"
    /\ manifest' = stamp
    /\ pc' = "select"
    /\ UNCHANGED <<files, engine, builds, snap, syn, db, artifact, job, seen, raced>>

(* An fs::write that does not come to its end leaves the file as it was or   *)
(* torn.                                                                     *)
CutOff ==
    /\ snap' \in IF pc = "snapshot" THEN {snap, Torn} ELSE {snap}
    /\ manifest' \in IF pc = "manifest" THEN {manifest, Torn} ELSE {manifest}
    /\ syn' \in IF pc = "syntax" THEN {syn, Torn} ELSE {syn}
    /\ UNCHANGED <<db, artifact>>

(* A failed cache write is ignored: the build goes on without it.            *)
CacheWriteFails ==
    /\ pc \in {"snapshot", "manifest", "syntax"}
    /\ CutOff
    /\ pc' = IF pc = "syntax" THEN "database" ELSE "select"
    /\ UNCHANGED <<files, engine, builds, job, seen, raced>>

-----------------------------------------------------------------------------
(* decode_compiled_executable: only after a snapshot hit.                    *)
ArtifactHit ==
    /\ job.hit
    /\ artifact # Absent
    /\ artifact.engine = engine
    /\ artifact.project = job.project
    /\ artifact.compilation.defines = job.defines

UseArtifact ==
    /\ pc = "select"
    /\ ArtifactHit
    /\ job' = [job EXCEPT !.compilation = artifact.compilation,
                          !.ids = artifact.ids, !.code = artifact.code,
                          !.strict = FALSE, !.allow = FALSE]
    /\ seen' = NoneSeen
    /\ pc' = "done"
    /\ UNCHANGED <<files, engine, builds, caches, raced>>

(* A server does not compile.                                                *)
RefuseStale ==
    /\ pc = "select"
    /\ ~ArtifactHit
    /\ ~job.allow
    /\ Ended
    /\ UNCHANGED caches

(* decode_parsed_syntax_cache: the files whose text is unchanged are reused. *)
Parsed(project, defines) ==
    [i \in File |->
        IF Present(syn) /\ syn[i] = Text(project, defines, i) THEN syn[i]
        ELSE Text(project, defines, i)]

(* An exact build and input match restores the linked section.               *)
LinkedReusableByInputs ==
    /\ db # Absent
    /\ db.inputs = job.project

LinkedReusable ==
    /\ db # Absent
    /\ db.engine = engine
    /\ db.defines = job.defines
    /\ db.inputs = job.project

(* compile_persistent_prevalidated up to its first write.                    *)
Frontend ==
    /\ pc = "select"
    /\ ~ArtifactHit
    /\ job.allow
    /\ LET syntax == Parsed(job.project, job.defines)
       IN  IF LinkedReusable
           THEN /\ job' = [job EXCEPT !.compilation = db.linked,
                                       !.strict = FALSE, !.hit = FALSE]
                /\ pc' = "link"
           ELSE /\ job' = [job EXCEPT !.compilation =
                                Compile(job.project, job.defines, syntax),
                                      !.strict = FALSE, !.hit = FALSE]
                /\ pc' = IF syn = syntax THEN "database" ELSE "syntax"
    /\ seen' = NoneSeen
    /\ UNCHANGED <<files, engine, builds, caches, raced>>

WriteSyntax ==
    /\ pc = "syntax"
    /\ syn' = job.compilation.syntax
    /\ pc' = "database"
    /\ UNCHANGED <<files, engine, builds, snap, manifest, db, artifact, job, seen, raced>>

(* persistent_database_for_compilation keeps the executable section of the   *)
(* prior database, whatever its build.                                       *)
InstallDatabase ==
    /\ pc = "database"
    /\ LET prior == IF db = Absent THEN <<>> ELSE db.ids
       IN  db' = [engine  |-> engine,
                  defines |-> job.defines,
                  inputs  |-> job.project,
                  ids     |-> Assigned(prior, Names(job.compilation)),
                  linked  |-> job.compilation,
                  exec    |-> IF db = Absent THEN Absent ELSE db.exec]
    /\ pc' = "link"
    /\ UNCHANGED <<files, engine, builds, snap, manifest, syn, artifact, job, seen, raced>>

(* The database is read back; its executable section is reused when the      *)
(* procedure digest is the same.                                             *)
Link ==
    /\ pc = "link"
    /\ LET digest == Digest(job.compilation, db.ids)
           reuse  == db.exec # Absent /\ db.exec.digest = digest
       IN  /\ job' = [job EXCEPT !.ids = db.ids,
                                 !.code = IF reuse THEN db.exec.code
                                          ELSE Lower(job.compilation, db.ids)]
           /\ pc' = IF reuse THEN "artifact" ELSE "executable"
    /\ UNCHANGED <<files, engine, builds, caches, seen, raced>>

InstallExecutable ==
    /\ pc = "executable"
    /\ db' = [db EXCEPT !.exec = [digest |-> Digest(job.compilation, job.ids),
                                  code   |-> job.code]]
    /\ pc' = "artifact"
    /\ UNCHANGED <<files, engine, builds, snap, manifest, syn, artifact, job, seen, raced>>

InstallArtifact ==
    /\ pc = "artifact"
    /\ artifact' = [engine      |-> engine,
                    project     |-> job.compilation.project,
                    compilation |-> job.compilation,
                    ids         |-> job.ids,
                    code        |-> job.code]
    /\ pc' = "done"
    /\ UNCHANGED <<files, engine, builds, snap, manifest, syn, db, job, seen, raced>>

(* A failed write_atomic leaves the old file and ends the build.             *)
InstallFails ==
    /\ pc \in {"database", "executable", "artifact"}
    /\ Ended
    /\ UNCHANGED caches

Finish ==
    /\ pc = "done"
    /\ Ended
    /\ UNCHANGED caches

-----------------------------------------------------------------------------
(* The process dies; only files survive.                                     *)
Crash ==
    /\ pc \notin {"idle", "done"}
    /\ Ended
    /\ CutOff

(* A source file is rewritten, with a new time or a restored one.  A load is *)
(* exposed from its first read until the manifest has its times; after that  *)
(* the build looks at no source, and an edit might as well come at its end.  *)
Edit(i, c, restored) ==
    /\ pc \in {"idle", "verify", "load", "snapshot", "manifest"}
    /\ edits < MaxEdits
    /\ c # disk[i]
    /\ disk' = [disk EXCEPT ![i] = c]
    /\ edits' = edits + 1
    /\ stamp' = IF restored THEN stamp ELSE [stamp EXCEPT ![i] = edits + 1]
    /\ seen' = IF pc = "idle" THEN seen ELSE [seen EXCEPT ![i] = @ \cup {c}]
    /\ raced' = (\/ raced
                 \/ restored
                 \/ pc \in {"load", "snapshot", "manifest"})
    /\ UNCHANGED <<engine, builds, caches, pc, job>>

(* A new release of the compiler, between two builds.                        *)
Upgrade ==
    /\ pc = "idle"
    /\ engine < MaxEngine
    /\ engine' = engine + 1
    /\ UNCHANGED <<files, builds, caches, pc, job, seen, raced>>

Next ==
    \/ \E strict, allow \in BOOLEAN, d \in Defines : Begin(strict, d, allow)
    \/ Verify \/ ReadFile
    \/ WriteSnapshot \/ WriteManifest \/ CacheWriteFails
    \/ UseArtifact \/ RefuseStale \/ Frontend
    \/ WriteSyntax
    \/ InstallDatabase \/ Link \/ InstallExecutable \/ InstallArtifact
    \/ InstallFails \/ Finish \/ Crash
    \/ \E i \in File, c \in Contents, restored \in BOOLEAN : Edit(i, c, restored)
    \/ Upgrade

Spec == Init /\ [][Next]_vars

-----------------------------------------------------------------------------
(* The project is loaded and the caches keyed by it are not yet consulted.   *)
Loaded == pc \in {"snapshot", "manifest", "select"}

(* The project a build works on has, file by file, contents the file had     *)
(* while the build ran: always when the bytes are verified                   *)
(* (load_cached_exact_with_fingerprint_and_defines), and in metadata mode as *)
(* long as no time was restored and nothing was edited during a load,        *)
(* whichever write of an earlier build failed or was cut off                 *)
(* (load_cached_with_defines, write_cached_project_best_effort).             *)
ProjectIsCurrent ==
    Loaded /\ (job.strict \/ ~raced) =>
        \A i \in File : job.project[i] \in seen[i]

(* What the caches give back as compilation is what compiling the loaded     *)
(* project under the build's defines gives, whether it comes from the        *)
(* artifact, the linked section or reused syntax                             *)
(* (compile_persistent_prevalidated, decode_compiled_executable).            *)
FrontEndFresh ==
    job.compilation # Absent =>
        job.compilation = Fresh(job.project, job.defines)

(* The bytecode handed out has the procedures of the compilation, each in    *)
(* the slot its stable id gives it, also when it was lowered by an earlier   *)
(* build under other ids (the digest test before an executable is reused).   *)
ExecutableFits ==
    pc = "done" => job.code.procs = Lower(job.compilation, job.ids).procs

(* A database never gives one id to two names, covers exactly the procedures *)
(* of its inputs (validate, validate_procedure_id_inventory), and a name     *)
(* that survives a build keeps its id (persistent_database_for_compilation). *)
IdsStable ==
    [][db' # db /\ db' # Absent =>
        /\ DOMAIN db'.ids = Names(db'.linked)
        /\ \A m, n \in DOMAIN db'.ids : db'.ids[m] = db'.ids[n] => m = n
        /\ db # Absent =>
            \A n \in (DOMAIN db.ids) \cap (DOMAIN db'.ids) : db'.ids[n] = db.ids[n]]_vars

(* The bytecode handed out is what this compiler makes of the compilation:   *)
(* an older release's pages, or pages lowered against other declarations,    *)
(* are not reused (dream64-compiler, persistent_semantic_digest).            *)
ExecutableIsFresh ==
    pc = "done" => job.code = Lower(job.compilation, job.ids)
=============================================================================
