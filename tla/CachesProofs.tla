---------------------------- MODULE CachesProofs ----------------------------
(***************************************************************************)
(* Proofs about the compiler's persistent caches, for any number of source *)
(* files, whatever they hold, and any numbers of edits, releases, builds   *)
(* and crashes.                                                            *)
(***************************************************************************)
EXTENDS Caches, FiniteSetTheorems, FunctionTheorems, WellFoundedInduction, TLAPS
-----------------------------------------------------------------------------
(* Stable ids.                                                             *)

(* A non-empty set of natural numbers has a least element.                 *)
LEMMA LeastNatural ==
  ASSUME NEW T \in SUBSET Nat, T # {}
  PROVE  \E x \in T : \A y \in T : x =< y
<1> DEFINE R == {ss \in Nat \X Nat : ss[1] < ss[2]}
<1>1. IsWellFoundedOn(R, Nat)
  BY NatLessThanWellFounded, Zenon DEF OpToRel
<1> HIDE DEF R
<1>2. PICK x \in T : \A y \in T : <<y, x>> \notin R
  BY <1>1, WFMin, Zenon
<1>3. ASSUME NEW y \in T PROVE x =< y
  <2>1. x \in Nat /\ y \in Nat /\ <<y, x>> \notin R
    BY <1>2
  <2> QED
    BY <2>1 DEF R
<1> QED
  BY <1>3

(* A finite set of natural numbers is bounded: one that is not, of the     *)
(* least cardinality, has an element without which it is bounded.          *)
LEMMA FiniteBounded ==
  ASSUME NEW S \in SUBSET Nat, IsFiniteSet(S)
  PROVE  \E u \in Nat : \A y \in S : y =< u
<1> DEFINE Bounded(T) == \E u \in Nat : \A y \in T : y =< u
           N == {n \in Nat : \E T \in SUBSET Nat :
                   IsFiniteSet(T) /\ Cardinality(T) = n /\ ~Bounded(T)}
<1>1. CASE N = {}
  <2>1. Cardinality(S) \in Nat
    BY FS_CardinalityType
  <2> QED
    BY <1>1, <2>1
<1>2. CASE N # {}
  <2>1. PICK n \in N : \A k \in N : n =< k
    BY <1>2, LeastNatural
  <2>2. PICK T \in SUBSET Nat : IsFiniteSet(T) /\ Cardinality(T) = n /\ ~Bounded(T)
    BY <2>1
  <2>3. PICK x \in T : TRUE
    BY <2>2
  <2>4. IsFiniteSet(T \ {x}) /\ Cardinality(T \ {x}) = n - 1
    BY <2>2, <2>3, FS_RemoveElement
  <2>5. n - 1 \in Nat /\ n \in Nat
    BY <2>1, <2>4, FS_CardinalityType
  <2>6. Bounded(T \ {x})
    <3>1. n - 1 \notin N
      BY <2>1, <2>5
    <3> QED
      BY <2>4, <2>5, <3>1
  <2>7. PICK u \in Nat : \A y \in T \ {x} : y =< u
    BY <2>6
  <2>8. u + x \in Nat /\ \A y \in T : y =< u + x
    BY <2>3, <2>7
  <2> QED
    BY <2>2, <2>8
<1> QED
  BY <1>1, <1>2

(* Max of a finite, non-empty set of natural numbers.                      *)
LEMMA MaxNatural ==
  ASSUME NEW S \in SUBSET Nat, IsFiniteSet(S), S # {}
  PROVE  Max(S) \in S /\ \A y \in S : y =< Max(S)
<1> DEFINE U == {u \in Nat : \A y \in S : y =< u}
<1>1. U # {} /\ U \in SUBSET Nat
  BY FiniteBounded
<1>2. PICK u \in U : \A v \in U : u =< v
  BY <1>1, LeastNatural
<1>3. u \in S
  <2> SUFFICES ASSUME u \notin S PROVE FALSE
    OBVIOUS
  <2>1. PICK x \in S : TRUE
    OBVIOUS
  <2>2. \A y \in S : y =< u - 1
    BY <1>2
  <2>3. u - 1 \in U
    BY <1>2, <2>1, <2>2
  <2> QED
    BY <1>2, <2>3
<1>4. \E x \in S : \A y \in S : x >= y
  BY <1>2, <1>3
<1> QED
  BY <1>4 DEF Max

(* The image of a finite set is finite.                                    *)
LEMMA RangeFinite ==
  ASSUME NEW S, IsFiniteSet(S), NEW f, DOMAIN f = S
  PROVE  IsFiniteSet({f[x] : x \in S})
<1> DEFINE T == {f[x] : x \in S}
           g == [x \in S |-> f[x]]
<1>1. g \in Surjection(S, T)
  BY Fun_IsSurj
<1> QED
  BY <1>1, FS_Surjection

(* Counting the members below n, of any set of natural numbers.            *)
LEMMA CountBelow ==
  ASSUME NEW S \in SUBSET Nat, NEW n \in S
  PROVE  /\ Cardinality({m \in S : m < n}) \in Nat
         /\ \A k \in S : k # n =>
              Cardinality({m \in S : m < k}) # Cardinality({m \in S : m < n})
<1> DEFINE B(k) == {m \in S : m < k}
<1>1. ASSUME NEW k \in S PROVE IsFiniteSet(B(k)) /\ Cardinality(B(k)) \in Nat
  <2>1. k \in Nat /\ B(k) \in SUBSET Nat
    OBVIOUS
  <2>3. \A m \in B(k) : m =< k
    OBVIOUS
  <2>2. IsFiniteSet(B(k))
    BY <2>1, <2>3, FS_BoundedSetOfNaturals
  <2> QED
    BY <2>2, FS_CardinalityType
<1>2. ASSUME NEW k \in S, NEW l \in S, k < l
      PROVE  Cardinality(B(k)) # Cardinality(B(l))
  <2>1. B(k) \in SUBSET B(l) /\ k \in B(l) /\ k \notin B(k)
    <3>1. k \in Nat /\ l \in Nat /\ \A m \in S : m \in Nat
      OBVIOUS
    <3>2. ASSUME NEW m \in B(k) PROVE m \in B(l)
      <4>1. m \in Nat /\ m < k
        BY <3>1
      <4>2. m < l
        BY <1>2, <3>1, <4>1
      <4> QED
        BY <4>2
    <3>3. k \in B(l)
      BY <1>2
    <3>4. k \notin B(k)
      BY <3>1
    <3> QED
      BY <3>2, <3>3, <3>4
  <2>2. B(k) # B(l)
    BY <2>1
  <2> QED
    BY <1>1, <2>1, <2>2, FS_Subset
<1>3. ASSUME NEW k \in S, k # n PROVE Cardinality(B(k)) # Cardinality(B(n))
  <2>1. k < n \/ n < k
    BY <1>3
  <2> QED
    BY <1>2, <2>1
<1> QED
  BY <1>1, <1>3
-----------------------------------------------------------------------------
(* The inductive invariant.                                                *)

(* Stable ids as a database holds them.                                    *)
IdsOK(ids) ==
  /\ DOMAIN ids \in SUBSET Nat /\ IsFiniteSet(DOMAIN ids)
  /\ \A n \in DOMAIN ids : ids[n] \in Nat
  /\ \A m, n \in DOMAIN ids : ids[m] = ids[n] => m = n

IsProject(project) == \A i \in File : project[i] \in Contents

(* What release e of the compiler makes of a project.                      *)
Made(project, defines, e) ==
  [project |-> project, defines |-> defines,
   syntax |-> [i \in File |-> Text(project, defines, i)], engine |-> e]

FilesOK ==
  /\ disk \in [File -> Contents] /\ seen \in [File -> SUBSET Contents]
  /\ edits \in Nat /\ stamp \in [File -> 0 .. edits]
  /\ raced \in BOOLEAN

(* The snapshot agrees with the sources wherever the manifest's times are  *)
(* current, even when the two were written by different builds.            *)
SnapOK ==
  /\ Present(manifest) => manifest \in [File -> 0 .. edits]
  /\ Present(snap) => IsProject(snap.project)
  /\ ~raced /\ Present(snap) /\ Present(manifest) =>
       \A i \in File : manifest[i] = stamp[i] => snap.project[i] = disk[i]

JobFields == {"strict", "allow", "defines", "hit", "project", "compilation", "ids", "code"}

(* The project of the build: what it has read so far and how it relates to *)
(* the sources.                                                            *)
LoadOK ==
  /\ DOMAIN job = JobFields
  /\ pc \in {"verify", "load", "snapshot", "manifest"} => \A i \in File : disk[i] \in seen[i]
  /\ pc = "load" =>
       /\ job.project \in Seq(Contents) /\ Len(job.project) < NFiles
       /\ \A i \in 1 .. Len(job.project) :
            job.project[i] \in seen[i] /\ (~raced => job.project[i] = disk[i])
  /\ pc \in {"verify", "snapshot", "manifest", "select", "syntax", "database", "link",
             "executable", "artifact"} => IsProject(job.project)
  /\ pc \in {"snapshot", "manifest"} => \A i \in File :
            job.project[i] \in seen[i] /\ (~raced => job.project[i] = disk[i])
  /\ pc = "manifest" => snap.project = job.project
  /\ ProjectIsCurrent

(* What the build has compiled and linked.                                 *)
CompileOK ==
  /\ pc \notin {"syntax", "database", "link", "executable", "artifact", "done"} =>
       job.compilation = Absent
  /\ pc \in {"syntax", "database", "link", "executable", "artifact", "done"} =>
       job.compilation = Made(job.project, job.defines, engine)
  /\ pc \in {"executable", "artifact", "done"} =>
       job.code.procs = Digest(job.compilation, job.ids)

(* The compiler database: its linked section is what its release made of   *)
(* its inputs, and its executable section has the procedures its digest    *)
(* tells.                                                                  *)
DbOK ==
  db # Absent \/ pc \in {"link", "executable"} =>
    /\ DOMAIN db = {"engine", "defines", "inputs", "ids", "linked", "exec"}
    /\ IsProject(db.inputs)
    /\ db.linked = Made(db.inputs, db.defines, db.engine)
    /\ IdsOK(db.ids) /\ DOMAIN db.ids = Names(db.linked)
    /\ db.exec # Absent => db.exec.code.procs = db.exec.digest

ArtifactOK ==
  artifact # Absent =>
    /\ artifact.compilation =
         Made(artifact.project, artifact.compilation.defines, artifact.engine)
    /\ artifact.code.procs = Digest(artifact.compilation, artifact.ids)

CachesInv == FilesOK /\ SnapOK /\ LoadOK /\ CompileOK /\ DbOK /\ ArtifactOK
-----------------------------------------------------------------------------
(* Names and identities.                                                   *)

(* A project defines finitely many procedures.                             *)
LEMMA NamesFinite ==
  ASSUME NEW p, IsProject(p), NEW d, NEW e
  PROVE  Names(Made(p, d, e)) \in SUBSET Nat /\ IsFiniteSet(Names(Made(p, d, e)))
<1> DEFINE procs == [i \in File |-> DOMAIN p[i].procs]
           all == {procs[i] : i \in File}
<1>1. \A i \in File : procs[i] \in SUBSET Nat /\ IsFiniteSet(procs[i])
  BY CachesAssumption DEF IsProject
<1>2. IsFiniteSet(File)
  BY CachesAssumption, FS_Interval DEF File
<1>3. DOMAIN procs = File
  OBVIOUS
<1> HIDE DEF procs
<1>4. IsFiniteSet(all)
  BY <1>2, <1>3, RangeFinite
<1>5. IsFiniteSet(UNION all)
  BY <1>1, <1>4, FS_UNION
<1>6. \A i \in File : Made(p, d, e).syntax[i][1] = p[i]
  BY DEF Made, Text
<1>7. Names(Made(p, d, e)) = UNION all
  <2> DEFINE c == Made(p, d, e)
  <2>3. \A t : t \in Definitions(c) <=>
          \E i \in File : \E n \in DOMAIN p[i].procs : t = <<n, p[i].procs[n]>>
    <3>1. Definitions(c) = UNION {{<<n, p[i].procs[n]>> : n \in DOMAIN p[i].procs} : i \in File}
      BY <1>6 DEF Definitions
    <3> QED
      BY <3>1
  <2> HIDE DEF c
  <2>1. \A n : n \in Names(c) <=> \E i \in File : n \in DOMAIN p[i].procs
    <3> SUFFICES ASSUME NEW n
                 PROVE  n \in Names(c) <=> \E i \in File : n \in DOMAIN p[i].procs
      OBVIOUS
    <3>1. ASSUME n \in Names(c) PROVE \E i \in File : n \in DOMAIN p[i].procs
      <4>1. PICK t \in Definitions(c) : n = t[1]
        BY <3>1 DEF Names
      <4>2. PICK i \in File : \E k \in DOMAIN p[i].procs : t = <<k, p[i].procs[k]>>
        BY <2>3, <4>1
      <4> QED
        BY <4>1, <4>2
    <3>2. ASSUME NEW i \in File, n \in DOMAIN p[i].procs PROVE n \in Names(c)
      <4>1. <<n, p[i].procs[n]>> \in Definitions(c)
        BY <2>3, <3>2
      <4> QED
        BY <4>1 DEF Names
    <3> QED
      BY <3>1, <3>2
  <2>2. \A n : n \in UNION all <=> \E i \in File : n \in DOMAIN p[i].procs
    BY DEF procs
  <2> QED
    BY <2>1, <2>2 DEF c
<1> QED
  BY <1>1, <1>5, <1>7

(* persistent_database_for_compilation: a name keeps the id the prior      *)
(* database gave it and the others get ids no name has.                    *)
LEMMA AssignedFacts ==
  ASSUME NEW prior, IdsOK(prior), NEW names \in SUBSET Nat, IsFiniteSet(names)
  PROVE  /\ IdsOK(Assigned(prior, names))
         /\ DOMAIN Assigned(prior, names) = names
         /\ \A n \in names \cap (DOMAIN prior) : Assigned(prior, names)[n] = prior[n]
<1> DEFINE new == names \ DOMAIN prior
           rank(n) == Cardinality({m \in new : m < n})
           ids == Assigned(prior, names)
           D == DOMAIN prior
<1>1. /\ DOMAIN ids = names
      /\ \A n \in new : ids[n] = NextId(prior) + rank(n)
      /\ \A n \in names \cap D : ids[n] = prior[n]
  BY DEF Assigned
<1>2. new \in SUBSET Nat
  OBVIOUS
<1>3. \A n \in new : rank(n) \in Nat /\ \A k \in new : k # n => rank(k) # rank(n)
  BY <1>2, CountBelow
<1>4. NextId(prior) \in Nat /\ \A n \in D : prior[n] < NextId(prior)
  <2>1. CASE D = {}
    BY <2>1 DEF NextId
  <2>2. CASE D # {}
    <3> DEFINE S == {prior[n] : n \in D}
    <3>1. S \in SUBSET Nat /\ S # {} /\ IsFiniteSet(S)
      BY <2>2, RangeFinite DEF IdsOK
    <3>2. NextId(prior) = Max(S) + 1
      BY <2>2 DEF NextId
    <3>3. \A n \in D : prior[n] \in S
      OBVIOUS
    <3> HIDE DEF S
    <3>4. Max(S) \in S /\ \A y \in S : y =< Max(S)
      BY <3>1, MaxNatural
    <3> DEFINE top == Max(S)
    <3>5. top \in Nat /\ NextId(prior) = top + 1
      BY <3>1, <3>2, <3>4
    <3>6. \A n \in D : prior[n] =< top /\ prior[n] \in Nat
      BY <3>1, <3>3, <3>4
    <3> HIDE DEF top
    <3> QED
      BY <3>5, <3>6
  <2> QED
    BY <2>1, <2>2
<1> HIDE DEF rank, ids
<1>5. ASSUME NEW n \in names PROVE ids[n] \in Nat
  <2>1. CASE n \in D
    BY <1>1, <2>1 DEF IdsOK
  <2>2. CASE n \notin D
    BY <1>1, <1>3, <1>4, <2>2
  <2> QED
    BY <2>1, <2>2
<1>6. ASSUME NEW m \in names, NEW n \in names, ids[m] = ids[n] PROVE m = n
  <2>1. CASE m \in D /\ n \in D
    BY <1>1, <1>6, <2>1 DEF IdsOK
  <2>2. CASE m \in new /\ n \in new
    <3>1. rank(m) = rank(n)
      BY <1>1, <1>3, <1>4, <1>6, <2>2
    <3> QED
      BY <1>3, <2>2, <3>1
  <2>3. \A k, l \in names : k \in D /\ l \in new => ids[k] # ids[l]
    <3> SUFFICES ASSUME NEW k \in names, NEW l \in names, k \in D, l \in new
                 PROVE  ids[k] # ids[l]
      OBVIOUS
    <3>1. ids[k] = prior[k] /\ prior[k] \in Nat /\ prior[k] < NextId(prior)
      BY <1>1, <1>4 DEF IdsOK
    <3>2. ids[l] = NextId(prior) + rank(l) /\ rank(l) \in Nat
      BY <1>1, <1>3
    <3> QED
      BY <1>4, <3>1, <3>2
  <2> QED
    BY <1>6, <2>1, <2>2, <2>3
<1>7. IdsOK(ids)
  BY <1>1, <1>5, <1>6 DEF IdsOK
<1> QED
  BY <1>1, <1>7 DEF ids

(* Reused syntax is what parsing the file again gives.                     *)
LEMMA ParsedFacts ==
  ASSUME NEW p, NEW d
  PROVE  Compile(p, d, Parsed(p, d)) = Made(p, d, engine)
<1>1. Parsed(p, d) = [i \in File |-> Text(p, d, i)]
  BY DEF Parsed
<1> QED
  BY <1>1 DEF Compile, Made
-----------------------------------------------------------------------------
(* The files: loads, snapshots and edits.                                  *)

(* A write that does not come to its end leaves nothing a decoder accepts  *)
(* or what was there.                                                      *)
LEMMA CutOffSnap ==
  ASSUME CachesInv, CutOff, UNCHANGED <<disk, stamp, edits, raced>>
  PROVE  SnapOK'
<1>1. snap' \in {snap, Torn} /\ manifest' \in {manifest, Torn}
  BY DEF CutOff
<1> QED
  BY <1>1 DEF CachesInv, SnapOK, Present

(* The end of a build leaves its files to the next one.                    *)
LEMMA EndedInv ==
  ASSUME CachesInv, Ended, SnapOK', db' = db, artifact' = artifact
  PROVE  CachesInv'
<1>1. /\ job' = NoJob /\ seen' = NoneSeen /\ pc' = "idle"
      /\ UNCHANGED <<disk, stamp, edits, engine, builds, raced>>
  BY DEF Ended, files
<1>2. NoneSeen \in [File -> SUBSET Contents]
  BY DEF NoneSeen
<1>3. FilesOK'
  BY <1>1, <1>2 DEF CachesInv, FilesOK
<1>4. DOMAIN NoJob = JobFields /\ NoJob.compilation = Absent
  BY DEF NoJob, JobFields
<1>5. LoadOK'
  BY <1>1, <1>4 DEF LoadOK, ProjectIsCurrent, Loaded
<1>6. CompileOK'
  BY <1>1, <1>4 DEF CompileOK
<1>7. DbOK' /\ ArtifactOK'
  BY <1>1 DEF CachesInv, DbOK, ArtifactOK
<1> QED
  BY <1>3, <1>5, <1>6, <1>7 DEF CachesInv

LEMMA BeginInv ==
  ASSUME CachesInv, NEW strict \in BOOLEAN, NEW allow \in BOOLEAN, NEW d \in Defines,
         Begin(strict, d, allow)
  PROVE  CachesInv'
<1>1. /\ pc = "idle"
      /\ job' = [NoJob EXCEPT !.strict = strict, !.defines = d, !.allow = allow,
                              !.hit = Hit(d),
                              !.project = IF Hit(d) THEN snap.project ELSE <<>>]
      /\ pc' = IF ~Hit(d) THEN "load" ELSE IF strict THEN "verify" ELSE "select"
      /\ seen' = [i \in File |-> {disk[i]}]
      /\ UNCHANGED <<disk, stamp, edits, engine, snap, manifest, syn, db, artifact, raced>>
  BY DEF Begin, files, caches
<1>2. /\ DOMAIN job' = JobFields /\ job'.strict = strict
      /\ job'.project = IF Hit(d) THEN snap.project ELSE <<>>
      /\ job'.compilation = Absent
  BY <1>1 DEF NoJob, JobFields
<1>3. FilesOK' /\ \A i \in File : disk'[i] \in seen'[i]
  BY <1>1 DEF CachesInv, FilesOK
<1>4. SnapOK'
  BY <1>1 DEF CachesInv, SnapOK
<1>5. LoadOK'
  <2>1. CASE Hit(d)
    <3>1. /\ Present(snap) /\ Present(manifest) /\ manifest = stamp
          /\ IsProject(snap.project)
          /\ ~raced => \A i \in File : snap.project[i] = disk[i]
      BY <2>1 DEF Hit, CachesInv, SnapOK
    <3>2. pc' = IF strict THEN "verify" ELSE "select"
      BY <1>1, <2>1
    <3>3. ProjectIsCurrent'
      BY <1>1, <1>2, <2>1, <3>1, <3>2 DEF ProjectIsCurrent, Loaded
    <3> QED
      BY <1>1, <1>2, <1>3, <2>1, <3>1, <3>2, <3>3 DEF LoadOK, IsProject
  <2>2. CASE ~Hit(d)
    <3>1. pc' = "load" /\ job'.project = <<>>
      BY <1>1, <1>2, <2>2
    <3>2. job'.project \in Seq(Contents) /\ Len(job'.project) = 0 /\ 0 < NFiles
      BY <3>1, CachesAssumption
    <3>3. ProjectIsCurrent'
      BY <3>1 DEF ProjectIsCurrent, Loaded
    <3> QED
      BY <1>2, <1>3, <3>1, <3>2, <3>3 DEF LoadOK
  <2> QED
    BY <2>1, <2>2
<1>6. CompileOK'
  BY <1>1, <1>2 DEF CompileOK
<1>7. DbOK' /\ ArtifactOK'
  BY <1>1 DEF CachesInv, DbOK, ArtifactOK
<1> QED
  BY <1>3, <1>4, <1>5, <1>6, <1>7 DEF CachesInv

(* A verified project is the one on disk.                                  *)
LEMMA VerifyInv ==
  ASSUME CachesInv, Verify
  PROVE  CachesInv'
<1>1. /\ pc = "verify"
      /\ UNCHANGED <<disk, stamp, edits, engine, snap, manifest, syn, db, artifact, seen, raced>>
      /\ \/ SameBytes(job.project) /\ pc' = "select" /\ job' = job
         \/ pc' = "load" /\ job' = [job EXCEPT !.hit = FALSE, !.project = <<>>]
  BY DEF Verify, files, caches
<1>2. FilesOK' /\ SnapOK' /\ DbOK' /\ ArtifactOK'
  BY <1>1 DEF CachesInv, FilesOK, SnapOK, DbOK, ArtifactOK
<1>3. /\ DOMAIN job = JobFields /\ IsProject(job.project) /\ job.compilation = Absent
      /\ \A i \in File : disk[i] \in seen[i]
  BY <1>1 DEF CachesInv, LoadOK, CompileOK
<1>4. CASE SameBytes(job.project) /\ pc' = "select" /\ job' = job
  <2>1. \A i \in File : job.project[i] \in seen[i]
    BY <1>3, <1>4 DEF SameBytes
  <2>2. LoadOK'
    BY <1>1, <1>3, <1>4, <2>1 DEF LoadOK, ProjectIsCurrent, IsProject
  <2>3. CompileOK'
    BY <1>3, <1>4 DEF CompileOK
  <2> QED
    BY <1>2, <2>2, <2>3 DEF CachesInv
<1>5. CASE pc' = "load" /\ job' = [job EXCEPT !.hit = FALSE, !.project = <<>>]
  <2>1. DOMAIN job' = JobFields /\ job'.project = <<>> /\ job'.compilation = Absent
    BY <1>3, <1>5 DEF JobFields
  <2>2. job'.project \in Seq(Contents) /\ Len(job'.project) = 0 /\ 0 < NFiles
    BY <2>1, CachesAssumption
  <2>3. LoadOK'
    BY <1>1, <1>3, <1>5, <2>1, <2>2 DEF LoadOK, ProjectIsCurrent, Loaded
  <2>4. CompileOK'
    BY <1>5, <2>1 DEF CompileOK
  <2> QED
    BY <1>2, <2>3, <2>4 DEF CachesInv
<1> QED
  BY <1>1, <1>4, <1>5

LEMMA ReadFileInv ==
  ASSUME CachesInv, ReadFile
  PROVE  CachesInv'
<1> DEFINE n == Len(job.project) + 1
<1>1. /\ pc = "load"
      /\ job' = [job EXCEPT !.project = Append(@, disk[n])]
      /\ pc' = IF n = NFiles THEN "snapshot" ELSE "load"
      /\ UNCHANGED <<disk, stamp, edits, engine, snap, manifest, syn, db, artifact, seen, raced>>
  BY DEF ReadFile, files, caches
<1>2. FilesOK' /\ SnapOK' /\ DbOK' /\ ArtifactOK'
  BY <1>1 DEF CachesInv, FilesOK, SnapOK, DbOK, ArtifactOK
<1>3. /\ DOMAIN job = JobFields /\ job.compilation = Absent
      /\ job.project \in Seq(Contents) /\ Len(job.project) < NFiles
      /\ \A i \in 1 .. n - 1 :
           job.project[i] \in seen[i] /\ (~raced => job.project[i] = disk[i])
      /\ \A i \in File : disk[i] \in seen[i]
  BY <1>1 DEF CachesInv, LoadOK, CompileOK
<1>4. n \in File /\ n - 1 \in Nat /\ File = 1 .. NFiles /\ NFiles \in Nat
      /\ disk[n] \in Contents
  <2>1. n \in File /\ n - 1 \in Nat /\ File = 1 .. NFiles /\ NFiles \in Nat
    BY <1>3, CachesAssumption DEF File
  <2> QED
    BY <2>1 DEF CachesInv, FilesOK
<1>5. /\ DOMAIN job' = JobFields /\ job'.compilation = Absent
      /\ job'.project = Append(job.project, disk[n])
  BY <1>1, <1>3 DEF JobFields
<1>6. /\ job'.project \in Seq(Contents) /\ Len(job'.project) = n
      /\ \A i \in 1 .. n - 1 : job'.project[i] = job.project[i]
      /\ job'.project[n] = disk[n]
  BY <1>3, <1>4, <1>5
<1>7. \A i \in 1 .. n : job'.project[i] \in Contents
  BY <1>6
<1> HIDE DEF n
<1>8. \A i \in 1 .. n :
        job'.project[i] \in seen[i] /\ (~raced => job'.project[i] = disk[i])
  <2>1. \A i \in 1 .. n : i = n \/ i \in 1 .. n - 1
    BY <1>4
  <2> QED
    BY <1>3, <1>4, <1>6, <2>1
<1>9. LoadOK'
  <2>1. CASE n = NFiles
    <3>1. pc' = "snapshot" /\ File = 1 .. n
      BY <1>1, <1>4, <2>1
    <3>2. IsProject(job'.project)
      BY <1>7, <3>1 DEF IsProject
    <3> QED
      BY <1>1, <1>3, <1>5, <1>8, <3>1, <3>2 DEF LoadOK, ProjectIsCurrent
  <2>2. CASE n # NFiles
    <3>1. pc' = "load" /\ n < NFiles
      BY <1>1, <1>4, <2>2 DEF File
    <3> QED
      BY <1>1, <1>3, <1>5, <1>6, <1>8, <3>1 DEF LoadOK, ProjectIsCurrent, Loaded
  <2> QED
    BY <2>1, <2>2
<1>10. CompileOK'
  BY <1>1, <1>5 DEF CompileOK
<1> QED
  BY <1>2, <1>9, <1>10 DEF CachesInv

LEMMA WriteSnapshotInv ==
  ASSUME CachesInv, WriteSnapshot
  PROVE  CachesInv'
<1>1. /\ pc = "snapshot" /\ pc' = "manifest"
      /\ snap' = [project |-> job.project, defines |-> job.defines]
      /\ UNCHANGED <<disk, stamp, edits, engine, manifest, syn, db, artifact, job, seen, raced>>
  BY DEF WriteSnapshot, files
<1>2. /\ IsProject(job.project)
      /\ \A i \in File : job.project[i] \in seen[i] /\ (~raced => job.project[i] = disk[i])
      /\ snap'.project = job.project
  BY <1>1 DEF CachesInv, LoadOK
<1>3. SnapOK'
  BY <1>1, <1>2 DEF CachesInv, SnapOK
<1>4. FilesOK' /\ DbOK' /\ ArtifactOK' /\ CompileOK'
  BY <1>1 DEF CachesInv, FilesOK, DbOK, ArtifactOK, CompileOK
<1>5. LoadOK'
  BY <1>1, <1>2 DEF CachesInv, LoadOK, ProjectIsCurrent
<1> QED
  BY <1>3, <1>4, <1>5 DEF CachesInv

LEMMA WriteManifestInv ==
  ASSUME CachesInv, WriteManifest
  PROVE  CachesInv'
<1>1. /\ pc = "manifest" /\ pc' = "select" /\ manifest' = stamp
      /\ UNCHANGED <<disk, stamp, edits, engine, snap, syn, db, artifact, job, seen, raced>>
  BY DEF WriteManifest, files
<1>2. /\ IsProject(job.project)
      /\ \A i \in File : job.project[i] \in seen[i] /\ (~raced => job.project[i] = disk[i])
      /\ snap.project = job.project
  BY <1>1 DEF CachesInv, LoadOK
<1>3. SnapOK'
  BY <1>1, <1>2 DEF CachesInv, SnapOK, FilesOK
<1>4. FilesOK' /\ DbOK' /\ ArtifactOK' /\ CompileOK'
  BY <1>1 DEF CachesInv, FilesOK, DbOK, ArtifactOK, CompileOK
<1>5. LoadOK'
  BY <1>1, <1>2 DEF CachesInv, LoadOK, ProjectIsCurrent
<1> QED
  BY <1>3, <1>4, <1>5 DEF CachesInv

LEMMA CacheWriteFailsInv ==
  ASSUME CachesInv, CacheWriteFails
  PROVE  CachesInv'
<1>1. /\ pc \in {"snapshot", "manifest", "syntax"} /\ CutOff
      /\ pc' = IF pc = "syntax" THEN "database" ELSE "select"
      /\ UNCHANGED <<disk, stamp, edits, engine, db, artifact, job, seen, raced>>
  BY DEF CacheWriteFails, CutOff, files
<1>2. SnapOK'
  BY <1>1, CutOffSnap
<1>3. FilesOK' /\ DbOK' /\ ArtifactOK' /\ CompileOK'
  BY <1>1 DEF CachesInv, FilesOK, DbOK, ArtifactOK, CompileOK
<1>4. LoadOK'
  <2>1. pc' \in {"database", "select"} /\ IsProject(job.project) /\ DOMAIN job = JobFields
    BY <1>1 DEF CachesInv, LoadOK
  <2>2. pc' = "select" =>
          \A i \in File : job.project[i] \in seen[i]
    BY <1>1 DEF CachesInv, LoadOK
  <2> QED
    BY <1>1, <2>1, <2>2 DEF LoadOK, ProjectIsCurrent, Loaded
<1> QED
  BY <1>2, <1>3, <1>4 DEF CachesInv

(* An edit that keeps its time, or comes during a load, is a race; any     *)
(* other gives the file a time no manifest has.                            *)
LEMMA EditInv ==
  ASSUME CachesInv, NEW f \in File, NEW c \in Contents, NEW restored \in BOOLEAN,
         Edit(f, c, restored)
  PROVE  CachesInv'
<1>1. /\ pc \in {"idle", "verify", "load", "snapshot", "manifest"}
      /\ disk' = [disk EXCEPT ![f] = c]
      /\ edits' = edits + 1
      /\ stamp' = IF restored THEN stamp ELSE [stamp EXCEPT ![f] = edits + 1]
      /\ seen' = IF pc = "idle" THEN seen ELSE [seen EXCEPT ![f] = @ \cup {c}]
      /\ raced' = (raced \/ restored \/ pc \in {"load", "snapshot", "manifest"})
      /\ UNCHANGED <<engine, snap, manifest, syn, db, artifact, pc, job>>
  BY DEF Edit, caches
<1>2. /\ disk \in [File -> Contents] /\ seen \in [File -> SUBSET Contents]
      /\ edits \in Nat /\ stamp \in [File -> 0 .. edits] /\ raced \in BOOLEAN
  BY DEF CachesInv, FilesOK
<1>3. /\ disk' \in [File -> Contents] /\ disk'[f] = c
      /\ \A i \in File : i # f => disk'[i] = disk[i]
  BY <1>1, <1>2
<1>4. /\ seen' \in [File -> SUBSET Contents]
      /\ \A i \in File : seen[i] \subseteq seen'[i]
      /\ pc # "idle" => c \in seen'[f]
  BY <1>1, <1>2
<1>5. /\ stamp' \in [File -> 0 .. edits'] /\ edits' \in Nat
      /\ ~restored => stamp'[f] = edits + 1
      /\ \A i \in File : i # f => stamp'[i] = stamp[i]
  <2>1. edits + 1 \in Nat /\ 0 .. edits \subseteq 0 .. edits + 1 /\ edits + 1 \in 0 .. edits + 1
    BY <1>2
  <2>2. CASE restored
    BY <1>1, <1>2, <2>1, <2>2
  <2>3. CASE ~restored
    BY <1>1, <1>2, <2>1, <2>3
  <2> QED
    BY <2>2, <2>3
<1>6. raced' \in BOOLEAN
  BY <1>1
<1>7. FilesOK'
  BY <1>3, <1>4, <1>5, <1>6 DEF FilesOK
<1>8. SnapOK'
  <2>1. Present(manifest) => manifest \in [File -> 0 .. edits] /\ manifest \in [File -> 0 .. edits']
    <3>1. 0 .. edits \subseteq 0 .. edits'
      BY <1>1, <1>2
    <3> QED
      BY <3>1 DEF CachesInv, SnapOK
  <2>2. ASSUME ~raced', Present(snap), Present(manifest), NEW i \in File,
               manifest[i] = stamp'[i]
        PROVE  snap.project[i] = disk'[i]
    <3>1. ~raced /\ ~restored
      BY <1>1, <2>2
    <3>2. i # f
      <4>1. manifest[f] \in 0 .. edits
        BY <2>1, <2>2
      <4>2. manifest[f] # edits + 1
        BY <1>2, <4>1
      <4> QED
        BY <1>5, <2>2, <3>1, <4>2
    <3> QED
      BY <1>3, <1>5, <2>2, <3>1, <3>2 DEF CachesInv, SnapOK
  <2> QED
    BY <1>1, <2>1, <2>2 DEF CachesInv, SnapOK, Present
<1>9. LoadOK'
  <2>1. pc' = pc /\ job' = job /\ snap' = snap /\ pc # "select"
    BY <1>1
  <2>2. pc \in {"load", "snapshot", "manifest"} => raced'
    BY <1>1
  <2>3. pc \in {"verify", "load", "snapshot", "manifest"} =>
          \A i \in File : disk'[i] \in seen'[i]
    BY <1>3, <1>4 DEF CachesInv, LoadOK
  <2>4. pc = "load" => \A i \in 1 .. Len(job.project) : i \in File
    BY CachesAssumption DEF CachesInv, LoadOK, File
  <2> QED
    BY <1>4, <2>1, <2>2, <2>3, <2>4 DEF CachesInv, LoadOK, ProjectIsCurrent, Loaded
<1>10. CompileOK' /\ DbOK' /\ ArtifactOK'
  BY <1>1 DEF CachesInv, CompileOK, DbOK, ArtifactOK
<1> QED
  BY <1>7, <1>8, <1>9, <1>10 DEF CachesInv

LEMMA UpgradeInv ==
  ASSUME CachesInv, Upgrade
  PROVE  CachesInv'
<1>1. /\ pc = "idle"
      /\ UNCHANGED <<disk, stamp, edits, snap, manifest, syn, db, artifact, pc, job, seen, raced>>
  BY DEF Upgrade, files, caches
<1>2. FilesOK' /\ SnapOK' /\ DbOK' /\ ArtifactOK'
  BY <1>1 DEF CachesInv, FilesOK, SnapOK, DbOK, ArtifactOK
<1>3. LoadOK' /\ CompileOK'
  BY <1>1 DEF CachesInv, LoadOK, CompileOK, ProjectIsCurrent, Loaded
<1> QED
  BY <1>2, <1>3 DEF CachesInv
-----------------------------------------------------------------------------
(* Compilation: the artifact, the database and the executable.             *)

(* What the steps of a compilation leave alone, and the locals of a build. *)
LEMMA CompileFrame ==
  ASSUME CachesInv, UNCHANGED <<disk, stamp, edits, snap, manifest, raced>>,
         seen' = seen \/ seen' = NoneSeen
  PROVE  FilesOK' /\ SnapOK'
<1>1. NoneSeen \in [File -> SUBSET Contents]
  BY DEF NoneSeen
<1>2. FilesOK'
  BY <1>1 DEF CachesInv, FilesOK
<1> QED
  BY <1>2 DEF CachesInv, SnapOK

LEMMA UseArtifactInv ==
  ASSUME CachesInv, UseArtifact
  PROVE  CachesInv'
<1>1. /\ pc = "select" /\ pc' = "done" /\ ArtifactHit /\ seen' = NoneSeen
      /\ job' = [job EXCEPT !.compilation = artifact.compilation,
                            !.ids = artifact.ids, !.code = artifact.code,
                            !.strict = FALSE, !.allow = FALSE]
      /\ UNCHANGED <<disk, stamp, edits, engine, snap, manifest, db, artifact, raced>>
  BY DEF UseArtifact, files, caches
<1>2. FilesOK' /\ SnapOK'
  BY <1>1, CompileFrame
<1>3. DOMAIN job = JobFields
  BY DEF CachesInv, LoadOK
<1>4. /\ DOMAIN job' = JobFields
      /\ job'.project = job.project /\ job'.defines = job.defines
      /\ job'.compilation = artifact.compilation
      /\ job'.ids = artifact.ids /\ job'.code = artifact.code
  BY <1>1, <1>3 DEF JobFields
<1>5. /\ artifact.compilation = Made(job.project, job.defines, engine)
      /\ artifact.code.procs = Digest(artifact.compilation, artifact.ids)
  BY <1>1 DEF ArtifactHit, CachesInv, ArtifactOK
<1>6. LoadOK'
  BY <1>1, <1>4 DEF LoadOK, ProjectIsCurrent, Loaded
<1>7. CompileOK'
  <2>1. job'.compilation = Made(job'.project, job'.defines, engine')
    BY <1>1, <1>4, <1>5
  <2>2. job'.code.procs = Digest(job'.compilation, job'.ids)
    BY <1>4, <1>5
  <2>3. Digest(job.compilation, job.ids)' = Digest(job'.compilation, job'.ids)
    BY DEF Digest, Index, Definitions
  <2> QED
    BY <1>1, <2>1, <2>2, <2>3 DEF CompileOK
<1>8. DbOK' /\ ArtifactOK'
  BY <1>1 DEF CachesInv, DbOK, ArtifactOK
<1> QED
  BY <1>2, <1>6, <1>7, <1>8 DEF CachesInv

LEMMA RefuseStaleInv ==
  ASSUME CachesInv, RefuseStale
  PROVE  CachesInv'
<1>1. Ended /\ UNCHANGED <<disk, stamp, edits, raced, snap, manifest, db, artifact>>
  BY DEF RefuseStale, Ended, files, caches
<1>2. SnapOK'
  BY <1>1 DEF CachesInv, SnapOK
<1> QED
  BY <1>1, <1>2, EndedInv

LEMMA FrontendInv ==
  ASSUME CachesInv, Frontend
  PROVE  CachesInv'
<1> DEFINE syntax == Parsed(job.project, job.defines)
           comp == IF LinkedReusable THEN db.linked
                   ELSE Compile(job.project, job.defines, syntax)
<1>1. /\ pc = "select" /\ seen' = NoneSeen
      /\ job' = [job EXCEPT !.compilation = comp, !.strict = FALSE, !.hit = FALSE]
      /\ LinkedReusable => pc' = "link"
      /\ ~LinkedReusable => pc' \in {"database", "syntax"}
      /\ UNCHANGED <<disk, stamp, edits, engine, snap, manifest, db, artifact, raced>>
  BY DEF Frontend, files, caches
<1>2. comp = Made(job.project, job.defines, engine)
  <2>1. CASE LinkedReusable
    BY <2>1 DEF LinkedReusable, CachesInv, DbOK
  <2>2. CASE ~LinkedReusable
    BY <2>2, ParsedFacts
  <2> QED
    BY <2>1, <2>2
<1> HIDE DEF comp
<1>3. FilesOK' /\ SnapOK'
  BY <1>1, CompileFrame
<1>4. DOMAIN job = JobFields /\ IsProject(job.project)
  BY <1>1 DEF CachesInv, LoadOK
<1>5. /\ DOMAIN job' = JobFields /\ job'.compilation = comp
      /\ job'.project = job.project /\ job'.defines = job.defines
  BY <1>1, <1>4 DEF JobFields
<1>6. pc' \in {"link", "database", "syntax"}
  BY <1>1
<1>7. LoadOK'
  BY <1>4, <1>5, <1>6 DEF LoadOK, ProjectIsCurrent, Loaded, IsProject
<1>8. CompileOK'
  BY <1>1, <1>2, <1>5, <1>6 DEF CompileOK, Made, Text
<1>9. DbOK' /\ ArtifactOK'
  BY <1>1 DEF CachesInv, DbOK, ArtifactOK, LinkedReusable
<1> QED
  BY <1>3, <1>7, <1>8, <1>9 DEF CachesInv

LEMMA WriteSyntaxInv ==
  ASSUME CachesInv, WriteSyntax
  PROVE  CachesInv'
<1>1. /\ pc = "syntax" /\ pc' = "database"
      /\ UNCHANGED <<disk, stamp, edits, engine, snap, manifest, db, artifact, job, seen, raced>>
  BY DEF WriteSyntax, files
<1>2. FilesOK' /\ SnapOK'
  BY <1>1, CompileFrame
<1>3. LoadOK' /\ CompileOK' /\ DbOK' /\ ArtifactOK'
  BY <1>1 DEF CachesInv, LoadOK, ProjectIsCurrent, Loaded, CompileOK, DbOK, ArtifactOK
<1> QED
  BY <1>2, <1>3 DEF CachesInv

(* The ids of the database a build installs: those of the one before it,   *)
(* extended to the procedures of the compilation.                          *)
LEMMA InstalledIds ==
  ASSUME CachesInv, pc = "database",
         NEW prior, prior = IF db = Absent THEN <<>> ELSE db.ids,
         NEW ids, ids = Assigned(prior, Names(job.compilation))
  PROVE  /\ IdsOK(ids) /\ DOMAIN ids = Names(job.compilation)
         /\ db # Absent => \A n \in (DOMAIN db.ids) \cap (DOMAIN ids) : ids[n] = db.ids[n]
<1>1. IdsOK(prior)
  <2>1. CASE db = Absent
    <3>1. prior = <<>> /\ DOMAIN prior = {}
      BY <2>1
    <3> QED
      BY <3>1, FS_EmptySet DEF IdsOK
  <2>2. CASE db # Absent
    BY <2>2 DEF CachesInv, DbOK
  <2> QED
    BY <2>1, <2>2
<1>2. job.compilation = Made(job.project, job.defines, engine) /\ IsProject(job.project)
  BY DEF CachesInv, CompileOK, LoadOK
<1>3. Names(job.compilation) \in SUBSET Nat /\ IsFiniteSet(Names(job.compilation))
  BY <1>2, NamesFinite
<1>4. /\ IdsOK(ids) /\ DOMAIN ids = Names(job.compilation)
      /\ \A n \in Names(job.compilation) \cap (DOMAIN prior) : ids[n] = prior[n]
  BY <1>1, <1>3, AssignedFacts
<1> QED
  BY <1>4

LEMMA InstallDatabaseInv ==
  ASSUME CachesInv, InstallDatabase
  PROVE  CachesInv'
<1> DEFINE prior == IF db = Absent THEN <<>> ELSE db.ids
           ids == Assigned(prior, Names(job.compilation))
           exec == IF db = Absent THEN Absent ELSE db.exec
<1>1. /\ pc = "database" /\ pc' = "link"
      /\ db' = [engine |-> engine, defines |-> job.defines, inputs |-> job.project,
                ids |-> ids, linked |-> job.compilation, exec |-> exec]
      /\ UNCHANGED <<disk, stamp, edits, engine, snap, manifest, artifact, job, seen, raced>>
  BY DEF InstallDatabase, files
<1>2. IdsOK(ids) /\ DOMAIN ids = Names(job.compilation)
  BY <1>1, InstalledIds
<1>3. exec # Absent => exec.code.procs = exec.digest
  BY DEF CachesInv, DbOK
<1> HIDE DEF ids, exec
<1>4. job.compilation = Made(job.project, job.defines, engine) /\ IsProject(job.project)
  BY <1>1 DEF CachesInv, CompileOK, LoadOK
<1>5. /\ DOMAIN db' = {"engine", "defines", "inputs", "ids", "linked", "exec"}
      /\ db'.engine = engine /\ db'.defines = job.defines /\ db'.inputs = job.project
      /\ db'.ids = ids /\ db'.linked = job.compilation /\ db'.exec = exec
  BY <1>1
<1>6. Names(db'.linked) = DOMAIN ids
  BY <1>2, <1>5
<1>7. DbOK'
  <2>1. IsProject(db.inputs)'
    BY <1>4, <1>5 DEF IsProject
  <2>2. (db.linked = Made(db.inputs, db.defines, db.engine))'
    BY <1>4, <1>5 DEF Made, Text
  <2>3. IdsOK(db.ids)' /\ (DOMAIN db.ids = Names(db.linked))'
    BY <1>2, <1>5, <1>6 DEF IdsOK, Names, Definitions
  <2>4. (db.exec # Absent => db.exec.code.procs = db.exec.digest)'
    BY <1>3, <1>5
  <2> QED
    BY <1>5, <2>1, <2>2, <2>3, <2>4 DEF DbOK
<1>8. FilesOK' /\ SnapOK'
  BY <1>1, CompileFrame
<1>9. LoadOK' /\ CompileOK' /\ ArtifactOK'
  BY <1>1 DEF CachesInv, LoadOK, ProjectIsCurrent, Loaded, CompileOK, ArtifactOK
<1> QED
  BY <1>7, <1>8, <1>9 DEF CachesInv

(* Linking reuses an executable section of the same digest or lowers anew: *)
(* either way the procedures are those of the compilation.                 *)
LEMMA LinkInv ==
  ASSUME CachesInv, Link
  PROVE  CachesInv'
<1> DEFINE digest == Digest(job.compilation, db.ids)
           reuse == db.exec # Absent /\ db.exec.digest = digest
           code == IF reuse THEN db.exec.code ELSE Lower(job.compilation, db.ids)
<1>1. /\ pc = "link" /\ pc' \in {"artifact", "executable"}
      /\ job' = [job EXCEPT !.ids = db.ids, !.code = code]
      /\ UNCHANGED <<disk, stamp, edits, engine, snap, manifest, db, artifact, seen, raced>>
  BY DEF Link, files, caches
<1>2. code.procs = digest
  <2>1. CASE reuse
    BY <1>1, <2>1 DEF CachesInv, DbOK
  <2>2. CASE ~reuse
    BY <2>2 DEF Lower, Digest
  <2> QED
    BY <2>1, <2>2
<1> HIDE DEF code
<1>3. /\ DOMAIN job = JobFields /\ IsProject(job.project)
      /\ job.compilation = Made(job.project, job.defines, engine)
  BY <1>1 DEF CachesInv, LoadOK, CompileOK
<1>4. /\ DOMAIN job' = JobFields /\ job'.compilation = job.compilation
      /\ job'.project = job.project /\ job'.defines = job.defines
      /\ job'.ids = db.ids /\ job'.code = code
  BY <1>1, <1>3 DEF JobFields
<1>5. LoadOK'
  BY <1>1, <1>3, <1>4 DEF LoadOK, ProjectIsCurrent, Loaded, IsProject
<1>6. CompileOK'
  <2>1. (job.compilation = Made(job.project, job.defines, engine))'
    BY <1>1, <1>3, <1>4 DEF Made, Text
  <2>2. Digest(job.compilation, job.ids)' = Digest(job'.compilation, job'.ids)
    BY DEF Digest, Index, Definitions
  <2>3. (job.code.procs = Digest(job.compilation, job.ids))'
    BY <1>2, <1>4, <2>2
  <2> QED
    BY <1>1, <2>1, <2>3 DEF CompileOK
<1>7. FilesOK' /\ SnapOK'
  BY <1>1, CompileFrame
<1>8. DbOK'
  BY <1>1 DEF CachesInv, DbOK
<1>9. ArtifactOK'
  BY <1>1 DEF CachesInv, ArtifactOK
<1> QED
  BY <1>5, <1>6, <1>7, <1>8, <1>9 DEF CachesInv

LEMMA InstallExecutableInv ==
  ASSUME CachesInv, InstallExecutable
  PROVE  CachesInv'
<1> DEFINE exec == [digest |-> Digest(job.compilation, job.ids), code |-> job.code]
<1>1. /\ pc = "executable" /\ pc' = "artifact"
      /\ db' = [db EXCEPT !.exec = exec]
      /\ UNCHANGED <<disk, stamp, edits, engine, snap, manifest, artifact, job, seen, raced>>
  BY DEF InstallExecutable, files
<1>2. exec.code.procs = exec.digest
  BY <1>1 DEF CachesInv, CompileOK
<1> HIDE DEF exec
<1>3. /\ DOMAIN db = {"engine", "defines", "inputs", "ids", "linked", "exec"}
      /\ IsProject(db.inputs)
      /\ db.linked = Made(db.inputs, db.defines, db.engine)
      /\ IdsOK(db.ids) /\ DOMAIN db.ids = Names(db.linked)
  BY <1>1 DEF CachesInv, DbOK
<1>4. /\ DOMAIN db' = {"engine", "defines", "inputs", "ids", "linked", "exec"}
      /\ db'.engine = db.engine /\ db'.defines = db.defines /\ db'.inputs = db.inputs
      /\ db'.ids = db.ids /\ db'.linked = db.linked /\ db'.exec = exec
  BY <1>1, <1>3
<1>5. DbOK'
  <2>1. IsProject(db.inputs)'
    BY <1>3, <1>4 DEF IsProject
  <2>2. (db.linked = Made(db.inputs, db.defines, db.engine))'
    BY <1>3, <1>4 DEF Made, Text
  <2>3. IdsOK(db.ids)'
    BY <1>3, <1>4 DEF IdsOK
  <2>4. Names(db.linked)' = Names(db'.linked)
    BY DEF Names, Definitions
  <2>5. (DOMAIN db.ids = Names(db.linked))'
    BY <1>3, <1>4, <2>4
  <2>6. (db.exec # Absent => db.exec.code.procs = db.exec.digest)'
    BY <1>2, <1>4
  <2> QED
    BY <1>4, <2>1, <2>2, <2>3, <2>5, <2>6 DEF DbOK
<1>6. FilesOK' /\ SnapOK'
  BY <1>1, CompileFrame
<1>7. LoadOK' /\ CompileOK' /\ ArtifactOK'
  BY <1>1 DEF CachesInv, LoadOK, ProjectIsCurrent, Loaded, CompileOK, ArtifactOK
<1> QED
  BY <1>5, <1>6, <1>7 DEF CachesInv

LEMMA InstallArtifactInv ==
  ASSUME CachesInv, InstallArtifact
  PROVE  CachesInv'
<1>1. /\ pc = "artifact" /\ pc' = "done"
      /\ artifact' = [engine |-> engine, project |-> job.compilation.project,
                      compilation |-> job.compilation, ids |-> job.ids, code |-> job.code]
      /\ UNCHANGED <<disk, stamp, edits, engine, snap, manifest, db, job, seen, raced>>
  BY DEF InstallArtifact, files
<1>2. /\ job.compilation = Made(job.project, job.defines, engine)
      /\ job.code.procs = Digest(job.compilation, job.ids)
  BY <1>1 DEF CachesInv, CompileOK
<1>3. ArtifactOK'
  <2>1. /\ artifact'.compilation = job.compilation /\ artifact'.engine = engine
        /\ artifact'.project = job.project /\ artifact'.compilation.defines = job.defines
        /\ artifact'.ids = job.ids /\ artifact'.code = job.code
    BY <1>1, <1>2 DEF Made
  <2>2. (artifact.compilation =
           Made(artifact.project, artifact.compilation.defines, artifact.engine))'
    BY <1>2, <2>1 DEF Made, Text
  <2>3. Digest(artifact.compilation, artifact.ids)' =
          Digest(artifact'.compilation, artifact'.ids)
    BY DEF Digest, Index, Definitions
  <2>4. (artifact.code.procs = Digest(artifact.compilation, artifact.ids))'
    BY <1>2, <2>1, <2>3
  <2> QED
    BY <2>2, <2>4 DEF ArtifactOK
<1>4. FilesOK' /\ SnapOK'
  BY <1>1, CompileFrame
<1>5. LoadOK' /\ CompileOK' /\ DbOK'
  BY <1>1 DEF CachesInv, LoadOK, ProjectIsCurrent, Loaded, CompileOK, DbOK
<1> QED
  BY <1>3, <1>4, <1>5 DEF CachesInv

(* A build that ends, by itself or at a failed write, changes no file.     *)
LEMMA BuildEndsInv ==
  ASSUME CachesInv, InstallFails \/ Finish
  PROVE  CachesInv'
<1>1. Ended /\ UNCHANGED <<disk, stamp, edits, raced, snap, manifest, db, artifact>>
  BY DEF InstallFails, Finish, Ended, files, caches
<1>2. SnapOK'
  BY <1>1 DEF CachesInv, SnapOK
<1> QED
  BY <1>1, <1>2, EndedInv

LEMMA CrashInv ==
  ASSUME CachesInv, Crash
  PROVE  CachesInv'
<1>1. Ended /\ CutOff /\ UNCHANGED <<disk, stamp, edits, raced>>
  BY DEF Crash, Ended, files
<1>2. SnapOK'
  BY <1>1, CutOffSnap
<1>3. db' = db /\ artifact' = artifact
  BY <1>1 DEF CutOff
<1> QED
  BY <1>1, <1>2, <1>3, EndedInv
-----------------------------------------------------------------------------
(* The theorems.                                                           *)

LEMMA StartInv ==
  ASSUME Init
  PROVE  CachesInv
<1>1. /\ disk \in [File -> Contents] /\ stamp = [i \in File |-> 0] /\ edits = 0
      /\ snap = Absent /\ manifest = Absent /\ db = Absent /\ artifact = Absent
      /\ pc = "idle" /\ job = NoJob /\ seen = NoneSeen /\ raced = FALSE
  BY DEF Init
<1>2. FilesOK
  <2>1. NoneSeen \in [File -> SUBSET Contents]
    BY DEF NoneSeen
  <2>2. edits \in Nat /\ 0 \in 0 .. edits
    BY <1>1
  <2>3. stamp \in [File -> 0 .. edits]
    BY <1>1, <2>2
  <2> QED
    BY <1>1, <2>1, <2>2, <2>3 DEF FilesOK
<1>3. SnapOK /\ DbOK /\ ArtifactOK
  BY <1>1 DEF SnapOK, Present, DbOK, ArtifactOK
<1>4. DOMAIN NoJob = JobFields /\ NoJob.compilation = Absent
  BY DEF NoJob, JobFields
<1>5. LoadOK /\ CompileOK
  BY <1>1, <1>4 DEF LoadOK, ProjectIsCurrent, Loaded, CompileOK
<1> QED
  BY <1>2, <1>3, <1>5 DEF CachesInv

LEMMA StepInv ==
  ASSUME CachesInv, [Next]_vars
  PROVE  CachesInv'
<1>1. ASSUME NEW strict \in BOOLEAN, NEW allow \in BOOLEAN, NEW d \in Defines,
             Begin(strict, d, allow)
      PROVE  CachesInv'
  BY <1>1, BeginInv
<1>2. CASE Verify
  BY <1>2, VerifyInv
<1>3. CASE ReadFile
  BY <1>3, ReadFileInv
<1>4. CASE WriteSnapshot
  BY <1>4, WriteSnapshotInv
<1>5. CASE WriteManifest
  BY <1>5, WriteManifestInv
<1>6. CASE CacheWriteFails
  BY <1>6, CacheWriteFailsInv
<1>7. CASE UseArtifact
  BY <1>7, UseArtifactInv
<1>8. CASE RefuseStale
  BY <1>8, RefuseStaleInv
<1>9. CASE Frontend
  BY <1>9, FrontendInv
<1>10. CASE WriteSyntax
  BY <1>10, WriteSyntaxInv
<1>11. CASE InstallDatabase
  BY <1>11, InstallDatabaseInv
<1>12. CASE Link
  BY <1>12, LinkInv
<1>13. CASE InstallExecutable
  BY <1>13, InstallExecutableInv
<1>14. CASE InstallArtifact
  BY <1>14, InstallArtifactInv
<1>15. CASE InstallFails \/ Finish
  BY <1>15, BuildEndsInv
<1>16. CASE Crash
  BY <1>16, CrashInv
<1>17. ASSUME NEW i \in File, NEW c \in Contents, NEW restored \in BOOLEAN,
              Edit(i, c, restored)
       PROVE  CachesInv'
  BY <1>17, EditInv
<1>18. CASE Upgrade
  BY <1>18, UpgradeInv
<1>19. CASE UNCHANGED vars
  <2>1. UNCHANGED <<disk, stamp, edits, engine, snap, manifest, db, artifact, pc, job,
                    seen, raced>>
    BY <1>19 DEF vars, files, caches
  <2>2. FilesOK' /\ SnapOK' /\ DbOK' /\ ArtifactOK'
    BY <2>1 DEF CachesInv, FilesOK, SnapOK, DbOK, ArtifactOK
  <2>3. LoadOK' /\ CompileOK'
    BY <2>1 DEF CachesInv, LoadOK, CompileOK, ProjectIsCurrent, Loaded
  <2> QED
    BY <2>2, <2>3 DEF CachesInv
<1> QED
  BY <1>1, <1>2, <1>3, <1>4, <1>5, <1>6, <1>7, <1>8, <1>9, <1>10, <1>11, <1>12, <1>13,
     <1>14, <1>15, <1>16, <1>17, <1>18, <1>19 DEF Next

(* Everything the caches rest on, in every reachable state: snapshots that *)
(* agree with the sources where their times do, linked sections that are   *)
(* what their release made of their inputs, executables whose procedures   *)
(* are those of their digest, unique ids                                   *)
(* (write_cached_project_best_effort, compile_persistent_prevalidated).    *)
THEOREM Invariant == Spec => []CachesInv
<1>1. Init => CachesInv
  BY StartInv
<1>2. CachesInv /\ [Next]_vars => CachesInv'
  BY StepInv
<1> QED
  BY <1>1, <1>2, PTL DEF Spec

(* A build works on contents each file had while it ran: always with       *)
(* verified bytes (load_cached_exact_with_fingerprint_and_defines), and on *)
(* times alone unless a time was restored or a load was raced              *)
(* (load_cached_with_defines), for any number of files, edits and crashes. *)
THEOREM ProjectIsCurrentHolds == Spec => []ProjectIsCurrent
<1>1. CachesInv => ProjectIsCurrent
  BY DEF CachesInv, LoadOK
<1> QED
  BY <1>1, Invariant, PTL

(* Whatever cache a compilation comes from, it is the one the front end    *)
(* makes of the loaded project (compile_persistent_prevalidated,           *)
(* decode_compiled_executable).                                            *)
THEOREM FrontEndFreshHolds == Spec => []FrontEndFresh
<1>1. ASSUME CachesInv PROVE FrontEndFresh
  <2>1. Fresh(job.project, job.defines) = Made(job.project, job.defines, engine)
    BY DEF Fresh, Compile, Made
  <2>2. job.compilation # Absent =>
          pc \in {"syntax", "database", "link", "executable", "artifact", "done"}
    BY <1>1 DEF CachesInv, CompileOK
  <2> QED
    BY <1>1, <2>1, <2>2 DEF FrontEndFresh, CachesInv, CompileOK
<1> QED
  BY <1>1, Invariant, PTL

(* The bytecode a build hands out has the procedures of its compilation in *)
(* the slots of their ids, also when an earlier build lowered it (the      *)
(* digest test of compile_persistent_prevalidated).                        *)
THEOREM ExecutableFitsHolds == Spec => []ExecutableFits
<1>1. CachesInv => ExecutableFits
  BY DEF CachesInv, CompileOK, ExecutableFits, Lower, Digest
<1> QED
  BY <1>1, Invariant, PTL

(* A database covers exactly the procedures of its inputs, never gives two *)
(* of them one id, and keeps the id of a name that survives a build        *)
(* (persistent_database_for_compilation), across releases and crashes.     *)
THEOREM IdsStableHolds == Spec => IdsStable
<1> DEFINE Stable ==
      db' # db /\ db' # Absent =>
        /\ DOMAIN db'.ids = Names(db'.linked)
        /\ \A m, n \in DOMAIN db'.ids : db'.ids[m] = db'.ids[n] => m = n
        /\ db # Absent =>
            \A n \in (DOMAIN db.ids) \cap (DOMAIN db'.ids) : db'.ids[n] = db.ids[n]
<1>1. ASSUME CachesInv, CachesInv', Next PROVE Stable
  <2>1. CASE db' = db
    BY <2>1
  <2>2. CASE InstallDatabase
    <3> DEFINE prior == IF db = Absent THEN <<>> ELSE db.ids
               ids == Assigned(prior, Names(job.compilation))
    <3>1. pc = "database" /\ db'.ids = ids /\ db'.linked = job.compilation
      BY <2>2 DEF InstallDatabase
    <3>2. /\ IdsOK(ids) /\ DOMAIN ids = Names(job.compilation)
          /\ db # Absent => \A n \in (DOMAIN db.ids) \cap (DOMAIN ids) : ids[n] = db.ids[n]
      BY <1>1, <3>1, InstalledIds
    <3> HIDE DEF ids
    <3> QED
      BY <3>1, <3>2 DEF IdsOK
  <2>3. CASE InstallExecutable
    <3>1. /\ pc = "executable"
          /\ db' = [db EXCEPT !.exec = [digest |-> Digest(job.compilation, job.ids),
                                        code |-> job.code]]
      BY <2>3 DEF InstallExecutable
    <3>2. /\ DOMAIN db = {"engine", "defines", "inputs", "ids", "linked", "exec"}
          /\ IdsOK(db.ids) /\ DOMAIN db.ids = Names(db.linked)
      BY <1>1, <3>1 DEF CachesInv, DbOK
    <3>3. db'.ids = db.ids /\ db'.linked = db.linked
      BY <3>1, <3>2
    <3> QED
      BY <3>2, <3>3 DEF IdsOK
  <2>4. InstallDatabase \/ InstallExecutable \/ db' = db
    BY <1>1 DEF Next, Begin, Verify, ReadFile, WriteSnapshot, WriteManifest,
       CacheWriteFails, UseArtifact, RefuseStale, Frontend, WriteSyntax, Link,
       InstallArtifact, InstallFails, Finish, Crash, Edit, Upgrade, CutOff, caches
  <2> QED
    BY <2>1, <2>2, <2>3, <2>4
<1>2. ASSUME CachesInv, CachesInv', [Next]_vars PROVE [Stable]_vars
  BY <1>1, <1>2
<1> HIDE DEF Stable
<1>3. Spec => [][Stable]_vars
  BY <1>2, Invariant, PTL DEF Spec
<1> QED
  BY <1>3 DEF IdsStable, Stable
=============================================================================
