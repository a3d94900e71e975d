-------------------------- MODULE RunDirectory_proofs --------------------------
(***************************************************************************)
(* Proofs about RunDirectory: whoever races for the run id and whoever     *)
(* edits the inputs, the run belongs to one experiment, and a load returns *)
(* what the manifest froze.                                                *)
(***************************************************************************)
EXTENDS RunDirectory, TLAPS

-----------------------------------------------------------------------------
(* The inductive invariant. *)

(* Once there is a manifest nobody writes, and before that nobody has one. *)
SealedInv ==
  /\ manifest # Absent => \A i \in Inits : at[i] \notin Writing
  /\ \A l \in Loads : seen[l] # Absent => manifest # Absent

(* A load has the manifest of the run, unless that was garbled since.      *)
SameManifest ==
  \A l \in Loads :
    seen[l] \notin {Absent, Garbled} => manifest \in {seen[l], Garbled}

SeenAgree ==
  \A l, m \in Loads :
    seen[l] \notin {Absent, Garbled} /\ seen[m] \notin {Absent, Garbled} => seen[l] = seen[m]

(* The files whose digest was compared are the frozen ones, and so are the *)
(* contents that were parsed, but for the edits during the load.           *)
Checked(l) ==
  IF load[l] = "digests" THEN Inputs \ unchecked[l]
  ELSE IF load[l] \in {"experiment", "cases", "plan"} THEN Inputs ELSE {}

Parsed(l) ==
  IF load[l] = "cases" THEN {"experiment"}
  ELSE IF load[l] = "plan" THEN {"experiment", "cases"}
  ELSE IF load[l] = "loaded" THEN Inputs ELSE {}

CheckedInv ==
  \A l \in Loads : \A n \in Checked(l) : files[n] # seen[l][n] => n \in dirty[l]

ParsedInv ==
  \A l \in Loads : \A n \in Parsed(l) : got[l][n] # seen[l][n] => n \in dirty[l]

IInv ==
  /\ TypeOK
  /\ OneExperimentPerRun
  /\ SealedInv
  /\ SameManifest
  /\ SeenAgree
  /\ CheckedInv
  /\ ParsedInv

-----------------------------------------------------------------------------
(* Init establishes the invariant.                                         *)
LEMMA InitIInv == Init => IInv
<1> SUFFICES ASSUME Init PROVE IInv
  OBVIOUS
<1>1. TypeOK
  BY SentinelAssumption DEF Init, TypeOK, Manifests, Names, Inputs, Present, InitSteps,
                            LoadSteps, Writing
<1>2. OneExperimentPerRun /\ SealedInv
  BY DEF Init, OneExperimentPerRun, SealedInv, Owner, Writing
<1>3. SameManifest /\ SeenAgree
  BY DEF Init, SameManifest, SeenAgree
<1>4. CheckedInv /\ ParsedInv
  BY DEF Init, CheckedInv, ParsedInv, Checked, Parsed
<1>5. QED
  BY <1>1, <1>2, <1>3, <1>4 DEF IInv

-----------------------------------------------------------------------------
(* The steps of initialize_run.                                            *)

(* A bound on what an environment may do is a counter that only grows.     *)
LEMMA UseType ==
  ASSUME NEW b \in {"kill", "fault", "edit"}, NEW bound \in Nat,
         used \in [{"kill", "fault", "edit"} -> Nat], Use(b, bound)
  PROVE  used' \in [{"kill", "fault", "edit"} -> Nat]
BY DEF Use

(* An initialisation that only moves on keeps the types, provided it was   *)
(* in the directory already.                                               *)
LEMMA GotoType ==
  ASSUME TypeOK, NEW i \in Inits, NEW s \in InitSteps, Goto(i, s),
         s \in Writing \cup {"cleanup", "returned"} => dir = "inputs",
         s # "manifest",
         UNCHANGED <<disk, sums, loader>>,
         used' \in [{"kill", "fault", "edit"} -> Nat]
  PROVE  TypeOK'
<1>1. /\ at' \in [Inits -> InitSteps]
      /\ \A k \in Inits : at'[k] = IF k = i THEN s ELSE at[k]
  BY DEF TypeOK, Goto
<1>2. QED
  BY <1>1 DEF TypeOK, disk, loader, Present

(* A step of initialize_run keeps the types; what is digested or written   *)
(* is in inputs/.                                                          *)
LEMMA InitRunType ==
  ASSUME TypeOK, NEW i \in Inits, InitRun(i)
  PROVE  TypeOK'
<1>1. CASE CheckId(i)
  <2>1. \E s \in {"checked", "raised"} :
          Goto(i, s) /\ UNCHANGED <<disk, sums, loader, used>>
    BY <1>1 DEF CheckId
  <2>2. QED
    BY <2>1, GotoType DEF TypeOK, InitSteps, Writing
<1>2. CASE MakeRunDir(i)
  BY <1>2 DEF MakeRunDir, TypeOK, loader, Present
<1>3. CASE MakeInputs(i)
  <2>1. PICK s \in {"experiment", "raised"} :
          /\ at' = [at EXCEPT ![i] = s]
          /\ dir' = "inputs"
          /\ UNCHANGED <<files, manifest, sums, loader, used>>
    BY <1>3 DEF MakeInputs, Goto
  <2>2. /\ at' \in [Inits -> InitSteps]
        /\ \A k \in Inits : at'[k] = "manifest" => at[k] = "manifest"
    BY <2>1 DEF TypeOK, InitSteps
  <2>3. QED
    BY <2>1, <2>2 DEF TypeOK, loader
<1>4. CASE WriteInput(i)
  <2>1. /\ at[i] \in Inputs
        /\ dir = "inputs"
        /\ at' = [at EXCEPT ![i] = After(at[i])]
        /\ files' = [files EXCEPT ![at[i]] = [by |-> i, edit |-> 0]]
        /\ UNCHANGED <<dir, manifest, sums, loader, used>>
    BY <1>4 DEF WriteInput, Goto, TypeOK, Inputs, Writing
  <2>2. files' \in Manifests
    <3>1. [by |-> i, edit |-> 0] \in Content
      BY DEF Content
    <3>2. files \in [Names -> Content \cup {Absent}]
      BY DEF TypeOK, Manifests
    <3>3. QED
      BY <2>1, <3>1, <3>2 DEF Manifests
  <2>3. After(at[i]) \in {"cases", "plan", "digest"}
    BY <2>1 DEF After, Inputs
  <2>4. /\ at' \in [Inits -> InitSteps]
        /\ \A k \in Inits : at'[k] = "manifest" => at[k] = "manifest"
    BY <2>1, <2>3 DEF TypeOK, InitSteps
  <2>5. QED
    BY <2>1, <2>2, <2>4 DEF TypeOK, loader
<1>5. CASE Digest(i)
  <2>1. PICK s \in {"cleanup", "manifest"} :
          /\ at[i] = "digest"
          /\ dir = "inputs"
          /\ at' = [at EXCEPT ![i] = s]
          /\ sums' = [sums EXCEPT ![i] = files]
          /\ UNCHANGED <<disk, loader, used>>
    BY <1>5 DEF Digest, Goto, TypeOK, Writing
  <2>2. /\ at' \in [Inits -> InitSteps]
        /\ \A k \in Inits : k # i => at'[k] = at[k]
    BY <2>1 DEF TypeOK, InitSteps
  <2>3. files \in Manifests /\ files # Absent
    BY SentinelAssumption DEF TypeOK
  <2>4. /\ sums' \in [Inits -> Manifests \cup {Absent}]
        /\ \A k \in Inits : sums'[k] = IF k = i THEN files ELSE sums[k]
    BY <2>1, <2>3 DEF TypeOK
  <2>5. QED
    BY <2>1, <2>2, <2>3, <2>4 DEF TypeOK, loader, disk
<1>6. CASE WriteManifest(i)
  <2>1. /\ at[i] = "manifest"
        /\ dir = "inputs"
        /\ at' = [at EXCEPT ![i] = "returned"]
        /\ manifest' = sums[i]
        /\ sums[i] \in Manifests
        /\ UNCHANGED <<dir, files, sums, loader, used>>
    BY <1>6 DEF WriteManifest, Goto, TypeOK, Writing
  <2>2. /\ at' \in [Inits -> InitSteps]
        /\ \A k \in Inits : at'[k] = "manifest" => at[k] = "manifest"
    BY <2>1 DEF TypeOK, InitSteps
  <2>3. QED
    BY <2>1, <2>2 DEF TypeOK, loader
<1>7. CASE WriteFails(i)
  <2>1. Goto(i, "cleanup") /\ UNCHANGED <<disk, sums, loader>> /\ dir = "inputs"
    BY <1>7 DEF WriteFails, TypeOK
  <2>2. used' \in [{"kill", "fault", "edit"} -> Nat]
    BY <1>7, UseType, BoundsAssumption DEF WriteFails, TypeOK
  <2>3. QED
    BY <2>1, <2>2, GotoType DEF InitSteps
<1>8. CASE CleanUp(i)
  BY <1>8, GotoType DEF CleanUp, TypeOK, InitSteps, Writing
<1>9. CASE Kill(i)
  <2>1. Goto(i, "killed") /\ UNCHANGED <<disk, sums, loader>>
    BY <1>9 DEF Kill
  <2>2. used' \in [{"kill", "fault", "edit"} -> Nat]
    BY <1>9, UseType, BoundsAssumption DEF Kill, TypeOK
  <2>3. QED
    BY <2>1, <2>2, GotoType DEF InitSteps, Writing
<1>10. QED
  BY <1>1, <1>2, <1>3, <1>4, <1>5, <1>6, <1>7, <1>8, <1>9 DEF InitRun

(* An owner comes out of inputs_dir.mkdir of a bare directory, or was one. *)
LEMMA OwnerStep ==
  ASSUME TypeOK, NEW i \in Inits, InitRun(i)
  PROVE  /\ \A k \in Inits : k # i => at'[k] = at[k]
         /\ Owner(i)' => Owner(i) \/ dir # "inputs"
         /\ Owner(i)' => dir' = "inputs"
         /\ at'[i] \in Writing => at[i] \in Writing \/ dir # "inputs"
<1>1. at \in [Inits -> InitSteps]
  BY DEF TypeOK
<1>2. \A k \in Inits : k # i => at'[k] = at[k]
  BY <1>1 DEF InitRun, CheckId, MakeRunDir, MakeInputs, WriteInput, Digest, WriteManifest,
              WriteFails, CleanUp, Kill, Goto
<1>3. CASE CheckId(i) \/ Kill(i) \/ CleanUp(i)
  BY <1>1, <1>2, <1>3 DEF CheckId, Kill, CleanUp, Goto, Owner, Writing
<1>4. CASE MakeRunDir(i)
  BY <1>1, <1>2, <1>4 DEF MakeRunDir, Owner, Writing
<1>5. CASE MakeInputs(i)
  BY <1>1, <1>2, <1>5 DEF MakeInputs, Goto, Owner, Writing, TypeOK
<1>6. CASE WriteInput(i) \/ Digest(i) \/ WriteManifest(i) \/ WriteFails(i)
  <2>1. at[i] \in Writing
    BY <1>6 DEF WriteInput, Digest, WriteManifest, WriteFails, Writing, Inputs
  <2>2. dir' = dir /\ dir = "inputs"
    BY <1>6, <2>1 DEF TypeOK, WriteInput, Digest, WriteManifest, WriteFails, disk
  <2>3. QED
    BY <1>2, <2>1, <2>2 DEF Owner
<1>7. QED
  BY <1>3, <1>4, <1>5, <1>6 DEF InitRun

(* A step of initialize_run keeps the one owner: MakeInputs lets no second *)
(* one in, and only the owner writes.                                      *)
LEMMA InitRunOne ==
  ASSUME TypeOK, OneExperimentPerRun, NEW i \in Inits, InitRun(i)
  PROVE  OneExperimentPerRun'
<1>1. /\ \A k \in Inits : k # i => (Owner(k)' <=> Owner(k))
      /\ Owner(i)' => Owner(i) \/ dir # "inputs"
  BY OwnerStep DEF Owner
<1>2. \A k \in Inits : Owner(k) => dir = "inputs"
  BY DEF TypeOK, Owner
<1>3. (\A k, m \in Inits : Owner(k) /\ Owner(m) => k = m)'
  BY <1>1, <1>2 DEF OneExperimentPerRun
<1>4. CASE WriteInput(i)
  <2>1. /\ at[i] \in Inputs
        /\ Owner(i)
        /\ files' = [files EXCEPT ![at[i]] = [by |-> i, edit |-> 0]]
        /\ files \in [Names -> Content \cup {Absent}]
    BY <1>4 DEF WriteInput, Owner, Writing, Inputs, TypeOK, Manifests
  <2>2. \A n \in Inputs :
          files'[n] = IF n = at[i] THEN [by |-> i, edit |-> 0] ELSE files[n]
    BY <2>1 DEF Names
  <2>3. \A k \in Inits : Owner(k)' => k = i
    BY <1>1, <2>1 DEF OneExperimentPerRun
  <2>4. \A n \in Inputs : files'[n] # Absent => files'[n].by = i
    BY <2>1, <2>2 DEF OneExperimentPerRun
  <2>5. QED
    BY <1>3, <2>3, <2>4 DEF OneExperimentPerRun
<1>5. CASE ~ WriteInput(i)
  <2>1. files' = files
    BY <1>5 DEF InitRun, CheckId, MakeRunDir, MakeInputs, Digest, WriteManifest,
                WriteFails, CleanUp, Kill, disk
  <2>2. \A k \in Inits, n \in Inputs : Owner(k)' /\ files'[n] # Absent => files'[n].by = k
    <3>1. SUFFICES ASSUME NEW k \in Inits, NEW n \in Inputs, Owner(k)', files[n] # Absent
                   PROVE  files[n].by = k
      BY <2>1
    <3>2. dir = "inputs"
      BY <3>1 DEF TypeOK, Present, Names
    <3>3. Owner(k)
      BY <1>1, <3>1, <3>2
    <3>4. QED
      BY <3>1, <3>3 DEF OneExperimentPerRun
  <2>3. QED
    BY <1>3, <2>2 DEF OneExperimentPerRun
<1>6. QED
  BY <1>4, <1>5

(* What the loads know survives the steps of an initialisation: the input  *)
(* files change only while there is no manifest.                           *)
LEMMA InitRunLoads ==
  ASSUME IInv, NEW i \in Inits, InitRun(i)
  PROVE  SealedInv' /\ SameManifest' /\ SeenAgree' /\ CheckedInv' /\ ParsedInv'
<1>1. TypeOK /\ OneExperimentPerRun /\ SealedInv /\ SameManifest /\ SeenAgree
      /\ CheckedInv /\ ParsedInv
  BY DEF IInv
<1>2. UNCHANGED <<load, seen, got, unchecked, dirty>>
  BY DEF InitRun, CheckId, MakeRunDir, MakeInputs, WriteInput, Digest, WriteManifest,
         WriteFails, CleanUp, Kill, loader
<1>3. SeenAgree' /\ ParsedInv'
  BY <1>1, <1>2 DEF SeenAgree, ParsedInv, Parsed
<1>4. CASE WriteManifest(i)
  <2>1. at[i] = "manifest" /\ Owner(i) /\ sums[i] # Absent
    BY <1>1, <1>4 DEF WriteManifest, Owner, Writing, TypeOK
  <2>2. manifest = Absent /\ \A l \in Loads : seen[l] = Absent
    BY <1>1, <2>1 DEF SealedInv, Writing
  <2>3. files' = files /\ manifest' # Absent
    BY <1>4, <2>1 DEF WriteManifest
  <2>4. \A k \in Inits : at'[k] \notin Writing
    <3>1. \A k \in Inits : k # i => ~ Owner(k) /\ at'[k] = at[k]
      BY <1>1, <2>1, OwnerStep DEF OneExperimentPerRun
    <3>2. at'[i] = "returned"
      BY <1>1, <1>4 DEF WriteManifest, Goto, TypeOK
    <3>3. QED
      BY <3>1, <3>2 DEF Owner, Writing
  <2>5. SealedInv' /\ SameManifest'
    BY <1>2, <2>2, <2>3, <2>4 DEF SealedInv, SameManifest
  <2>6. CheckedInv'
    BY <1>1, <1>2, <2>3 DEF CheckedInv, Checked
  <2>7. QED
    BY <1>3, <2>5, <2>6
<1>5. CASE ~ WriteManifest(i)
  <2>1. manifest' = manifest
    BY <1>5 DEF InitRun, CheckId, MakeRunDir, MakeInputs, WriteInput, Digest,
                WriteFails, CleanUp, Kill, disk
  <2>2. manifest # Absent => dir = "inputs"
    BY <1>1 DEF TypeOK
  <2>3. SealedInv' /\ SameManifest'
    BY <1>1, <1>2, <2>1, <2>2, OwnerStep DEF SealedInv, SameManifest
  <2>4. CASE files' = files
    BY <1>1, <1>2, <1>3, <2>3, <2>4 DEF CheckedInv, Checked
  <2>5. CASE files' # files
    <3>1. at[i] \in Writing
      BY <2>5 DEF InitRun, CheckId, MakeRunDir, MakeInputs, WriteInput, Digest,
                  WriteManifest, WriteFails, CleanUp, Kill, disk, Inputs, Writing
    <3>2. \A l \in Loads : seen[l] = Absent
      BY <1>1, <3>1 DEF SealedInv
    <3>3. \A l \in Loads : load[l] \in {"idle", "rejected"}
      BY <1>1, <3>2 DEF TypeOK
    <3>4. CheckedInv'
      BY <1>2, <3>3 DEF CheckedInv, Checked
    <3>5. QED
      BY <1>3, <2>3, <3>4
  <2>6. QED
    BY <2>4, <2>5
<1>6. QED
  BY <1>4, <1>5

(* A step of initialize_run keeps the invariant.                           *)
LEMMA InitRunStep ==
  ASSUME IInv, NEW i \in Inits, InitRun(i)
  PROVE  IInv'
BY InitRunType, InitRunOne, InitRunLoads DEF IInv

-----------------------------------------------------------------------------
(* The steps of load_run. *)

(* A step of load_run keeps the types.                                     *)
LEMMA LoadRunType ==
  ASSUME TypeOK, NEW l \in Loads, LoadRun(l)
  PROVE  /\ TypeOK'
         /\ UNCHANGED <<dir, files, manifest, at, sums, dirty, used>>
<1>1. CASE ReadManifest(l)
  <2>1. PICK s \in {"rejected", "listing"} :
          /\ load' = [load EXCEPT ![l] = s]
          /\ s = "listing" => manifest \notin {Absent, Garbled}
          /\ seen' = [seen EXCEPT ![l] = manifest]
          /\ UNCHANGED <<disk, at, sums, got, unchecked, dirty, used>>
    BY <1>1 DEF ReadManifest
  <2>2. /\ load' \in [Loads -> LoadSteps]
        /\ \A m \in Loads : load'[m] = IF m = l THEN s ELSE load[m]
    BY <2>1 DEF TypeOK, LoadSteps
  <2>3. /\ seen' \in [Loads -> Manifests \cup {Absent, Garbled}]
        /\ \A m \in Loads : seen'[m] = IF m = l THEN manifest ELSE seen[m]
    BY <2>1 DEF TypeOK
  <2>4. QED
    BY <2>1, <2>2, <2>3 DEF TypeOK, disk
<1>2. CASE List(l)
  <2>1. PICK s \in {"rejected", "digests"}, u \in SUBSET Names :
          /\ load[l] = "listing"
          /\ load' = [load EXCEPT ![l] = s]
          /\ unchecked' = [unchecked EXCEPT ![l] = u]
          /\ UNCHANGED <<disk, at, sums, seen, got, dirty, used>>
    <3>1. Present(files) \in SUBSET Names
      BY DEF Present
    <3>2. unchecked[l] \in SUBSET Names /\ unchecked = [unchecked EXCEPT ![l] = unchecked[l]]
      BY DEF TypeOK
    <3>3. CASE Present(files) = Present(seen[l])
      BY <1>2, <3>1, <3>3 DEF List
    <3>4. CASE Present(files) # Present(seen[l])
      BY <1>2, <3>2, <3>4 DEF List
    <3>5. QED
      BY <3>3, <3>4
  <2>2. /\ load' \in [Loads -> LoadSteps]
        /\ \A m \in Loads : load'[m] = IF m = l THEN s ELSE load[m]
    BY <2>1 DEF TypeOK, LoadSteps
  <2>3. unchecked' \in [Loads -> SUBSET Names]
    BY <2>1 DEF TypeOK
  <2>4. QED
    BY <2>1, <2>2, <2>3 DEF TypeOK, disk
<1>3. CASE \E n \in Names : Compare(l, n)
  <2>1. PICK s \in {"rejected", "digests", "experiment"}, u \in SUBSET Names :
          /\ load[l] = "digests"
          /\ load' = [load EXCEPT ![l] = s]
          /\ unchecked' = [unchecked EXCEPT ![l] = u]
          /\ UNCHANGED <<disk, at, sums, seen, got, dirty, used>>
    <3>1. PICK n \in Names : Compare(l, n)
      BY <1>3
    <3>2. unchecked[l] \ {n} \in SUBSET Names
      BY DEF TypeOK
    <3>3. \E s \in {"rejected", "digests", "experiment"} : load' = [load EXCEPT ![l] = s]
      <4>1. CASE files[n] # seen[l][n]
        BY <3>1, <4>1 DEF Compare
      <4>2. CASE files[n] = seen[l][n] /\ unchecked[l] = {n}
        BY <3>1, <4>2 DEF Compare
      <4>3. CASE files[n] = seen[l][n] /\ unchecked[l] # {n}
        BY <3>1, <4>3 DEF Compare
      <4>4. QED
        BY <4>1, <4>2, <4>3
    <3>4. /\ load[l] = "digests"
          /\ unchecked' = [unchecked EXCEPT ![l] = unchecked[l] \ {n}]
          /\ UNCHANGED <<disk, at, sums, seen, got, dirty, used>>
      BY <3>1 DEF Compare
    <3>5. QED
      BY <3>2, <3>3, <3>4
  <2>2. /\ load' \in [Loads -> LoadSteps]
        /\ \A m \in Loads : load'[m] = IF m = l THEN s ELSE load[m]
    BY <2>1 DEF TypeOK, LoadSteps
  <2>3. unchecked' \in [Loads -> SUBSET Names]
    BY <2>1 DEF TypeOK
  <2>4. QED
    BY <2>1, <2>2, <2>3 DEF TypeOK, disk
<1>4. CASE ReadInput(l) \/ ReadPlan(l)
  <2>1. PICK s \in LoadSteps, n \in Inputs :
          /\ load[l] \in {"experiment", "cases", "plan"}
          /\ load' = [load EXCEPT ![l] = s]
          /\ got' = [got EXCEPT ![l][n] = files[n]]
          /\ UNCHANGED <<disk, at, sums, seen, unchecked, dirty, used>>
    <3>1. CASE ReadInput(l)
      <4>1. load[l] \in Inputs
        BY <3>1 DEF ReadInput, Inputs
      <4>2. \E s \in LoadSteps : load' = [load EXCEPT ![l] = s]
        BY <3>1 DEF ReadInput, LoadSteps
      <4>3. QED
        BY <3>1, <4>1, <4>2 DEF ReadInput
    <3>2. CASE ReadPlan(l)
      <4>1. "plan" \in Inputs
        BY DEF Inputs
      <4>2. \E s \in LoadSteps : load' = [load EXCEPT ![l] = s]
        BY <3>2 DEF ReadPlan, LoadSteps
      <4>3. QED
        BY <3>2, <4>1, <4>2 DEF ReadPlan
    <3>3. QED
      BY <1>4, <3>1, <3>2
  <2>2. /\ load' \in [Loads -> LoadSteps]
        /\ \A m \in Loads : load'[m] = IF m = l THEN s ELSE load[m]
    BY <2>1 DEF TypeOK
  <2>3. files[n] \in Content \cup {Absent}
    BY <2>1 DEF TypeOK, Manifests, Names
  <2>4. [got[l] EXCEPT ![n] = files[n]] \in [Inputs -> Content \cup {Absent}]
    BY <2>3 DEF TypeOK
  <2>5. got' \in [Loads -> [Inputs -> Content \cup {Absent}]]
    BY <2>1, <2>4 DEF TypeOK
  <2>6. QED
    BY <2>1, <2>2, <2>5 DEF TypeOK, disk
<1>5. UNCHANGED <<dir, files, manifest, at, sums, dirty, used>>
  BY DEF LoadRun, ReadManifest, List, Compare, ReadInput, ReadPlan, disk
<1>6. QED
  BY <1>1, <1>2, <1>3, <1>4, <1>5 DEF LoadRun

(* A step of one load is not seen by the others.                           *)
LEMMA LoadRunOthers ==
  ASSUME TypeOK, NEW l \in Loads, LoadRun(l), NEW m \in Loads, m # l
  PROVE  /\ load'[m] = load[m] /\ seen'[m] = seen[m]
         /\ got'[m] = got[m] /\ unchecked'[m] = unchecked[m]
<1>1. load'[m] = load[m]
  BY DEF TypeOK, LoadRun, ReadManifest, List, Compare, ReadInput, ReadPlan
<1>2. seen'[m] = seen[m] /\ got'[m] = got[m] /\ unchecked'[m] = unchecked[m]
  BY DEF TypeOK, LoadRun, ReadManifest, List, Compare, ReadInput, ReadPlan
<1>3. QED
  BY <1>1, <1>2

(* What one step does to the load itself, read off the actions: a file     *)
(* leaves the unchecked ones only if it is the frozen one.                 *)
LEMMA LoadRunOwn ==
  ASSUME TypeOK, NEW l \in Loads, LoadRun(l)
  PROVE  \/ /\ load[l] = "idle" /\ load'[l] \in {"listing", "rejected"}
            /\ seen'[l] = manifest
         \/ /\ seen'[l] = seen[l]
            /\ \/ load'[l] = "rejected"
               \/ /\ load[l] = "listing" /\ load'[l] = "digests"
                  /\ Present(files) = Present(seen[l])
                  /\ unchecked'[l] = Present(files)
               \/ /\ load[l] = "digests" /\ load'[l] \in {"digests", "experiment"}
                  /\ \E n \in unchecked[l] :
                       /\ files[n] = seen[l][n]
                       /\ unchecked'[l] = unchecked[l] \ {n}
                       /\ load'[l] = "experiment" => unchecked[l] = {n}
               \/ /\ load[l] = "experiment" /\ load'[l] = "cases"
                  /\ got'[l] = [got[l] EXCEPT !["experiment"] = files["experiment"]]
               \/ /\ load[l] = "cases" /\ load'[l] = "plan"
                  /\ got'[l] = [got[l] EXCEPT !["cases"] = files["cases"]]
               \/ /\ load[l] = "plan" /\ load'[l] = "loaded"
                  /\ got'[l] = [got[l] EXCEPT !["plan"] = files["plan"]]
<1> USE DEF TypeOK
<1>1. CASE ReadManifest(l)
  BY <1>1 DEF ReadManifest
<1>2. CASE List(l)
  BY <1>2 DEF List
<1>3. CASE \E n \in Names : Compare(l, n)
  <2>1. PICK n \in Names : Compare(l, n)
    BY <1>3
  <2>2. /\ load[l] = "digests" /\ n \in unchecked[l] /\ seen'[l] = seen[l]
        /\ unchecked'[l] = unchecked[l] \ {n}
    BY <2>1 DEF Compare
  <2>3. CASE files[n] # seen[l][n]
    BY <2>1, <2>2, <2>3 DEF Compare
  <2>4. CASE files[n] = seen[l][n] /\ unchecked[l] = {n}
    <3>1. load'[l] = "experiment"
      BY <2>1, <2>4 DEF Compare
    <3>2. QED
      BY <2>2, <2>4, <3>1
  <2>5. CASE files[n] = seen[l][n] /\ unchecked[l] # {n}
    <3>1. load'[l] = "digests"
      BY <2>1, <2>5 DEF Compare
    <3>2. QED
      BY <2>2, <2>5, <3>1
  <2>6. QED
    BY <2>3, <2>4, <2>5
<1>4. CASE ReadInput(l)
  <2>1. seen'[l] = seen[l] /\ got' = [got EXCEPT ![l][load[l]] = files[load[l]]]
    BY <1>4 DEF ReadInput
  <2>2. got'[l] = [got[l] EXCEPT ![load[l]] = files[load[l]]]
    BY <2>1
  <2>3. CASE load[l] = "experiment"
    BY <1>4, <2>1, <2>2, <2>3 DEF ReadInput
  <2>4. CASE load[l] = "cases"
    BY <1>4, <2>1, <2>2, <2>4 DEF ReadInput
  <2>5. QED
    BY <1>4, <2>3, <2>4 DEF ReadInput
<1>5. CASE ReadPlan(l)
  <2>1. /\ seen'[l] = seen[l] /\ load[l] = "plan"
        /\ got' = [got EXCEPT ![l]["plan"] = files["plan"]]
    BY <1>5 DEF ReadPlan
  <2>2. got'[l] = [got[l] EXCEPT !["plan"] = files["plan"]]
    BY <2>1
  <2>3. load'[l] \in {"rejected", "loaded"}
    BY <1>5 DEF ReadPlan
  <2>4. QED
    BY <2>1, <2>2, <2>3
<1>6. QED
  BY <1>1, <1>2, <1>3, <1>4, <1>5 DEF LoadRun

(* A step of a load keeps the invariant.                                   *)
LEMMA LoadRunStep ==
  ASSUME IInv, NEW l \in Loads, LoadRun(l)
  PROVE  IInv'
<1>1. /\ TypeOK /\ OneExperimentPerRun /\ SealedInv /\ SameManifest /\ SeenAgree
      /\ CheckedInv /\ ParsedInv
  BY DEF IInv
<1>2. TypeOK' /\ UNCHANGED <<dir, files, manifest, at, sums, dirty, used>>
  BY <1>1, LoadRunType
<1>3. OneExperimentPerRun'
  BY <1>1, <1>2 DEF OneExperimentPerRun, Owner
<1>4. \A m \in Loads : seen'[m] \in {seen[m], manifest}
  BY <1>1, LoadRunOthers, LoadRunOwn
<1>5. SealedInv' /\ SameManifest'
  BY <1>1, <1>2, <1>4 DEF SealedInv, SameManifest
<1>6. SeenAgree'
  BY <1>1, <1>2, <1>4 DEF SeenAgree, SameManifest
<1>7. \A m \in Loads : m # l =>
        /\ load'[m] = load[m] /\ seen'[m] = seen[m]
        /\ got'[m] = got[m] /\ unchecked'[m] = unchecked[m]
  BY <1>1, LoadRunOthers
<1>8. \A n \in Checked(l)' : files[n] # seen'[l][n] => n \in dirty[l]
  <2>1. SUFFICES ASSUME NEW n \in Inputs, n \in Checked(l)', files[n] # seen'[l][n]
                 PROVE  n \in dirty[l]
    BY DEF Checked
  <2>2. load'[l] \in {"digests", "experiment", "cases", "plan"} /\ seen'[l] = seen[l]
    BY <1>1, <2>1, LoadRunOwn DEF Checked
  <2>3. CASE load[l] = "listing"
    <3>1. /\ load'[l] = "digests" /\ Present(files) = Present(seen[l])
          /\ unchecked'[l] = Present(files)
      BY <1>1, <2>2, <2>3, LoadRunOwn
    <3>2. n \notin Present(files)
      BY <2>1, <3>1 DEF Checked
    <3>3. QED
      BY <2>1, <2>2, <3>1, <3>2 DEF Present, Names
  <2>4. CASE load[l] = "digests"
    <3>1. PICK k \in unchecked[l] :
            /\ files[k] = seen[l][k]
            /\ unchecked'[l] = unchecked[l] \ {k}
            /\ load'[l] \in {"digests", "experiment"}
            /\ load'[l] = "experiment" => unchecked[l] = {k}
      BY <1>1, <2>2, <2>4, LoadRunOwn
    <3>2. n \notin unchecked[l] \/ n = k
      BY <2>1, <3>1 DEF Checked
    <3>3. n \in Checked(l)
      BY <2>1, <2>2, <2>4, <3>1, <3>2 DEF Checked
    <3>4. QED
      BY <1>1, <2>1, <2>2, <3>3 DEF CheckedInv
  <2>5. CASE load[l] \in {"experiment", "cases", "plan"}
    BY <1>1, <2>1, <2>2, <2>5 DEF CheckedInv, Checked
  <2>6. QED
    BY <1>1, <2>2, <2>3, <2>4, <2>5, LoadRunOwn
<1>9. CheckedInv'
  BY <1>1, <1>2, <1>7, <1>8 DEF CheckedInv, Checked
<1>10. \A n \in Parsed(l)' : got'[l][n] # seen'[l][n] => n \in dirty[l]
  <2>1. SUFFICES ASSUME NEW n \in Inputs, n \in Parsed(l)', got'[l][n] # seen'[l][n]
                 PROVE  n \in dirty[l]
    BY DEF Parsed, Inputs
  <2>2. load'[l] \in {"cases", "plan", "loaded"} /\ seen'[l] = seen[l]
    BY <1>1, <2>1, LoadRunOwn DEF Parsed
  <2>3. /\ load[l] \in Inputs
        /\ got'[l] = [got[l] EXCEPT ![load[l]] = files[load[l]]]
        /\ Parsed(l)' = Parsed(l) \cup {load[l]}
    BY <1>1, <2>2, LoadRunOwn DEF Parsed, Inputs
  <2>4. CASE n = load[l]
    <3>1. got'[l][n] = files[n]
      BY <1>1, <2>3, <2>4 DEF TypeOK
    <3>2. n \in Checked(l)
      BY <2>3, <2>4 DEF Checked, Inputs
    <3>3. QED
      BY <1>1, <2>1, <2>2, <3>1, <3>2 DEF CheckedInv
  <2>5. CASE n # load[l]
    <3>1. got'[l][n] = got[l][n] /\ n \in Parsed(l)
      BY <1>1, <2>1, <2>3, <2>5 DEF TypeOK
    <3>2. QED
      BY <1>1, <2>1, <2>2, <3>1 DEF ParsedInv
  <2>6. QED
    BY <2>4, <2>5
<1>11. ParsedInv'
  BY <1>1, <1>2, <1>7, <1>10 DEF ParsedInv, Parsed
<1>12. QED
  BY <1>2, <1>3, <1>5, <1>6, <1>9, <1>11 DEF IInv

-----------------------------------------------------------------------------
(* Edits by hand. *)

(* An edit keeps who wrote a file, and marks it in every load under way.   *)
LEMMA EditEffect ==
  ASSUME TypeOK, Edit
  PROVE  /\ files' \in Manifests
         /\ \A n \in Inputs : files'[n] # Absent =>
              files[n] # Absent /\ files'[n].by = files[n].by
         /\ \A n \in Names, l \in Loads :
              files'[n] # files[n] /\ UnderWay(l) => n \in dirty'[l]
         /\ dirty' \in [Loads -> SUBSET Names]
         /\ \A l \in Loads : dirty[l] \subseteq dirty'[l]
         /\ used' \in [{"kill", "fault", "edit"} -> Nat]
         /\ dir # "inputs" => files' = files
         /\ manifest' \in {manifest, Garbled} /\ (manifest = Absent => manifest' = Absent)
         /\ UNCHANGED <<dir, at, sums, load, seen, got, unchecked>>
<1>1. /\ files \in [Names -> Content \cup {Absent}]
      /\ dirty \in [Loads -> SUBSET Names]
      /\ dir # "inputs" => \A n \in Names : files[n] = Absent
  BY DEF TypeOK, Manifests, Present
<1>2. used' \in [{"kill", "fault", "edit"} -> Nat]
  BY UseType, BoundsAssumption DEF Edit, EditInput, RemoveInput, AddOther, EditManifest, TypeOK
<1>3. UNCHANGED <<dir, at, sums, load, seen, got, unchecked>>
  BY DEF Edit, EditInput, RemoveInput, AddOther, EditManifest, loader
<1>4. CASE EditManifest
  BY <1>1, <1>2, <1>3, <1>4 DEF EditManifest, loader, Manifests, Inputs
<1>5. ASSUME NEW n \in Names, NEW c \in Content \cup {Absent},
             files' = [files EXCEPT ![n] = c], MarkDirty(n), UNCHANGED manifest,
             dir = "inputs",
             n \in Inputs /\ c # Absent => files[n] # Absent /\ c.by = files[n].by
      PROVE  /\ files' \in Manifests
             /\ \A k \in Inputs : files'[k] # Absent =>
                  files[k] # Absent /\ files'[k].by = files[k].by
             /\ \A k \in Names, l \in Loads :
                  files'[k] # files[k] /\ UnderWay(l) => k \in dirty'[l]
             /\ dirty' \in [Loads -> SUBSET Names]
             /\ \A l \in Loads : dirty[l] \subseteq dirty'[l]
  <2>1. \A k \in Names : files'[k] = IF k = n THEN c ELSE files[k]
    BY <1>1, <1>5
  <2>2. files' \in Manifests
    BY <1>1, <1>5 DEF Manifests
  <2>3. \A k \in Inputs : files'[k] # Absent =>
          files[k] # Absent /\ files'[k].by = files[k].by
    BY <1>5, <2>1 DEF Names
  <2>4. /\ dirty' \in [Loads -> SUBSET Names]
        /\ \A l \in Loads : dirty[l] \subseteq dirty'[l]
        /\ \A l \in Loads : UnderWay(l) => n \in dirty'[l]
    BY <1>1, <1>5 DEF MarkDirty
  <2>5. QED
    BY <2>1, <2>2, <2>3, <2>4
<1>6. CASE \E n \in Names : EditInput(n)
  <2>1. PICK n \in Names, k \in 1 .. 2 :
          /\ files[n] # Absent
          /\ files' = [files EXCEPT ![n].edit = k]
          /\ MarkDirty(n) /\ UNCHANGED manifest
    BY <1>6 DEF EditInput
  <2>2. files[n] \in Content /\ dir = "inputs"
    BY <1>1, <2>1
  <2>3. [files[n] EXCEPT !.edit = k] \in Content
        /\ [files[n] EXCEPT !.edit = k].by = files[n].by
    BY <2>2 DEF Content
  <2>4. files' = [files EXCEPT ![n] = [files[n] EXCEPT !.edit = k]]
    BY <2>1
  <2>5. QED
    BY <1>2, <1>3, <1>5, <2>1, <2>2, <2>3, <2>4
<1>7. CASE \E n \in Names : RemoveInput(n)
  <2>1. PICK n \in Names : RemoveInput(n)
    BY <1>7
  <2>2. /\ dir = "inputs" /\ MarkDirty(n) /\ UNCHANGED manifest
        /\ files' = [files EXCEPT ![n] = Absent]
    BY <1>1, <2>1 DEF RemoveInput
  <2>3. QED
    BY <1>2, <1>3, <1>5, <2>2
<1>8. CASE AddOther
  <2>1. PICK i \in Inits :
          /\ files' = [files EXCEPT !["other"] = [by |-> i, edit |-> 1]]
          /\ dir = "inputs" /\ MarkDirty("other") /\ UNCHANGED manifest
    BY <1>8 DEF AddOther
  <2>2. [by |-> i, edit |-> 1] \in Content
    BY DEF Content
  <2>3. "other" \in Names /\ "other" \notin Inputs
    BY DEF Names, Inputs
  <2>4. QED
    BY <1>2, <1>3, <1>5, <2>1, <2>2, <2>3
<1>9. QED
  BY <1>4, <1>6, <1>7, <1>8 DEF Edit

(* An edit by hand keeps the invariant.                                    *)
LEMMA EditStep ==
  ASSUME IInv, Edit
  PROVE  IInv'
<1>1. /\ TypeOK /\ OneExperimentPerRun /\ SealedInv /\ SameManifest /\ SeenAgree
      /\ CheckedInv /\ ParsedInv
  BY DEF IInv
<1>2. TypeOK'
  BY <1>1, EditEffect, SentinelAssumption DEF TypeOK
<1>3. OneExperimentPerRun'
  BY <1>1, EditEffect DEF OneExperimentPerRun, Owner
<1>4. SealedInv'
  BY <1>1, EditEffect, SentinelAssumption DEF SealedInv
<1>5. SameManifest' /\ SeenAgree'
  BY <1>1, EditEffect DEF SameManifest, SeenAgree
<1>6. CheckedInv'
  <2>1. \A l \in Loads : Checked(l)' = Checked(l) /\ (Checked(l) # {} => UnderWay(l))
    BY <1>1, EditEffect DEF Checked, UnderWay
  <2>2. \A l \in Loads : Checked(l) \subseteq Names
    BY DEF Checked, Names
  <2>3. QED
    BY <1>1, <2>1, <2>2, EditEffect DEF CheckedInv
<1>7. ParsedInv'
  BY <1>1, EditEffect DEF ParsedInv, Parsed
<1>8. QED
  BY <1>2, <1>3, <1>4, <1>5, <1>6, <1>7 DEF IInv

-----------------------------------------------------------------------------
(* The invariant is inductive.                                             *)
LEMMA NextIInv == IInv /\ [Next]_vars => IInv'
<1> SUFFICES ASSUME IInv, [Next]_vars PROVE IInv'
  OBVIOUS
<1>1. CASE Next
  BY <1>1, InitRunStep, LoadRunStep, EditStep DEF Next
<1>2. CASE UNCHANGED vars
  <2>1. /\ TypeOK /\ OneExperimentPerRun /\ SealedInv /\ SameManifest /\ SeenAgree
        /\ CheckedInv /\ ParsedInv
    BY DEF IInv
  <2>2. TypeOK' /\ OneExperimentPerRun'
    BY <1>2, <2>1 DEF vars, TypeOK, OneExperimentPerRun, Owner, Present
  <2>3. SealedInv' /\ SameManifest' /\ SeenAgree'
    BY <1>2, <2>1 DEF vars, SealedInv, SameManifest, SeenAgree
  <2>4. CheckedInv' /\ ParsedInv'
    BY <1>2, <2>1 DEF vars, CheckedInv, ParsedInv, Checked, Parsed
  <2>5. QED
    BY <2>2, <2>3, <2>4 DEF IInv
<1>3. QED
  BY <1>1, <1>2

(* The invariant holds throughout, and so does each of its parts.          *)
THEOREM RunDirectoryCorrect == Spec => []IInv
  BY InitIInv, NextIInv, PTL DEF Spec

(* However many initialisations race for a run id, fail or are killed, one *)
(* experiment owns the directory and wrote what is in it.                  *)
THEOREM OneExperiment == Spec => []OneExperimentPerRun
<1>1. IInv => OneExperimentPerRun
  BY DEF IInv
<1>2. QED
  BY <1>1, RunDirectoryCorrect, PTL

(* An input that is loaded is the one the manifest froze, unless it was    *)
(* edited during that very load.                                           *)
THEOREM FrozenInputs == Spec => []LoadsWhatWasFrozen
<1>1. IInv => LoadsWhatWasFrozen
  BY DEF IInv, ParsedInv, Parsed, LoadsWhatWasFrozen
<1>2. QED
  BY <1>1, RunDirectoryCorrect, PTL

(* All undisturbed loads of a run agree.                                   *)
THEOREM ResumeSeesTheSameInputs == Spec => []LoadsAgree
<1>1. IInv => LoadsAgree
  <2> SUFFICES ASSUME IInv, NEW l \in Loads, NEW m \in Loads,
                      load[l] = "loaded", load[m] = "loaded", dirty[l] = {}, dirty[m] = {}
               PROVE  got[l] = got[m]
    BY DEF LoadsAgree
  <2>1. /\ got[l] \in [Inputs -> Content \cup {Absent}]
        /\ got[m] \in [Inputs -> Content \cup {Absent}]
    BY DEF IInv, TypeOK
  <2>2. seen[l] = seen[m]
    BY DEF IInv, TypeOK, SeenAgree
  <2>3. \A n \in Inputs : got[l][n] = seen[l][n] /\ got[m][n] = seen[m][n]
    BY DEF IInv, ParsedInv, Parsed
  <2>4. QED
    BY <2>1, <2>2, <2>3
<1>2. QED
  BY <1>1, RunDirectoryCorrect, PTL

-----------------------------------------------------------------------------
(* A run whose inputs nobody edited is never refused. *)

(* While nobody has edited an input: the owner has written what its place  *)
(* says, the manifest it computes and writes is of the files there are,    *)
(* all three of them its own, and a load has that manifest and those       *)
(* files, and was refused only before there was a manifest.                *)
Written(i) ==
  IF at[i] = "cases" THEN {"experiment"}
  ELSE IF at[i] = "plan" THEN {"experiment", "cases"}
  ELSE IF at[i] \in {"digest", "manifest"} THEN Inputs ELSE {}

Fresh(n) == files[n] # Absent /\ files[n].edit = 0

WriterInv ==
  /\ \A n \in Names : files[n] # Absent => n \in Inputs /\ files[n].edit = 0
  /\ \A i \in Inits : \A n \in Written(i) : Fresh(n)
  /\ \A i \in Inits : at[i] = "manifest" => sums[i] = files

CompleteInv ==
  manifest # Absent =>
    /\ manifest = files
    /\ \A n \in Inputs : Fresh(n)
    /\ \A n, k \in Inputs : files[n].by = files[k].by

ReaderInv ==
  \A l \in Loads :
    /\ seen[l] # Absent => seen[l] = manifest
    /\ load[l] = "rejected" => seen[l] = Absent
    /\ load[l] = "digests" => unchecked[l] \subseteq Present(files)
    /\ \A n \in Parsed(l) : got[l][n] = files[n]

UneditedInv == used["edit"] = 0 => WriterInv /\ CompleteInv /\ ReaderInv

(* A step of initialize_run leaves the loads alone, and is not an edit.    *)
LEMMA InitRunFrame ==
  ASSUME TypeOK, NEW i \in Inits, InitRun(i)
  PROVE  /\ UNCHANGED <<load, seen, got, unchecked>>
         /\ used'["edit"] = used["edit"]
<1>1. UNCHANGED <<load, seen, got, unchecked>>
  BY DEF InitRun, CheckId, MakeRunDir, MakeInputs, WriteInput, Digest, WriteManifest,
         WriteFails, CleanUp, Kill, loader
<1>2. CASE WriteFails(i) \/ Kill(i)
  BY <1>1, <1>2 DEF WriteFails, Kill, Use, TypeOK
<1>3. CASE ~ (WriteFails(i) \/ Kill(i))
  <2>1. used' = used
    BY <1>3 DEF InitRun, CheckId, MakeRunDir, MakeInputs, WriteInput, Digest, WriteManifest,
                CleanUp
  <2>2. QED
    BY <1>1, <2>1
<1>4. QED
  BY <1>2, <1>3

(* What a step of initialize_run does to its own place, the files and the  *)
(* manifest, read off the actions.                                         *)
LEMMA InitRunOwn ==
  ASSUME TypeOK, NEW i \in Inits, InitRun(i)
  PROVE  \/ /\ at[i] \in Inputs /\ at'[i] = After(at[i])
            /\ files' = [files EXCEPT ![at[i]] = [by |-> i, edit |-> 0]]
            /\ UNCHANGED <<manifest, sums>>
         \/ /\ at[i] = "digest" /\ at'[i] \in {"manifest", "cleanup"}
            /\ sums' = [sums EXCEPT ![i] = files]
            /\ UNCHANGED <<files, manifest>>
         \/ /\ at[i] = "manifest" /\ at'[i] = "returned"
            /\ manifest' = sums[i]
            /\ UNCHANGED <<files, sums>>
         \/ /\ at'[i] \notin {"cases", "plan", "digest", "manifest"}
            /\ UNCHANGED <<files, manifest, sums>>
<1>1. at \in [Inits -> InitSteps]
  BY DEF TypeOK
<1>2. CASE WriteInput(i)
  BY <1>1, <1>2 DEF WriteInput, Goto
<1>3. CASE Digest(i)
  BY <1>1, <1>3 DEF Digest, Goto, disk
<1>4. CASE WriteManifest(i)
  BY <1>1, <1>4 DEF WriteManifest, Goto
<1>5. CASE CheckId(i)
  BY <1>1, <1>5 DEF CheckId, Goto, disk
<1>6. CASE MakeRunDir(i) \/ MakeInputs(i)
  BY <1>1, <1>6 DEF MakeRunDir, MakeInputs, Goto
<1>7. CASE WriteFails(i) \/ CleanUp(i) \/ Kill(i)
  BY <1>1, <1>7 DEF WriteFails, CleanUp, Kill, Goto, disk
<1>8. QED
  BY <1>2, <1>3, <1>4, <1>5, <1>6, <1>7 DEF InitRun

(* The initialisation freezes what it wrote, all of it.                    *)
LEMMA InitRunUnedited ==
  ASSUME IInv, UneditedInv, NEW i \in Inits, InitRun(i)
  PROVE  UneditedInv'
<1> SUFFICES ASSUME used'["edit"] = 0 PROVE WriterInv' /\ CompleteInv' /\ ReaderInv'
  BY DEF UneditedInv
<1>1. TypeOK /\ OneExperimentPerRun /\ SealedInv
  BY DEF IInv
<1>2. UNCHANGED <<load, seen, got, unchecked>> /\ WriterInv /\ CompleteInv /\ ReaderInv
  BY <1>1, InitRunFrame DEF UneditedInv
<1>3. \A k \in Inits : k # i => at'[k] = at[k]
  BY <1>1, OwnerStep
<1>4. \A k \in Inits : Written(k) \subseteq Inputs
  BY DEF Written, Inputs
<1>5. CASE /\ at[i] \in Inputs /\ at'[i] = After(at[i])
           /\ files' = [files EXCEPT ![at[i]] = [by |-> i, edit |-> 0]]
           /\ UNCHANGED <<manifest, sums>>
  <2>1. /\ files \in [Names -> Content \cup {Absent}]
        /\ files' \in [Names -> Content \cup {Absent}]
    BY <1>1, InitRunType DEF TypeOK, Manifests
  <2>2. [by |-> i, edit |-> 0] \in Content /\ [by |-> i, edit |-> 0] # Absent
    <3>1. [by |-> i, edit |-> 0] \in Content
      BY DEF Content
    <3>2. QED
      BY <3>1, SentinelAssumption
  <2>3. \A n \in Names :
          files'[n] = IF n = at[i] THEN [by |-> i, edit |-> 0] ELSE files[n]
    BY <1>5, <2>1
  <2>4. manifest = Absent /\ \A l \in Loads : seen[l] = Absent /\ load[l] \in {"idle", "rejected"}
    BY <1>1, <1>5 DEF SealedInv, TypeOK, Writing, Inputs
  <2>5. CompleteInv' /\ ReaderInv'
    BY <1>2, <1>5, <2>4 DEF CompleteInv, ReaderInv, Parsed
  <2>6. \A n \in Names : files'[n] # Absent => n \in Inputs /\ files'[n].edit = 0
    BY <1>2, <1>5, <2>3 DEF WriterInv
  <2>7. \A k \in Inits : k # i => Written(k)' = {} /\ at'[k] # "manifest"
    <3>1. Owner(i)
      BY <1>5 DEF Owner, Writing, Inputs
    <3>2. \A k \in Inits : k # i => ~ Owner(k)
      BY <1>1, <3>1 DEF OneExperimentPerRun
    <3>3. QED
      BY <1>3, <3>2 DEF Owner, Writing, Written
  <2>8. Written(i)' \subseteq Written(i) \cup {at[i]} /\ at'[i] # "manifest"
    BY <1>5 DEF Written, After, Inputs
  <2>9. \A n \in Written(i)' : Fresh(n)'
    <3>1. SUFFICES ASSUME NEW n \in Written(i)' PROVE Fresh(n)'
      OBVIOUS
    <3>2. n \in Names /\ (n = at[i] \/ Fresh(n))
      BY <1>2, <1>4, <1>5, <2>8 DEF WriterInv, Names
    <3>3. QED
      BY <2>2, <2>3, <3>2 DEF Fresh
  <2>10. WriterInv'
    BY <2>6, <2>7, <2>8, <2>9 DEF WriterInv
  <2>11. QED
    BY <2>5, <2>10
<1>6. CASE /\ UNCHANGED <<files, manifest>>
           /\ \/ /\ at[i] = "digest" /\ at'[i] \in {"manifest", "cleanup"}
                 /\ sums' = [sums EXCEPT ![i] = files]
              \/ /\ at'[i] \notin {"cases", "plan", "digest", "manifest"}
                 /\ UNCHANGED sums
  <2>1. CompleteInv' /\ ReaderInv' /\ \A n \in Names : Fresh(n)' <=> Fresh(n)
    BY <1>2, <1>6 DEF CompleteInv, ReaderInv, Parsed, Fresh
  <2>2. Written(i)' \subseteq Written(i)
    BY <1>6 DEF Written
  <2>3. \A k \in Inits : Written(k)' \subseteq Written(k)
    BY <1>3, <2>2 DEF Written
  <2>4. \A k \in Inits : at'[k] = "manifest" => sums'[k] = files
    BY <1>1, <1>2, <1>3, <1>6 DEF WriterInv, TypeOK
  <2>5. WriterInv'
    BY <1>2, <1>4, <1>6, <2>1, <2>3, <2>4 DEF WriterInv, Names
  <2>6. QED
    BY <2>1, <2>5
<1>7. CASE /\ at[i] = "manifest" /\ at'[i] = "returned"
           /\ manifest' = sums[i]
           /\ UNCHANGED <<files, sums>>
  <2>1. manifest' = files /\ \A n \in Inputs : Fresh(n)
    BY <1>2, <1>7 DEF WriterInv, Written
  <2>2. \A n, k \in Inputs : files[n].by = files[k].by
    BY <1>1, <1>7, <2>1 DEF OneExperimentPerRun, Owner, Writing, Fresh
  <2>3. \A l \in Loads : seen[l] = Absent /\ load[l] \in {"idle", "rejected"}
    BY <1>1, <1>7 DEF SealedInv, TypeOK, Writing
  <2>4. CompleteInv' /\ ReaderInv'
    BY <1>2, <1>7, <2>1, <2>2, <2>3 DEF CompleteInv, ReaderInv, Parsed, Fresh
  <2>5. \A k \in Inits :
          /\ Written(k)' \subseteq Written(k)
          /\ at'[k] = "manifest" => at[k] = "manifest"
    BY <1>3, <1>7 DEF Written
  <2>6. WriterInv'
    BY <1>2, <1>4, <1>7, <2>5 DEF WriterInv, Fresh
  <2>7. QED
    BY <2>4, <2>6
<1>8. QED
  BY <1>1, <1>5, <1>6, <1>7, InitRunOwn

(* What a load that finds no fault does with the files, when the manifest  *)
(* is of the files there are: it is not refused.                           *)
LEMMA LoadRunUnedited ==
  ASSUME IInv, UneditedInv, NEW l \in Loads, LoadRun(l)
  PROVE  UneditedInv'
<1> SUFFICES ASSUME used'["edit"] = 0 PROVE WriterInv' /\ CompleteInv' /\ ReaderInv'
  BY DEF UneditedInv
<1>1. TypeOK /\ UNCHANGED <<dir, files, manifest, at, sums, dirty, used>>
  BY LoadRunType DEF IInv
<1>2. WriterInv /\ CompleteInv /\ ReaderInv
  BY <1>1 DEF UneditedInv
<1>3. WriterInv' /\ CompleteInv'
  BY <1>1, <1>2 DEF WriterInv, CompleteInv, Written, Fresh
<1>4. \A m \in Loads : m # l =>
        /\ load'[m] = load[m] /\ seen'[m] = seen[m]
        /\ got'[m] = got[m] /\ unchecked'[m] = unchecked[m]
  BY <1>1, LoadRunOthers
<1>5. files \in Manifests /\ files # Absent /\ files # Garbled
  BY <1>1, SentinelAssumption DEF TypeOK
<1>6. CASE load[l] = "idle"
  <2>1. ReadManifest(l)
    BY <1>6 DEF LoadRun, ReadManifest, List, Compare, ReadInput, ReadPlan
  <2>2. seen'[l] = manifest /\ manifest # Garbled
    BY <1>1, <1>2, <1>5, <2>1, SentinelAssumption DEF ReadManifest, TypeOK, CompleteInv
  <2>3. IF manifest = Absent THEN load'[l] = "rejected" ELSE load'[l] = "listing"
    BY <1>1, <2>1, <2>2 DEF ReadManifest, TypeOK
  <2>4. QED
    BY <1>1, <1>2, <1>3, <1>4, <2>2, <2>3 DEF ReaderInv, Parsed
<1>7. CASE load[l] # "idle"
  <2>1. load[l] # "rejected"
    BY <1>7 DEF LoadRun, ReadManifest, List, Compare, ReadInput, ReadPlan
  <2>2. /\ seen[l] = files /\ manifest = files
        /\ \A n \in Inputs : Fresh(n)
        /\ \A n, k \in Inputs : files[n].by = files[k].by
    BY <1>1, <1>2, <1>7, <2>1 DEF TypeOK, CompleteInv, ReaderInv
  <2>3. seen'[l] = seen[l]
    BY <1>1, <1>7, LoadRunOwn
  <2>4. load'[l] # "rejected"
    <3>1. CASE List(l)
      BY <1>1, <2>2, <3>1 DEF List, TypeOK
    <3>2. CASE \E n \in Names : Compare(l, n)
      BY <1>1, <2>2, <3>2 DEF Compare, TypeOK
    <3>3. CASE ReadInput(l)
      <4>1. /\ load[l] \in Inputs
            /\ files[load[l]] # Absent /\ files[load[l]].edit # 2
        BY <2>2, <3>3 DEF ReadInput, Fresh, Inputs
      <4>2. QED
        BY <1>1, <3>3, <4>1 DEF ReadInput, TypeOK
    <3>4. CASE ReadPlan(l)
      <4>1. /\ load[l] = "plan"
            /\ got[l]["experiment"] = files["experiment"]
            /\ got[l]["cases"] = files["cases"]
        BY <1>2, <3>4 DEF ReadPlan, ReaderInv, Parsed
      <4>2. /\ files["plan"] # Absent /\ files["plan"].edit # 2
            /\ PlanMatches(files["experiment"], files["cases"], files["plan"])
        BY <2>2 DEF PlanMatches, Fresh, Inputs
      <4>3. QED
        BY <1>1, <3>4, <4>1, <4>2 DEF ReadPlan, TypeOK
    <3>5. QED
      BY <1>7, <3>1, <3>2, <3>3, <3>4 DEF LoadRun, ReadManifest
  <2>5. load'[l] = "digests" => unchecked'[l] \subseteq Present(files)
    BY <1>1, <1>2, <1>7, <2>4, LoadRunOwn DEF ReaderInv
  <2>6. \A n \in Parsed(l)' : got'[l][n] = files[n]
    <3>1. SUFFICES ASSUME NEW n \in Parsed(l)' PROVE got'[l][n] = files[n]
      OBVIOUS
    <3>2. n \in Inputs
      BY <3>1 DEF Parsed, Inputs
    <3>3. /\ load[l] \in Inputs
          /\ got'[l] = [got[l] EXCEPT ![load[l]] = files[load[l]]]
          /\ Parsed(l)' = Parsed(l) \cup {load[l]}
      BY <1>1, <1>7, <2>4, <3>1, LoadRunOwn DEF Parsed, Inputs
    <3>4. CASE n = load[l]
      BY <1>1, <3>2, <3>3, <3>4 DEF TypeOK
    <3>5. CASE n # load[l]
      BY <1>1, <1>2, <3>1, <3>2, <3>3, <3>5 DEF TypeOK, ReaderInv
    <3>6. QED
      BY <3>4, <3>5
  <2>7. ReaderInv'
    BY <1>1, <1>2, <1>4, <2>2, <2>3, <2>4, <2>5, <2>6 DEF ReaderInv, Parsed, Present
  <2>8. QED
    BY <1>3, <2>7
<1>8. QED
  BY <1>6, <1>7

(* An edit is counted, and so there is nothing left to show.               *)
LEMMA EditUnedited ==
  ASSUME IInv, Edit
  PROVE  used'["edit"] > 0
<1>1. used["edit"] \in Nat /\ Use("edit", MaxEdits)
  BY DEF IInv, TypeOK, Edit, EditInput, RemoveInput, AddOther, EditManifest
<1>2. used'["edit"] = used["edit"] + 1
  BY <1>1 DEF Use, IInv, TypeOK
<1>3. QED
  BY <1>1, <1>2

(* An initialisation may race with others and with the loads, fail or be   *)
(* killed: a load that found a manifest is refused only if somebody edited *)
(* the inputs.                                                             *)
THEOREM NeverRefusedForNothing == Spec => []UntouchedRunLoads
<1>1. Init => UneditedInv
  <2>1. Init => WriterInv /\ CompleteInv /\ ReaderInv
    BY DEF Init, WriterInv, CompleteInv, ReaderInv, Written, Parsed
  <2>2. QED
    BY <2>1 DEF UneditedInv
<1>2. IInv /\ UneditedInv /\ [Next]_vars => UneditedInv'
  <2> SUFFICES ASSUME IInv, UneditedInv, [Next]_vars PROVE UneditedInv'
    OBVIOUS
  <2>1. CASE \E i \in Inits : InitRun(i)
    BY <2>1, InitRunUnedited
  <2>2. CASE \E l \in Loads : LoadRun(l)
    BY <2>2, LoadRunUnedited
  <2>3. CASE Edit
    BY <2>3, EditUnedited DEF UneditedInv
  <2>4. CASE UNCHANGED vars
    BY <2>4 DEF vars, UneditedInv, WriterInv, CompleteInv, ReaderInv, Written, Fresh,
                Parsed, Present
  <2>5. QED
    BY <2>1, <2>2, <2>3, <2>4 DEF Next
<1>3. IInv /\ UneditedInv => UntouchedRunLoads
  <2>1. IInv => used["edit"] \in Nat
    BY DEF IInv, TypeOK
  <2>2. QED
    BY <2>1 DEF UneditedInv, ReaderInv, UntouchedRunLoads
<1>4. QED
  BY <1>1, <1>2, <1>3, RunDirectoryCorrect, PTL DEF Spec
=============================================================================
