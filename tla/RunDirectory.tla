----------------------------- MODULE RunDirectory -----------------------------
(***************************************************************************)
(* The frozen inputs of one run: initialize_run and load_run of store.py   *)
(* with the manifest of snapshot.py, on ONE run id.  Several invocations   *)
(* of `eva-agentic init` race for the id, each for an experiment of its    *)
(* own; invocations of run, summary and visualize load the directory.  An  *)
(* initialisation may fail or be killed between any two files, and someone *)
(* may edit the inputs by hand at any moment.                              *)
(*                                                                         *)
(* Every write goes through _atomic_write: a temporary file, then a rename.*)
(* A temporary is only ever there before the manifest is, when nobody may  *)
(* load, so a write is one step here.                                      *)
(***************************************************************************)
EXTENDS Naturals

CONSTANTS
  Inits,       \* invocations of initialize_run with this run id
  Loads,       \* invocations of load_run on this run directory
  Absent,      \* "there is no such file"
  Garbled,     \* "a manifest that was edited by hand"
  MaxKills,    \* bound: initialisations killed
  MaxFaults,   \* bound: writes that fail
  MaxEdits     \* bound: edits of the input files by hand

ASSUME BoundsAssumption == {MaxKills, MaxFaults, MaxEdits} \subseteq Nat

(* The files load_run reads, and any other file in inputs/.                *)
Inputs == {"experiment", "cases", "plan"}
Names  == Inputs \cup {"other"}

(* Who wrote a file, and what was done to it since: 0 nothing, 1 an edit   *)
(* that leaves the plan as it is, 2 an edit that changes it.               *)
Content == [by : Inits, edit : 0 .. 2]

(* create_input_manifest: the digest of every file, modelled by the file.  *)
Manifests == [Names -> Content \cup {Absent}]

ASSUME SentinelAssumption ==
  /\ Absent # Garbled
  /\ {Absent, Garbled} \cap Manifests = {}
  /\ Absent \notin Content

Present(f) == {n \in Names : f[n] # Absent}

VARIABLES
  dir,       \* "absent", "bare" (no inputs/ in it), "inputs"
  files,     \* files[n]: the input file n, or Absent
  manifest,  \* manifest.json
  at,        \* at[i]: where initialize_run is
  sums,      \* sums[i]: the digests initialisation i has computed
  load,      \* load[l]: where load_run is
  seen,      \* seen[l]: the manifest it has read
  got,       \* got[l]: the inputs it has parsed
  unchecked, \* unchecked[l]: the files whose digest it has yet to compare
  dirty,     \* history: dirty[l] is the set of files edited during l
  used       \* how much of each bound has been used

disk    == <<dir, files, manifest>>
loader  == <<load, seen, got, unchecked, dirty>>
vars    == <<dir, files, manifest, at, sums, load, seen, got, unchecked, dirty, used>>

InitSteps == {"idle", "checked", "experiment", "cases", "plan", "digest", "manifest",
              "cleanup", "returned", "raised", "killed"}
LoadSteps == {"idle", "listing", "digests", "experiment", "cases", "plan",
              "loaded", "rejected"}

Writing == {"experiment", "cases", "plan", "digest", "manifest"}

Init ==
  /\ dir = "absent"
  /\ files = [n \in Names |-> Absent]
  /\ manifest = Absent
  /\ at = [i \in Inits |-> "idle"]
  /\ sums = [i \in Inits |-> Absent]
  /\ load = [l \in Loads |-> "idle"]
  /\ seen = [l \in Loads |-> Absent]
  /\ got = [l \in Loads |-> [n \in Inputs |-> Absent]]
  /\ unchecked = [l \in Loads |-> {}]
  /\ dirty = [l \in Loads |-> {}]
  /\ used = [b \in {"kill", "fault", "edit"} |-> 0]

Use(b, bound) == used[b] < bound /\ used' = [used EXCEPT ![b] = @ + 1]

Goto(i, s) == at' = [at EXCEPT ![i] = s]

-----------------------------------------------------------------------------
(* initialize_run. *)

(* run_dir.exists(), then the cases are loaded and the plan is built, if   *)
(* they are valid.                                                         *)
CheckId(i) ==
  /\ at[i] = "idle"
  /\ \/ dir = "absent" /\ Goto(i, "checked")
     \/ Goto(i, "raised")
  /\ UNCHANGED <<disk, sums, loader, used>>

(* mkdir(parents=True) finds no run directory and makes it, tolerating     *)
(* another initialisation that does the same.                              *)
MakeRunDir(i) ==
  /\ at[i] = "checked"
  /\ dir = "absent"
  /\ dir' = "bare"
  /\ UNCHANGED <<files, manifest, at, sums, loader, used>>

(* Variant for a mutant: inputs/ may already be there (exist_ok=True).     *)
MakeInputsAnyway(i) ==
  /\ at[i] = "checked"
  /\ dir # "absent"
  /\ dir' = "inputs"
  /\ Goto(i, "experiment")
  /\ UNCHANGED <<files, manifest, sums, loader, used>>

(* inputs_dir.mkdir: exclusive.  The loser raises FileExistsError before   *)
(* the try, so it cleans nothing up.                                       *)
MakeInputs(i) ==
  /\ at[i] = "checked"
  /\ dir # "absent"
  /\ dir' = "inputs"
  /\ Goto(i, IF dir = "bare" THEN "experiment" ELSE "raised")
  /\ UNCHANGED <<files, manifest, sums, loader, used>>

After(n) == IF n = "experiment" THEN "cases" ELSE IF n = "cases" THEN "plan" ELSE "digest"

(* The three input files, in this order.                                   *)
WriteInput(i) ==
  /\ at[i] \in Inputs
  /\ files' = [files EXCEPT ![at[i]] = [by |-> i, edit |-> 0]]
  /\ Goto(i, After(at[i]))
  /\ UNCHANGED <<dir, manifest, sums, loader, used>>

(* Variant for a mutant: the manifest is made before plan.json is there.   *)
DigestBeforePlan(i) ==
  /\ at[i] = "digest"
  /\ sums' = [sums EXCEPT ![i] = [files EXCEPT !["plan"] = Absent]]
  /\ Goto(i, "manifest")
  /\ UNCHANGED <<disk, loader, used>>

(* create_input_manifest: whatever files are in inputs/ now; it raises if  *)
(* there are none.                                                         *)
Digest(i) ==
  /\ at[i] = "digest"
  /\ sums' = [sums EXCEPT ![i] = files]
  /\ Goto(i, IF Present(files) = {} THEN "cleanup" ELSE "manifest")
  /\ UNCHANGED <<disk, loader, used>>

(* The manifest is in place and initialize_run returns.                    *)
WriteManifest(i) ==
  /\ at[i] = "manifest"
  /\ manifest' = sums[i]
  /\ Goto(i, "returned")
  /\ UNCHANGED <<dir, files, sums, loader, used>>

(* A write fails; its temporary is removed.                                *)
WriteFails(i) ==
  /\ at[i] \in Writing
  /\ Use("fault", MaxFaults)
  /\ Goto(i, "cleanup")
  /\ UNCHANGED <<disk, sums, loader>>

(* The except branch: run_dir.rmdir() refuses, for inputs/ is in it, and   *)
(* its OSError replaces the error of the write.  The id stays taken.       *)
CleanUp(i) ==
  /\ at[i] = "cleanup"
  /\ dir = "inputs"
  /\ Goto(i, "raised")
  /\ UNCHANGED <<disk, sums, loader, used>>

(* A mkdir that fails leaves the same behind.                              *)
Kill(i) ==
  /\ at[i] \in Writing \cup {"checked", "cleanup"}
  /\ Use("kill", MaxKills)
  /\ Goto(i, "killed")
  /\ UNCHANGED <<disk, sums, loader>>

-----------------------------------------------------------------------------
(* load_run. *)

(* The manifest is opened and parsed; a missing one is refused, and so is  *)
(* one that is not the manifest that was written.                          *)
ReadManifest(l) ==
  /\ load[l] = "idle"
  /\ seen' = [seen EXCEPT ![l] = manifest]
  /\ load' = [load EXCEPT ![l] =
       IF manifest \in {Absent, Garbled} THEN "rejected" ELSE "listing"]
  /\ UNCHANGED <<disk, at, sums, got, unchecked, dirty, used>>

(* verify_input_manifest compares the names ...                            *)
List(l) ==
  /\ load[l] = "listing"
  /\ IF Present(files) = Present(seen[l])
       THEN /\ load' = [load EXCEPT ![l] = "digests"]
            /\ unchecked' = [unchecked EXCEPT ![l] = Present(files)]
       ELSE /\ load' = [load EXCEPT ![l] = "rejected"]
            /\ UNCHANGED unchecked
  /\ UNCHANGED <<disk, at, sums, seen, got, dirty, used>>

(* Variant for a mutant: a file that differs is let through.               *)
CompareNothing(l, n) ==
  /\ load[l] = "digests"
  /\ n \in unchecked[l]
  /\ unchecked' = [unchecked EXCEPT ![l] = @ \ {n}]
  /\ load' = [load EXCEPT ![l] = IF unchecked[l] = {n} THEN "experiment" ELSE "digests"]
  /\ UNCHANGED <<disk, at, sums, seen, got, dirty, used>>

(* ... and then, file by file, the sizes and digests.                      *)
Compare(l, n) ==
  /\ load[l] = "digests"
  /\ n \in unchecked[l]
  /\ unchecked' = [unchecked EXCEPT ![l] = @ \ {n}]
  /\ load' = [load EXCEPT ![l] =
       IF files[n] # seen[l][n] THEN "rejected"
       ELSE IF unchecked[l] = {n} THEN "experiment" ELSE "digests"]
  /\ UNCHANGED <<disk, at, sums, seen, got, dirty, used>>

(* The experiment, then the cases are opened again and parsed.  An edit    *)
(* that changes the plan may also make the file invalid.                   *)
ReadInput(l) ==
  /\ load[l] \in {"experiment", "cases"}
  /\ got' = [got EXCEPT ![l][load[l]] = files[load[l]]]
  /\ load' \in {[load EXCEPT ![l] = s] :
       s \in IF files[load[l]] = Absent
               THEN {"rejected"}
               ELSE {IF load[l] = "experiment" THEN "cases" ELSE "plan"} \cup
                    IF files[load[l]].edit = 2 THEN {"rejected"} ELSE {}}
  /\ UNCHANGED <<disk, at, sums, seen, unchecked, dirty, used>>

(* rebuilt_plan.to_dict() = stored_plan: the plan is what build_plan makes *)
(* of the experiment and the cases, or was edited along with them.         *)
PlanMatches(experiment, cases, plan) ==
  /\ experiment.by = plan.by
  /\ cases.by = plan.by
  /\ plan.edit = 2 <=> 2 \in {experiment.edit, cases.edit}

(* The stored plan is opened and compared; one that was edited may also    *)
(* differ from the plan that is rebuilt.                                   *)
ReadPlan(l) ==
  /\ load[l] = "plan"
  /\ got' = [got EXCEPT ![l]["plan"] = files["plan"]]
  /\ load' \in {[load EXCEPT ![l] = s] :
       s \in IF \/ files["plan"] = Absent
                \/ ~ PlanMatches(got[l]["experiment"], got[l]["cases"], files["plan"])
               THEN {"rejected"}
               ELSE {"loaded"} \cup IF files["plan"].edit = 2 THEN {"rejected"} ELSE {}}
  /\ UNCHANGED <<disk, at, sums, seen, unchecked, dirty, used>>

-----------------------------------------------------------------------------
(* Someone edits, adds or removes a file of inputs/.                       *)

UnderWay(l) == load[l] \notin {"idle", "loaded", "rejected"}

MarkDirty(n) ==
  dirty' = [l \in Loads |-> IF UnderWay(l) THEN dirty[l] \cup {n} ELSE dirty[l]]

EditInput(n) ==
  /\ files[n] # Absent
  /\ Use("edit", MaxEdits)
  /\ \E k \in 1 .. 2 : files' = [files EXCEPT ![n].edit = k]
  /\ MarkDirty(n)
  /\ UNCHANGED <<dir, manifest, at, sums, load, seen, got, unchecked>>

RemoveInput(n) ==
  /\ files[n] # Absent
  /\ Use("edit", MaxEdits)
  /\ files' = [files EXCEPT ![n] = Absent]
  /\ MarkDirty(n)
  /\ UNCHANGED <<dir, manifest, at, sums, load, seen, got, unchecked>>

AddOther ==
  /\ dir = "inputs"
  /\ files["other"] = Absent
  /\ Use("edit", MaxEdits)
  /\ \E i \in Inits : files' = [files EXCEPT !["other"] = [by |-> i, edit |-> 1]]
  /\ MarkDirty("other")
  /\ UNCHANGED <<dir, manifest, at, sums, load, seen, got, unchecked>>

EditManifest ==
  /\ manifest # Absent
  /\ Use("edit", MaxEdits)
  /\ manifest' = Garbled
  /\ UNCHANGED <<dir, files, at, sums, loader>>

-----------------------------------------------------------------------------
InitRun(i) ==
  \/ CheckId(i) \/ MakeRunDir(i) \/ MakeInputs(i) \/ WriteInput(i) \/ Digest(i)
  \/ WriteManifest(i) \/ WriteFails(i) \/ CleanUp(i) \/ Kill(i)

LoadRun(l) ==
  \/ ReadManifest(l) \/ List(l) \/ ReadInput(l) \/ ReadPlan(l)
  \/ \E n \in Names : Compare(l, n)

Edit ==
  \/ \E n \in Names : EditInput(n) \/ RemoveInput(n)
  \/ AddOther
  \/ EditManifest

Next ==
  \/ \E i \in Inits : InitRun(i)
  \/ \E l \in Loads : LoadRun(l)
  \/ Edit

Spec == Init /\ [][Next]_vars

-----------------------------------------------------------------------------
(* Properties. *)

(* The types, the order in which the parts of the directory appear, and    *)
(* that a load goes on only with a manifest in its hands.                  *)
TypeOK ==
  /\ dir \in {"absent", "bare", "inputs"}
  /\ files \in Manifests
  /\ manifest \in Manifests \cup {Absent, Garbled}
  /\ at \in [Inits -> InitSteps]
  /\ sums \in [Inits -> Manifests \cup {Absent}]
  /\ load \in [Loads -> LoadSteps]
  /\ seen \in [Loads -> Manifests \cup {Absent, Garbled}]
  /\ got \in [Loads -> [Inputs -> Content \cup {Absent}]]
  /\ unchecked \in [Loads -> SUBSET Names]
  /\ dirty \in [Loads -> SUBSET Names]
  /\ used \in [{"kill", "fault", "edit"} -> Nat]
  /\ dir # "inputs" => Present(files) = {} /\ manifest = Absent
  /\ \A i \in Inits : at[i] \in Writing \cup {"cleanup", "returned"} => dir = "inputs"
  /\ \A i \in Inits : at[i] = "manifest" => sums[i] # Absent
  /\ \A l \in Loads :
        load[l] \notin {"idle", "rejected"} => seen[l] \notin {Absent, Garbled}

(* Two initialisations that both find the id free do not share the         *)
(* directory: one at most gets past inputs_dir.mkdir, and the experiment,  *)
(* the cases and the plan that were written are its own.  (store.py checks *)
(* run_dir.exists() long before it creates anything.)                      *)
Owner(i) == at[i] \in Writing \cup {"cleanup", "returned"}

OneExperimentPerRun ==
  /\ \A i, k \in Inits : Owner(i) /\ Owner(k) => i = k
  /\ \A i \in Inits, n \in Inputs : Owner(i) /\ files[n] # Absent => files[n].by = i

(* load_run reads each file twice, once for its digest and once for its    *)
(* contents.  What a load returns differs from what the manifest froze     *)
(* only in files that were edited while that very load was under way: an   *)
(* edit made before it is always refused.                                  *)
LoadsWhatWasFrozen ==
  \A l \in Loads : load[l] = "loaded" =>
    \A n \in Inputs : got[l][n] # seen[l][n] => n \in dirty[l]

(* The invocations that resume a run see the inputs of the first one: two  *)
(* loads that nobody disturbed return the same experiment, cases and plan. *)
LoadsAgree ==
  \A l, m \in Loads :
    load[l] = "loaded" /\ load[m] = "loaded" /\ dirty[l] = {} /\ dirty[m] = {}
      => got[l] = got[m]

(* A load may run beside the initialisation.  Once it has found a          *)
(* manifest, it is not refused unless somebody edited the inputs: the      *)
(* manifest is written last, and it covers exactly the files there are.    *)
UntouchedRunLoads ==
  \A l \in Loads :
    load[l] = "rejected" /\ seen[l] # Absent => used["edit"] > 0
=============================================================================
