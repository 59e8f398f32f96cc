------------------------------ MODULE ImageBuild ------------------------------
(***************************************************************************)
(* How the SWE-bench harness builds the images of a dataset                *)
(* (swebench/harness/docker_build.py, prepare_images.py): the base image,  *)
(* then the environment images in a pool, then the instance images in a    *)
(* pool, each on the one before.  An image is named by the call that built *)
(* it and remembers what it was built on.                                  *)
(***************************************************************************)
EXTENDS Integers, FiniteSets

CONSTANTS
    Instances,
    Envs,       \* env_image_key: each is the set of the instances built on it
    MaxCalls    \* bound: calls of build_instance_images

ImageBuildAssumption ==
    /\ \A i \in Instances : \E e \in Envs : i \in e
    /\ \A e, f \in Envs : e # f => e \cap f = {}
    /\ MaxCalls \in Nat

VARIABLES
    call,       \* the current call, 0 for what was there before
    force,      \* its force_rebuild
    base, env, inst,   \* the images docker has
    phase,      \* "idle", "remove", "base", "envs", "instances", "broken"
    todo,       \* what the pool still has to build
    attempted,  \* instances whose build was started in this call
    envFailed, succeeded, failed   \* what the pools returned

vars == <<call, force, base, env, inst, phase, todo, attempted, envFailed, succeeded, failed>>

EnvOf(i) == CHOOSE e \in Envs : i \in e
Calls == 0..MaxCalls
NoImage == [by |-> -1, on |-> -1]
Images == [by : Calls, on : -1..MaxCalls] \cup {NoImage}

ImageBuildTypeOK ==
    /\ call \in Calls /\ force \in BOOLEAN /\ base \in Images
    /\ env \in [Envs -> Images] /\ inst \in [Instances -> Images]
    /\ phase \in {"idle", "remove", "base", "envs", "instances", "broken"}
    /\ todo \subseteq Envs \cup Instances /\ envFailed \subseteq Envs
    /\ attempted \subseteq Instances /\ succeeded \subseteq Instances /\ failed \subseteq Instances

Old == [by |-> 0, on |-> 0]

Init ==
    /\ call = 0 /\ force = FALSE /\ phase = "idle"
    /\ base \in {Old, NoImage} /\ env \in [Envs -> {Old, NoImage}]
    /\ inst \in [Instances -> {Old, NoImage}]
    /\ todo = {} /\ attempted = {} /\ envFailed = {} /\ succeeded = {} /\ failed = {}

Start ==
    /\ phase \in {"idle", "broken"} /\ call < MaxCalls /\ call' = call + 1
    /\ phase' = "remove" /\ force' \in BOOLEAN
    /\ todo' = {} /\ attempted' = {} /\ envFailed' = {} /\ succeeded' = {} /\ failed' = {}
    /\ UNCHANGED <<base, env, inst>>

\* A forced call first removes the instance images, then the environments.
Stripped(old) == IF force THEN [x \in DOMAIN old |-> NoImage] ELSE old

Remove ==
    /\ phase = "remove" /\ phase' = "base"
    /\ inst' = IF force THEN [i \in Instances |-> NoImage] ELSE inst
    /\ env' = Stripped(env)
    /\ UNCHANGED <<call, force, base, todo, attempted, envFailed, succeeded, failed>>

\* build_base_images: the call ends if the base image cannot be built.
EnvsMissing == {e \in Envs : env[e] = NoImage}

BuildBase ==
    /\ phase = "base"
    /\ \/ /\ base # NoImage /\ ~force
          /\ phase' = "envs" /\ todo' = EnvsMissing /\ UNCHANGED base
       \/ /\ base = NoImage \/ force
          /\ \/ /\ base' = [by |-> call, on |-> -1]
                /\ phase' = "envs" /\ todo' = EnvsMissing
             \/ base' = NoImage /\ phase' = "broken" /\ UNCHANGED todo
    /\ UNCHANGED <<call, force, env, inst, attempted, envFailed, succeeded, failed>>

\* run_threadpool returns the arguments of the builds that failed.
FailedOnes(e) == {e}

BuildEnv(e) ==
    /\ phase = "envs" /\ e \in todo /\ todo' = todo \ {e}
    /\ \/ env' = [env EXCEPT ![e] = [by |-> call, on |-> base.by]] /\ UNCHANGED envFailed
       \/ envFailed' = envFailed \cup FailedOnes(e) /\ UNCHANGED env
    /\ UNCHANGED <<call, force, base, inst, phase, attempted, succeeded, failed>>

\* The keys are looked up among the arguments of the builds that failed, a list of
\* tuples, and never found: every instance stays.
Built == Instances

EnvsDone ==
    /\ phase = "envs" /\ todo = {}
    /\ phase' = "instances" /\ todo' = Built
    /\ UNCHANGED <<call, force, base, env, inst, attempted, envFailed, succeeded, failed>>

\* build_instance_image: an image that is there is left as it is.
Unchecked(i) == TRUE
HasEnv(i) == env[EnvOf(i)] # NoImage

BuildInstance(i) ==
    /\ phase = "instances" /\ i \in todo /\ todo' = todo \ {i}
    /\ attempted' = attempted \cup {i}
    /\ \/ /\ HasEnv(i) /\ succeeded' = succeeded \cup {i} /\ UNCHANGED failed
          /\ inst' = IF inst[i] # NoImage THEN inst
                     ELSE [inst EXCEPT ![i] = [by |-> call, on |-> env[EnvOf(i)].by]]
       \/ /\ HasEnv(i) => inst[i] = NoImage
          /\ failed' = failed \cup {i} /\ UNCHANGED <<inst, succeeded>>
    /\ UNCHANGED <<call, force, base, env, phase, envFailed>>

Return ==
    /\ phase = "instances" /\ todo = {} /\ phase' = "idle"
    /\ UNCHANGED <<call, force, base, env, inst, todo, attempted, envFailed, succeeded, failed>>

Next ==
    \/ Start \/ Remove \/ BuildBase \/ EnvsDone \/ Return
    \/ \E e \in Envs : BuildEnv(e)
    \/ \E i \in Instances : BuildInstance(i)

Spec == Init /\ [][Next]_vars

-----------------------------------------------------------------------------
(* Properties                                                              *)

\* After a forced call every image is of this call, down to the base: no layer of
\* an earlier build is left under a new one.
ForcedIsFresh ==
    phase = "idle" /\ call > 0 /\ force =>
        /\ \A i \in succeeded : inst[i].by = call /\ inst[i].on = call
        /\ \A i \in succeeded : env[EnvOf(i)].by = call /\ env[EnvOf(i)].on = call

\* What is reported built has its image and the environment it stands on, and
\* nothing is reported built whose environment failed.
SuccessStands ==
    \A i \in succeeded :
        /\ inst[i] # NoImage /\ HasEnv(i) /\ EnvOf(i) \notin envFailed
        /\ i \notin failed

\* docker_build.py:333: "Don't build images for instances that depend on
\* failed-to-build env images".
FailedEnvsSkipped == \A i \in attempted : EnvOf(i) \notin envFailed
=============================================================================
