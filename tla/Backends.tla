------------------------------- MODULE Backends -------------------------------
(***************************************************************************)
(* Which backends a build of the crate contains and which one the          *)
(* functions without a backend in their name use: the features of          *)
(* Cargo.toml, and what build.rs makes of them.                            *)
(***************************************************************************)
EXTENDS Integers, FiniteSets

Backend == {"coreaudio", "pulse", "pipewire", "wasapi"}
Targets == {"macos", "linux", "windows"}

\* The features build.rs looks at on a target; it ignores the others.
Supported(target) ==
  CASE target = "macos"   -> {"coreaudio"}
    [] target = "linux"   -> {"pulse", "pipewire"}
    [] target = "windows" -> {"wasapi"}

\* Cargo turns a backend on if it is named or chosen as the default.
FeatureClosure(named, defaults) == named \union defaults

\* The cfgs enable_<backend> and enable_default_<backend> of a build.
Cfgs(target, named, defaults) ==
  [enabled  |-> FeatureClosure(named, defaults) \intersect Supported(target),
   defaults |-> defaults \intersect Supported(target)]

\* build.rs panics on a second default of the target.
Accepted(cfgs) == Cardinality(cfgs.defaults) < 2

\* The backends that are there to be called: build.rs compiles and binds the C
\* sources of those turned on, never those of a default; WASAPI comes from the
\* windows crate.
Provided(cfgs) == cfgs.enabled

\* The builds in which there is something to call.
Builds ==
  {b \in {Cfgs(target, named, defaults) :
            target \in Targets,
            named \in SUBSET Backend, defaults \in SUBSET Backend} :
     Accepted(b) /\ Provided(b) # {}}

\* The functions that a program can call: one for each enabled backend, and
\* the one without a name, which stands for the default.
Callable(b) == Provided(b) \union b.defaults

=============================================================================
