----------------------------- MODULE BuildProofs -----------------------------
(***************************************************************************)
(* What was built, for any libraries in any number of versions, any number *)
(* of edits, upgrades, failed and interrupted builds.                      *)
(***************************************************************************)
EXTENDS Build, TLAPS

USE BoundsAssumption

\* The bound of edits is not passed.
LEMMA OneMoreEdit ==
  ASSUME NEW n \in 0 .. MaxEdits, n < MaxEdits
  PROVE  n + 1 \in 0 .. MaxEdits
OBVIOUS

\* An OUTPUT that is there is of its schema unless the schema is newer, and the
\* header beside it is of the same run: an interrupted run leaves no OUTPUT.
Generated ==
  \A g \in Generators : output[g] # <<>> =>
    header[g] = output[g] /\ (g \in newer \/ output[g][1] = schema[g])

\* A build is done only when nothing is out of date and all was accepted.
Compiled == build = "done" => \A g \in Generators : ~Outdated(g) /\ Accepts(g)

IInv == TypeOK /\ Generated /\ Compiled

USE DEF IInv, TypeOK, Generated, Compiled

\* Whatever has a generator is built.
LEMMA GeneratorsAreLibraries == Generators \subseteq Libraries
BY DEF Generators

\* A fresh checkout is of its schemas.
LEMMA InitKeeps ==
  ASSUME Init
  PROVE  IInv
BY GeneratorsAreLibraries DEF Init

\* Installing a library changes no file in the source tree.
LEMMA InstallKeeps ==
  ASSUME IInv, NEW l \in Libraries, Install(l)
  PROVE  IInv'
BY GeneratorsAreLibraries DEF Install, tree

\* A generator runs on the schema as it is, with all libraries as wanted.
LEMMA GenerateKeeps ==
  ASSUME IInv, NEW g \in Generators, Generate(g)
  PROVE  IInv'
<1>1. installed[g] \in Versions
  BY GeneratorsAreLibraries DEF Generate, AllReady, Ready
<1>2. <<schema[g], installed[g]>> \in (0 .. MaxEdits) \X Versions
  BY <1>1
<1>3. TypeOK'
  BY <1>2 DEF Generate, tree
<1>4. Generated'
  BY DEF Generate, tree
<1>5. Compiled'
  BY DEF Generate
<1> QED
  BY <1>3, <1>4, <1>5

\* An interrupted generator leaves no OUTPUT, so the header does not matter.
LEMMA InterruptKeeps ==
  ASSUME IInv, NEW g \in Generators, Interrupt(g)
  PROVE  IInv'
<1>1. <<schema[g], installed[g]>> \in (0 .. MaxEdits) \X Versions
  BY GeneratorsAreLibraries DEF Interrupt, AllReady, Ready
<1>2. PICK h \in {<<>>, header[g], <<schema[g], installed[g]>>} : header' = [header EXCEPT ![g] = h]
  BY DEF Interrupt
<1>3. TypeOK'
  BY <1>1, <1>2 DEF Interrupt, tree
<1>4. Generated'
  BY <1>2 DEF Interrupt, tree
<1>5. Compiled'
  BY DEF Interrupt
<1> QED
  BY <1>3, <1>4, <1>5

\* Edits make a schema newer; nothing is done any longer after a change.
LEMMA BetweenBuildsKeeps ==
  ASSUME IInv,
         \/ Run
         \/ \E g \in Generators : Edit(g)
         \/ \E l \in Libraries, v \in Versions : Upgrade(l, v)
  PROVE  IInv'
<1>1. CASE Run
  BY <1>1 DEF Run, tree
<1>2. ASSUME NEW g \in Generators, Edit(g) PROVE IInv'
  <2>1. schema[g] + 1 \in 0 .. MaxEdits
    <3>1. schema[g] \in 0 .. MaxEdits
      OBVIOUS
    <3>2. schema[g] < MaxEdits
      BY <1>2 DEF Edit
    <3> QED
      BY <3>1, <3>2, OneMoreEdit
  <2>2. TypeOK'
    BY <1>2, <2>1 DEF Edit
  <2>3. Generated' /\ Compiled'
    BY <1>2 DEF Edit
  <2> QED
    BY <2>2, <2>3
<1>3. ASSUME NEW l \in Libraries, NEW v \in Versions, Upgrade(l, v) PROVE IInv'
  BY <1>3 DEF Upgrade
<1> QED
  BY <1>1, <1>2, <1>3

\* Only a compilation of what is up to date ends a build well.
LEMMA EndKeeps ==
  ASSUME IInv, Compile \/ CompileError \/ Fail
  PROVE  IInv'
<1>1. CASE Compile
  BY <1>1 DEF Compile, tree, Outdated, Accepts
<1>2. CASE CompileError
  BY <1>2 DEF CompileError, tree
<1>3. CASE Fail
  BY <1>3 DEF Fail, tree
<1> QED
  BY <1>1, <1>2, <1>3

(* The invariant holds at any time, through all builds. *)
THEOREM Inductive == Spec => []IInv
<1>1. Init => IInv
  BY InitKeeps
<1>2. IInv /\ [Next]_vars => IInv'
  <2> SUFFICES ASSUME IInv, [Next]_vars PROVE IInv'
    OBVIOUS
  <2>1. CASE \E l \in Libraries : Install(l)
    BY <2>1, InstallKeeps
  <2>2. CASE \E g \in Generators : Generate(g)
    BY <2>2, GenerateKeeps
  <2>3. CASE Compile \/ CompileError \/ Fail
    BY <2>3, EndKeeps
  <2>4. CASE \E g \in Generators : Interrupt(g)
    BY <2>4, InterruptKeeps
  <2>5. CASE \/ Run
             \/ \E g \in Generators : Edit(g)
             \/ \E l \in Libraries, v \in Versions : Upgrade(l, v)
    BY <2>5, BetweenBuildsKeeps
  <2>6. CASE UNCHANGED vars
    BY <2>6 DEF vars, Outdated, Accepts
  <2> QED
    BY <2>1, <2>2, <2>3, <2>4, <2>5, <2>6 DEF Next, Step
<1> QED
  BY <1>1, <1>2, PTL DEF Spec

(* The build directory and the source tree hold what they should, at any time. *)
THEOREM TypeCorrect == Spec => []TypeOK
BY Inductive, PTL DEF IInv

(***************************************************************************)
(* What is built is built from the schemas as they are, although no rule   *)
(* names the headers and a build may be interrupted in any generator.      *)
(***************************************************************************)
THEOREM BuildsCurrentSchema == Spec => []CurrentSchema
<1>1. IInv => CurrentSchema
  BY DEF CurrentSchema, Outdated
<1> QED
  BY <1>1, Inductive, PTL

(***************************************************************************)
(* Both generated files are of one generator, and where their headers look *)
(* at the version of the library, a program that is built has a right one. *)
(***************************************************************************)
THEOREM BuildsAgreeingVersions == Spec => []VersionsAgree
<1>1. IInv => VersionsAgree
  <2> SUFFICES ASSUME IInv, build = "done", NEW g \in Generators
               PROVE  /\ output[g] = header[g]
                      /\ g = "capnproto" => output[g][2] = installed[g]
                      /\ g = "protobuf" => output[g][2] <= installed[g]
    BY DEF VersionsAgree
  <2>1. ~Outdated(g) /\ Accepts(g)
    OBVIOUS
  <2>2. output[g] = header[g]
    BY <2>1 DEF Outdated
  <2>3. output[g] \in (0 .. MaxEdits) \X Versions /\ installed[g] \in Nat
    BY <2>1, GeneratorsAreLibraries DEF Outdated
  <2> QED
    BY <2>1, <2>2, <2>3 DEF Accepts
<1> QED
  BY <1>1, Inductive, PTL

-----------------------------------------------------------------------------
(* Why a build ends. *)

(***************************************************************************)
(* make is never at a loss: while a library is missing, there is one that  *)
(* has all it depends on, whichever were installed, upgraded or left out   *)
(* by the builds before; when none is, nothing waits for anything.         *)
(***************************************************************************)
NoWaiting ==
  build = "running" /\ ~AllReady =>
    \E l \in Libraries : ~Ready(l) /\ \A d \in DEPENDS(l) : Ready(d)

(***************************************************************************)
(* And never does a thing twice: what a build has left to do, libraries to *)
(* install and generators to run, shrinks with each step and nothing comes *)
(* back, so a build takes no more steps than it has libraries and          *)
(* generators.                                                             *)
(***************************************************************************)
Left == {<<"install", l>> : l \in {m \in Libraries : ~Ready(m)}}
        \cup {<<"generate", g>> : g \in {h \in Generators : Outdated(h)}}
Advances ==
  [][build = "running" /\ build' = "running" => Left' \subseteq Left /\ Left' # Left]_vars

(***************************************************************************)
(* While a library is missing, one can be installed: boost, which depends  *)
(* on nothing, or, when boost is there or not asked for, any.              *)
(***************************************************************************)
THEOREM NeverWaits == Spec => []NoWaiting
<1>1. NoWaiting
  <2> SUFFICES ASSUME ~AllReady
               PROVE  \E l \in Libraries : ~Ready(l) /\ \A d \in DEPENDS(l) : Ready(d)
    BY DEF NoWaiting
  <2>1. PICK m \in Libraries : ~Ready(m)
    BY DEF AllReady
  <2>2. CASE "boost" \in Libraries /\ ~Ready("boost")
    <3>1. DEPENDS("boost") = {}
      BY DEF DEPENDS
    <3> QED
      BY <2>2, <3>1
  <2>3. CASE ~("boost" \in Libraries /\ ~Ready("boost"))
    <3>1. DEPENDS(m) \subseteq Libraries \cap {"boost"}
      BY DEF DEPENDS
    <3> QED
      BY <2>1, <2>3, <3>1
  <2> QED
    BY <2>2, <2>3
<1> QED
  BY <1>1, PTL

\* A library installed is done with; no other and no generator is touched.
LEMMA InstallAdvances ==
  ASSUME IInv, NEW l \in Libraries, Install(l)
  PROVE  Left' \subseteq Left /\ Left' # Left
<1>1. /\ installed[l] # wanted[l] /\ installed'[l] = wanted[l] /\ wanted' = wanted
      /\ \A m \in Libraries \ {l} : installed'[m] = installed[m]
  BY DEF Install, Ready, tree
<1>2. newer' = newer /\ output' = output
  BY DEF Install
<1>3. Left' \subseteq Left
  <2> SUFFICES ASSUME NEW x \in Left' PROVE x \in Left
    OBVIOUS
  <2>1. ASSUME NEW m \in Libraries, ~Ready(m)', x = <<"install", m>> PROVE x \in Left
    <3>1. ~Ready(m)
      BY <1>1, <2>1 DEF Ready
    <3> QED
      BY <2>1, <3>1, Zenon DEF Left
  <2>2. ASSUME NEW h \in Generators, Outdated(h)', x = <<"generate", h>> PROVE x \in Left
    <3>1. Outdated(h)
      BY <1>2, <2>2 DEF Outdated
    <3> QED
      BY <2>2, <3>1, Zenon DEF Left
  <2> QED
    BY <2>1, <2>2, Zenon DEF Left
<1>4. <<"install", l>> \in Left
  BY <1>1 DEF Left, Ready
<1>5. <<"install", l>> \notin Left'
  BY <1>1 DEF Left, Ready
<1> QED
  BY <1>3, <1>4, <1>5

\* A generator that has run is done with; no library and no other is touched.
LEMMA GenerateAdvances ==
  ASSUME IInv, NEW g \in Generators, Generate(g)
  PROVE  Left' \subseteq Left /\ Left' # Left
<1>1. /\ output'[g] # <<>> /\ g \notin newer' /\ newer' \subseteq newer
      /\ \A h \in Generators \ {g} : output'[h] = output[h]
  BY DEF Generate
<1>2. installed' = installed /\ wanted' = wanted /\ Outdated(g)
  BY DEF Generate, tree
<1>3. Left' \subseteq Left
  <2> SUFFICES ASSUME NEW x \in Left' PROVE x \in Left
    OBVIOUS
  <2>1. ASSUME NEW m \in Libraries, ~Ready(m)', x = <<"install", m>> PROVE x \in Left
    <3>1. ~Ready(m)
      BY <1>2, <2>1 DEF Ready
    <3> QED
      BY <2>1, <3>1, Zenon DEF Left
  <2>2. ASSUME NEW h \in Generators, Outdated(h)', x = <<"generate", h>> PROVE x \in Left
    <3>1. Outdated(h)
      BY <1>1, <2>2 DEF Outdated
    <3> QED
      BY <2>2, <3>1, Zenon DEF Left
  <2> QED
    BY <2>1, <2>2, Zenon DEF Left
<1>4. <<"generate", g>> \in Left
  BY <1>2 DEF Left
<1>5. <<"generate", g>> \notin Left'
  BY <1>1 DEF Left, Outdated
<1> QED
  BY <1>3, <1>4, <1>5

(***************************************************************************)
(* For any libraries: each step of a build that goes on takes something    *)
(* from what is left and puts nothing back.  Together with NeverWaits, a   *)
(* build that make goes on with ends.                                      *)
(***************************************************************************)
THEOREM AlwaysAdvances == Spec => Advances
<1> DEFINE Less == build = "running" /\ build' = "running" => Left' \subseteq Left /\ Left' # Left
<1>1. ASSUME IInv, Next PROVE Less
  <2>1. CASE \E l \in Libraries : Install(l)
    BY <1>1, <2>1, InstallAdvances
  <2>2. CASE \E g \in Generators : Generate(g)
    BY <1>1, <2>2, GenerateAdvances
  <2>3. CASE Compile \/ CompileError \/ Fail \/ \E g \in Generators : Interrupt(g)
    BY <1>1, <2>3 DEF Compile, CompileError, Fail, Interrupt
  <2>4. CASE \/ Run
             \/ \E g \in Generators : Edit(g)
             \/ \E l \in Libraries, v \in Versions : Upgrade(l, v)
    BY <1>1, <2>4 DEF Run, Edit, Upgrade
  <2> QED
    BY <1>1, <2>1, <2>2, <2>3, <2>4 DEF Next, Step
<1> QED
  BY <1>1, Inductive, PTL DEF Spec, Advances
=============================================================================
