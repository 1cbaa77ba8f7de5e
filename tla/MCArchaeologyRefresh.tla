------------------------ MODULE MCArchaeologyRefresh ------------------------
(* Instances of ArchaeologyRefresh for TLC. *)
EXTENDS ArchaeologyRefresh, TLC

CONSTANTS p1, p2, p3, v1, v2, a, b, c, d, plain

\* From a to b, p1 changes; from b to c, p3 goes; d is c again under another
\* commit.
FourSources ==
    (a :> (p1 :> v1 @@ p2 :> v1 @@ p3 :> v1)) @@
    (b :> (p1 :> v2 @@ p2 :> v1 @@ p3 :> v1)) @@
    (c :> (p1 :> v2 @@ p2 :> v1 @@ p3 :> "absent")) @@
    (d :> (p1 :> v2 @@ p2 :> v1 @@ p3 :> "absent"))

\* Two sources that differ in p1.
TwoSources == (a :> (p1 :> v1 @@ p2 :> v1)) @@ (b :> (p1 :> v2 @@ p2 :> v1))

\* From a to b, p1 takes a content its parser refuses; c has neither that nor
\* p2, and publication refuses it.
ThreeSources ==
    (a :> (p1 :> v1 @@ p2 :> v1)) @@
    (b :> (p1 :> v2 @@ p2 :> v1)) @@
    (c :> (p1 :> v1 @@ p2 :> "absent"))

P1AsV2Fails   == {<<p1, v2>>}
CIsNotAdmitted == {<<c, "publish">>}
NoFailure     == {}

OneSource == (a :> (p1 :> v1 @@ p2 :> v1))

OneConfig == [src \in Sources |-> plain]

\* p2 depends on p1, as a program on its copybook.
OneDependency == {<<p2, p1>>}
NoDependency  == {}

\* Continue commands are interchangeable.
DriverSymmetry == Permutations(Drivers)
=============================================================================
